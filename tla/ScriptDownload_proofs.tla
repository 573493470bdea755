----------------------- MODULE ScriptDownload_proofs ------------------------
(***************************************************************************)
(* Burn-on-read, for any number of executions, tokens, requests and        *)
(* threads.                                                                *)
(***************************************************************************)
EXTENDS ScriptDownload, FiniteSetTheorems, TLAPS

\* A subset of a finite set has no more elements than the set.
LEMMA Smaller ==
  ASSUME NEW S, NEW T, IsFiniteSet(T), S \subseteq T
  PROVE  IsFiniteSet(S) /\ Cardinality(S) \in Nat /\ Cardinality(S) <= Cardinality(T)
  BY FS_Subset, FS_CardinalityType

\* Adding an element adds at most one to the cardinality.
LEMMA OneMore ==
  ASSUME NEW S, NEW x, IsFiniteSet(S)
  PROVE  /\ IsFiniteSet(S \cup {x})
         /\ Cardinality(S \cup {x}) \in Nat
         /\ Cardinality(S) \in Nat
         /\ Cardinality(S \cup {x}) <= Cardinality(S) + 1
<1>1. IsFiniteSet(S \cup {x}) /\ Cardinality(S \cup {x}) =
        IF x \in S THEN Cardinality(S) ELSE Cardinality(S) + 1
  BY FS_AddElement
<1>2. Cardinality(S) \in Nat /\ Cardinality(S \cup {x}) \in Nat
  BY <1>1, FS_CardinalityType
<1> QED
  BY <1>1, <1>2

LEMMA DownloadersFinite == IsFiniteSet(Downloaders)
  BY RequestsAssumption, FS_Subset DEF Requests

LEMMA InitInvariant == Init => IInv
<1> SUFFICES ASSUME Init PROVE IInv
  OBVIOUS
<1>1. TypeOK
  BY DEF Init, TypeOK, Content
<1>2. \A p \in Loaders : LoaderControl(p)
  BY DEF Init, LoaderControl, Requests
<1>3. \A p \in Downloaders : DownloadControl(p)
  BY DEF Init, DownloadControl, Requests
<1>4. \A p \in Bootstrappers : pc[p] \in {"idle", "done"}
  BY DEF Init, Requests
<1>5. AdmittedBoundedByThreads
  <2> SUFFICES ASSUME NEW t \in Tokens
               PROVE  Cardinality(Admitted(t)) <= Workers
    BY DEF AdmittedBoundedByThreads
  <2>1. Admitted(t) = {}
    BY DEF Init, Admitted, Requests
  <2> QED
    BY <2>1, FS_EmptySet, WorkersAssumption
<1> QED
  BY <1>1, <1>2, <1>3, <1>4, <1>5 DEF IInv

-----------------------------------------------------------------------------
(* Steps that let no download in *)

\* Where no download is let in, the bound is kept.
LEMMA NoAdmission ==
  ASSUME IInv, \A t \in Tokens : Admitted(t)' \subseteq Admitted(t)
  PROVE  AdmittedBoundedByThreads'
<1> SUFFICES ASSUME NEW t \in Tokens
             PROVE  Cardinality(Admitted(t)') <= Workers
  BY DEF AdmittedBoundedByThreads
<1>1. Admitted(t) \subseteq Downloaders
  BY DEF Admitted
<1>2. IsFiniteSet(Admitted(t)) /\ Cardinality(Admitted(t)) \in Nat
  BY <1>1, DownloadersFinite, Smaller
<1>3. Cardinality(Admitted(t)') \in Nat /\ Cardinality(Admitted(t)') <= Cardinality(Admitted(t))
  BY <1>2, Smaller
<1>4. Cardinality(Admitted(t)) <= Workers
  BY DEF IInv, AdmittedBoundedByThreads
<1> QED
  BY <1>2, <1>3, <1>4, WorkersAssumption

\* Requests other than downloads move without touching what downloads hold.
LEMMA OtherStep ==
  ASSUME IInv, TypeOK',
         UNCHANGED <<is_consumed, token_record>>,
         issued \subseteq issued',
         \A p \in Downloaders : pc'[p] = pc[p],
         \A p \in Loaders : LoaderControl(p)',
         \A p \in Bootstrappers : pc'[p] \in {"idle", "done"}
  PROVE  IInv'
<1>1. \A p \in Downloaders : DownloadControl(p)'
  BY DEF IInv, DownloadControl
<1>2. AdmittedBoundedByThreads'
  BY NoAdmission DEF Admitted
<1> QED
  BY <1>1, <1>2 DEF IInv

\* A download goes on, its token burnt before it is rendered.
LEMMA DownloadStep ==
  ASSUME IInv, TypeOK',
         NEW p \in Downloaders, NEW to \in {"render", "served", "failed"},
         UNCHANGED <<issued, instance, token_record>>,
         is_consumed \subseteq is_consumed',
         pc[p] \in {"burn", "render"},
         pc' = [pc EXCEPT ![p] = to],
         to \in {"render", "served"} => token_record[p].token \in is_consumed'
  PROVE  IInv'
<1> USE RequestsAssumption DEF Requests, Loaders
<1>1. \A q \in Downloaders : DownloadControl(q)'
  BY DEF IInv, TypeOK, DownloadControl
<1>2. \A q \in Loaders : LoaderControl(q)'
  BY DEF IInv, TypeOK, LoaderControl
<1>3. \A q \in Bootstrappers : pc'[q] \in {"idle", "done"}
  BY DEF IInv, TypeOK
<1>4. AdmittedBoundedByThreads'
  BY NoAdmission DEF Admitted, IInv, TypeOK
<1> QED
  BY <1>1, <1>2, <1>3, <1>4 DEF IInv

-----------------------------------------------------------------------------
(* A download let in *)

\* When a download is let in with an unburnt token, the others let in with it are
\* all still being served: the threads bound them.
LEMMA DownloadLoadStep ==
  ASSUME IInv, NEW p \in Downloaders, NEW t \in Tokens, DownloadLoad(p, t)
  PROVE  IInv'
<1> USE RequestsAssumption DEF Requests, Loaders
<1>0. [token |-> t, execution |-> linked[t]] \in TokenRecord
  BY DEF IInv, TypeOK, TokenRecord
<1>1. TypeOK'
  <2>1. pc' = [pc EXCEPT ![p] = "burn"] \/ pc' = [pc EXCEPT ![p] = "failed"]
    BY DEF DownloadLoad, Arrive, Step
  <2>2. pc' \in [Requests -> {"idle", "issue", "save", "delete", "burn", "render",
                             "done", "served", "failed", "crashed"}]
    BY <2>1 DEF IInv, TypeOK
  <2>3. token_record' \in [Downloaders -> TokenRecord \cup {Null}]
    BY <1>0 DEF IInv, TypeOK, DownloadLoad
  <2> QED
    BY <2>2, <2>3 DEF IInv, TypeOK, DownloadLoad, tokens
<1>2. ASSUME NEW q \in Downloaders
      PROVE  DownloadControl(q)'
  <2>1. CASE q = p
    <3>1. token_record'[p] = [token |-> t, execution |-> linked[t]]
      BY DEF IInv, TypeOK, DownloadLoad
    <3>2. pc'[p] = "failed" \/ (pc'[p] = "burn" /\ t \in issued)
      BY DEF IInv, TypeOK, DownloadLoad, Arrive, Step, IsValid
    <3> QED
      BY <1>0, <2>1, <3>1, <3>2 DEF DownloadControl, DownloadLoad, tokens
  <2>2. CASE q # p
    <3>1. pc'[q] = pc[q] /\ token_record'[q] = token_record[q]
      BY <2>2 DEF IInv, TypeOK, DownloadLoad, Arrive, Step
    <3> QED
      BY <3>1 DEF IInv, DownloadControl, DownloadLoad, tokens
  <2> QED
    BY <2>1, <2>2
<1>3. \A q \in Loaders : LoaderControl(q)'
  BY DEF IInv, TypeOK, LoaderControl, DownloadLoad, Arrive, Step
<1>4. \A q \in Bootstrappers : pc'[q] \in {"idle", "done"}
  BY DEF IInv, TypeOK, DownloadLoad, Arrive, Step
<1>5. AdmittedBoundedByThreads'
  <2>1. CASE ~ IsValid(t)
    BY <2>1, NoAdmission DEF Admitted, IInv, TypeOK, DownloadLoad, Arrive, Step
  <2>2. CASE IsValid(t)
    <3> SUFFICES ASSUME NEW u \in Tokens
                 PROVE  Cardinality(Admitted(u)') <= Workers
      BY DEF AdmittedBoundedByThreads
    <3>1. Admitted(u) \subseteq Downloaders
      BY DEF Admitted
    <3>2. IsFiniteSet(Admitted(u)) /\ Cardinality(Admitted(u)) \in Nat
      BY <3>1, DownloadersFinite, Smaller
    <3>3. CASE u # t
      <4>1. Admitted(u)' \subseteq Admitted(u)
        BY <3>3, <2>2 DEF Admitted, IInv, TypeOK, DownloadLoad, Arrive, Step
      <4>2. Cardinality(Admitted(u)') \in Nat
            /\ Cardinality(Admitted(u)') <= Cardinality(Admitted(u))
        BY <3>2, <4>1, Smaller
      <4>3. Cardinality(Admitted(u)) <= Workers
        BY DEF IInv, AdmittedBoundedByThreads
      <4> QED
        BY <3>2, <4>2, <4>3, WorkersAssumption
    <3>4. CASE u = t
      <4>1. t \notin is_consumed
        BY <2>2 DEF IsValid
      <4>2. \A q \in Admitted(t) : pc[q] = "burn"
        BY <4>1 DEF Admitted, IInv, DownloadControl
      <4>3. Admitted(t) \subseteq InFlight
        BY <4>2 DEF Admitted, InFlight
      <4>4. IsFiniteSet(InFlight) /\ Cardinality(InFlight) \in Nat
        BY Smaller DEF InFlight
      <4>5. Cardinality(Admitted(t)) <= Cardinality(InFlight)
        BY <4>3, <4>4, Smaller
      <4>6. Cardinality(InFlight) < Workers
        BY DEF DownloadLoad, Arrive
      <4>7. Admitted(t)' \subseteq Admitted(t) \cup {p}
        BY DEF Admitted, IInv, TypeOK, DownloadLoad, Arrive, Step
      <4>8. IsFiniteSet(Admitted(t) \cup {p})
            /\ Cardinality(Admitted(t) \cup {p}) \in Nat
            /\ Cardinality(Admitted(t)) \in Nat
            /\ Cardinality(Admitted(t) \cup {p}) <= Cardinality(Admitted(t)) + 1
        <5>1. Admitted(t) \subseteq Downloaders
          BY DEF Admitted
        <5>2. IsFiniteSet(Admitted(t))
          BY <5>1, DownloadersFinite, Smaller
        <5> QED
          BY <5>2, OneMore
      <4>9. Cardinality(Admitted(t)') \in Nat
            /\ Cardinality(Admitted(t)') <= Cardinality(Admitted(t) \cup {p})
        BY <4>7, <4>8, Smaller
      <4> QED
        BY <3>4, <4>4, <4>5, <4>6, <4>8, <4>9, WorkersAssumption
    <3> QED
      BY <3>3, <3>4
  <2> QED
    BY <2>1, <2>2
<1> QED
  BY <1>1, <1>2, <1>3, <1>4, <1>5 DEF IInv

-----------------------------------------------------------------------------
(* The invariant *)

LEMMA NextInvariant == IInv /\ [Next]_vars => IInv'
<1> SUFFICES ASSUME IInv, [Next]_vars PROVE IInv'
  OBVIOUS
<1> USE RequestsAssumption, NullAssumption DEF Requests, Loaders
<1>1. CASE UNCHANGED vars
  <2>1. TypeOK'
    BY <1>1 DEF vars, tokens, IInv, TypeOK
  <2> QED
    BY <1>1, <2>1, OtherStep DEF vars, tokens, IInv, LoaderControl
<1>2. ASSUME NEW e \in Executions, Dispatch(e)
      PROVE  IInv'
  <2>1. TypeOK'
    BY <1>2 DEF IInv, TypeOK, Dispatch, tokens
  <2> QED
    BY <1>2, <2>1, OtherStep DEF Dispatch, tokens, IInv, LoaderControl
<1>3. ASSUME NEW p \in Loaders, NEW e \in Executions,
             NEW to \in {"issue", "save", "delete", "failed"}, Load(p, e, to)
      PROVE  IInv'
  <2>1. [pk |-> e, content |-> content[e]] \in Instance
    BY DEF IInv, TypeOK, Instance
  <2>2. TypeOK'
    BY <1>3, <2>1 DEF IInv, TypeOK, Load, Arrive, Step, tokens
  <2>3. \A q \in Loaders : LoaderControl(q)'
    BY <1>3, <2>1 DEF IInv, TypeOK, LoaderControl, Load, Arrive, Step
  <2> QED
    BY <1>3, <2>2, <2>3, OtherStep DEF Load, Arrive, Step, tokens, IInv, TypeOK
<1>4. ASSUME NEW p \in Generators, TokenIssue(p)
      PROVE  IInv'
  <2>1. instance[p].pk \in Executions /\ instance[p].content \in Content
    BY <1>4 DEF IInv, LoaderControl, TokenIssue, Step, Instance
  <2>2. TypeOK'
    BY <1>4, <2>1 DEF IInv, TypeOK, TokenIssue, Step, Tokens
  <2>3. \A q \in Loaders : LoaderControl(q)'
    BY <1>4 DEF IInv, TypeOK, LoaderControl, TokenIssue, Step
  <2> QED
    BY <1>4, <2>2, <2>3, OtherStep DEF TokenIssue, Step, IInv, TypeOK
<1>5. ASSUME NEW p \in Editors, NEW edited \in BOOLEAN, EditSave(p, edited)
      PROVE  IInv'
  <2>1. instance[p].pk \in Executions /\ instance[p].content \in Content
    BY <1>5 DEF IInv, LoaderControl, EditSave, Step, Instance
  <2>2. TypeOK'
    BY <1>5, <2>1 DEF IInv, TypeOK, EditSave, Step, tokens, Content
  <2>3. \A q \in Loaders : LoaderControl(q)'
    BY <1>5 DEF IInv, TypeOK, LoaderControl, EditSave, Step
  <2> QED
    BY <1>5, <2>2, <2>3, OtherStep DEF EditSave, Step, tokens, IInv, TypeOK
<1>6. ASSUME NEW p \in Destroyers, DestroyDelete(p)
      PROVE  IInv'
  <2>1. TypeOK'
    BY <1>6 DEF IInv, TypeOK, DestroyDelete, Step
  <2>2. \A q \in Loaders : LoaderControl(q)'
    BY <1>6 DEF IInv, TypeOK, LoaderControl, DestroyDelete, Step
  <2> QED
    BY <1>6, <2>1, <2>2, OtherStep DEF DestroyDelete, Step, IInv, TypeOK
<1>7. ASSUME NEW p \in Bootstrappers, TokenForRouter(p)
      PROVE  IInv'
  <2>1. TypeOK'
    BY <1>7 DEF IInv, TypeOK, TokenForRouter, Arrive, Step, Tokens
  <2>2. \A q \in Loaders : LoaderControl(q)'
    BY <1>7 DEF IInv, TypeOK, LoaderControl, TokenForRouter, Arrive, Step
  <2> QED
    BY <1>7, <2>1, <2>2, OtherStep DEF TokenForRouter, Arrive, Step, IInv, TypeOK
<1>8. ASSUME NEW t \in Tokens, Expire(t)
      PROVE  IInv'
  <2>1. TypeOK'
    BY <1>8 DEF IInv, TypeOK, Expire
  <2> QED
    BY <1>8, <2>1, OtherStep DEF Expire, IInv, LoaderControl
<1>9. ASSUME NEW p \in Downloaders, NEW t \in Tokens, DownloadLoad(p, t)
      PROVE  IInv'
  BY <1>9, DownloadLoadStep
<1>10. ASSUME NEW p \in Downloaders, DownloadBurn(p)
       PROVE  IInv'
  <2>1. token_record[p].token \in issued
    BY <1>10 DEF IInv, DownloadControl, DownloadBurn, Step
  <2>2. TypeOK'
    BY <1>10, <2>1 DEF IInv, TypeOK, DownloadBurn, Step
  <2> QED
    BY <1>10, <2>2, DownloadStep DEF DownloadBurn, Step
<1>11. ASSUME NEW p \in Downloaders, DownloadRender(p)
       PROVE  IInv'
  <2>1. token_record[p] \in TokenRecord /\ token_record[p].token \in is_consumed
    BY <1>11 DEF IInv, DownloadControl, DownloadRender, Step
  <2>2. TypeOK'
    BY <1>11, <2>1 DEF IInv, TypeOK, DownloadRender, Step, tokens, TokenRecord
  <2> QED
    BY <1>11, <2>1, <2>2, DownloadStep DEF DownloadRender, Step, tokens
<1>12. ASSUME NEW p \in Downloaders, DownloadRenderFails(p)
       PROVE  IInv'
  <2>1. TypeOK'
    BY <1>12 DEF IInv, TypeOK, DownloadRenderFails, Step, tokens
  <2> QED
    BY <1>12, <2>1, DownloadStep DEF DownloadRenderFails, Step, tokens
<1>13. ASSUME NEW p \in Requests, Crash(p)
       PROVE  IInv'
  <2>1. TypeOK'
    BY <1>13 DEF IInv, TypeOK, Crash, tokens
  <2>2. \A q \in Loaders : LoaderControl(q)'
    BY <1>13 DEF IInv, TypeOK, LoaderControl, Crash
  <2>3. \A q \in Downloaders : DownloadControl(q)'
    BY <1>13 DEF IInv, TypeOK, DownloadControl, Crash, tokens
  <2>4. \A q \in Bootstrappers : pc'[q] \in {"idle", "done"}
    BY <1>13 DEF IInv, TypeOK, Crash, InFlight
  <2>5. AdmittedBoundedByThreads'
    BY <1>13, NoAdmission DEF Admitted, IInv, TypeOK, Crash
  <2> QED
    BY <2>1, <2>2, <2>3, <2>4, <2>5 DEF IInv
<1> QED
  BY <1>1, <1>2, <1>3, <1>4, <1>5, <1>6, <1>7, <1>8, <1>9, <1>10, <1>11, <1>12, <1>13
  DEF Next

\* What each request holds, the order in which download_script burns and renders,
\* and the number of downloads let in per token form an inductive invariant.
THEOREM Invariance == Spec => []IInv
  BY InitInvariant, NextInvariant, PTL DEF Spec

\* Executions, tokens and the memory of the requests keep their types.
THEOREM TypeCorrect == Spec => []TypeOK
<1>1. IInv => TypeOK
  BY DEF IInv
<1> QED
  BY <1>1, Invariance, PTL

\* A token is served at most once per thread of the deployment.
THEOREM ServingsAreBounded == Spec => []ServedBoundedByThreads
<1>1. IInv => ServedBoundedByThreads
  <2> SUFFICES ASSUME IInv, NEW t \in Tokens
               PROVE  Cardinality(ServedWith(t)) <= Workers
    BY DEF ServedBoundedByThreads
  <2>1. ServedWith(t) \subseteq Admitted(t) /\ Admitted(t) \subseteq Downloaders
    BY DEF ServedWith, Admitted
  <2>2. IsFiniteSet(Admitted(t)) /\ Cardinality(Admitted(t)) \in Nat
    BY <2>1, DownloadersFinite, Smaller
  <2>3. Cardinality(ServedWith(t)) \in Nat
        /\ Cardinality(ServedWith(t)) <= Cardinality(Admitted(t))
    BY <2>1, <2>2, Smaller
  <2>4. Cardinality(Admitted(t)) <= Workers
    BY DEF IInv, AdmittedBoundedByThreads
  <2> QED
    BY <2>2, <2>3, <2>4, WorkersAssumption
<1> QED
  BY <1>1, Invariance, PTL

\* A download that comes after a token was served is turned away.
THEOREM ServedTokensAreRefused == Spec => NoReadAfterServing
<1> DEFINE Refused ==
      \A p, q \in Downloaders :
        /\ pc[p] = "idle" /\ pc'[p] = "burn"
        /\ pc[q] = "served"
        => token_record'[p].token # token_record[q].token
<1>1. IInv /\ [Next]_vars => [Refused]_vars
  <2> SUFFICES ASSUME IInv, Next,
                      NEW p \in Downloaders, NEW q \in Downloaders,
                      pc[p] = "idle", pc'[p] = "burn", pc[q] = "served"
               PROVE  token_record'[p].token # token_record[q].token
    OBVIOUS
  <2> USE RequestsAssumption DEF Requests, Loaders
  <2>1. token_record[q].token \in is_consumed
    BY DEF IInv, DownloadControl
  <2>2. PICK d \in Downloaders, t \in Tokens : DownloadLoad(d, t)
    BY DEF Next, IInv, TypeOK, Dispatch, Load, Arrive, Step, TokenIssue, EditSave,
       DestroyDelete, TokenForRouter, Expire, DownloadBurn, DownloadRender,
       DownloadRenderFails, Crash
  <2>3. d = p /\ IsValid(t)
    BY <2>2 DEF IInv, TypeOK, DownloadLoad, Arrive, Step
  <2>4. token_record'[p].token = t
    BY <2>2, <2>3 DEF IInv, TypeOK, DownloadLoad
  <2> QED
    BY <2>1, <2>3, <2>4 DEF IsValid
<1> QED
  BY <1>1, Invariance, PTL DEF Spec, NoReadAfterServing

-----------------------------------------------------------------------------
(* What is served *)

\* c is what an editor of e wrote, or loaded and wrote again.
Edited(e, c) ==
  \E w \in Editors : /\ pc[w] = "done" /\ instance[w].pk = e
                     /\ c \in {w, instance[w].content}

\* e still renders to c, unless it has been edited.
AsLoaded(e, c) == content[e] = c \/ Edited(e, content[e])

\* From the load of an execution to its token, to the download that reads it.
CopyInv ==
  /\ \A g \in Generators :
       /\ g \in issued => pc[g] = "done"
       /\ pc[g] = "issue" => AsLoaded(instance[g].pk, instance[g].content)
  /\ \A t \in Tokens : linked[t] # Null => AsLoaded(linked[t], snapshot[t])
  /\ \A p \in Downloaders :
       pc[p] \in {"burn", "render"} /\ token_record[p].execution # Null =>
         AsLoaded(token_record[p].execution, snapshot[token_record[p].token])
  /\ ServedAsIssuedOrEdited

\* An edit, once saved, stays one that was made.
LEMMA EditedStays ==
  ASSUME IInv, Next, NEW e, NEW c, Edited(e, c)
  PROVE  Edited(e, c)'
<1> USE RequestsAssumption DEF Requests, Loaders
<1>1. PICK w \in Editors : /\ pc[w] = "done" /\ instance[w].pk = e
                           /\ c \in {w, instance[w].content}
  BY DEF Edited
<1>2. pc'[w] = "done" /\ instance'[w] = instance[w]
  BY <1>1 DEF Next, IInv, TypeOK, Dispatch, Load, Arrive, Step, TokenIssue, EditSave,
              DestroyDelete, TokenForRouter, Expire, DownloadLoad, DownloadBurn,
              DownloadRender, DownloadRenderFails, Crash, InFlight
<1> QED
  BY <1>1, <1>2 DEF Edited

LEMMA AsLoadedStays ==
  ASSUME IInv, Next, NEW e \in Executions, NEW c, AsLoaded(e, c)
  PROVE  content'[e] = c \/ Edited(e, content[e])'
<1> USE RequestsAssumption DEF Requests, Loaders
<1>1. CASE content'[e] = content[e]
  BY <1>1, EditedStays DEF AsLoaded, Edited
<1>2. CASE content'[e] # content[e]
  <2>1. PICK w \in Editors, edited \in BOOLEAN : EditSave(w, edited)
    BY <1>2 DEF Next, Dispatch, Load, TokenIssue, DestroyDelete, TokenForRouter, Expire,
                DownloadLoad, DownloadBurn, DownloadRender, DownloadRenderFails, Crash
  <2>2. /\ instance[w].pk = e /\ instance'[w] = instance[w] /\ pc'[w] = "done"
        /\ content'[e] \in {w, instance[w].content}
    BY <1>2, <2>1 DEF EditSave, Step, IInv, TypeOK
  <2> QED
    BY <2>2 DEF Edited
<1> QED
  BY <1>1, <1>2

\* A token keeps its copy, and is issued once.
LEMMA SnapshotNext ==
  ASSUME IInv, CopyInv, Next
  PROVE  /\ issued \subseteq issued'
         /\ \A t \in issued : snapshot'[t] = snapshot[t]
         /\ \A g \in Generators : g \in issued' => pc'[g] = "done"
<1> USE RequestsAssumption DEF Requests, Loaders
<1>1. ASSUME NEW p \in Generators, TokenIssue(p)
      PROVE  /\ issued \subseteq issued'
             /\ \A t \in issued : snapshot'[t] = snapshot[t]
             /\ \A g \in Generators : g \in issued' => pc'[g] = "done"
  <2>1. p \notin issued
    BY <1>1 DEF CopyInv, TokenIssue, Step
  <2> QED
    BY <1>1, <2>1 DEF CopyInv, IInv, TypeOK, TokenIssue, Step, Tokens
<1>2. ASSUME NEW p \in Bootstrappers, TokenForRouter(p)
      PROVE  /\ issued \subseteq issued'
             /\ \A t \in issued : snapshot'[t] = snapshot[t]
             /\ \A g \in Generators : g \in issued' => pc'[g] = "done"
  BY <1>2 DEF CopyInv, IInv, TypeOK, TokenForRouter, Arrive, Step
<1>3. ASSUME issued' = issued, snapshot' = snapshot,
             \A g \in Generators : pc[g] = "done" => pc'[g] = "done"
      PROVE  /\ issued \subseteq issued'
             /\ \A t \in issued : snapshot'[t] = snapshot[t]
             /\ \A g \in Generators : g \in issued' => pc'[g] = "done"
  BY <1>3 DEF CopyInv
<1>4. ASSUME NEW p \in Requests, NEW from, NEW to, Step(p, from, to), from # "done",
             issued' = issued, snapshot' = snapshot
      PROVE  \A g \in Generators : pc[g] = "done" => pc'[g] = "done"
  BY <1>4 DEF Step, IInv, TypeOK
<1>5. ASSUME NEW p \in Requests, Crash(p)
      PROVE  \A g \in Generators : pc[g] = "done" => pc'[g] = "done"
  BY <1>5 DEF Crash, InFlight, IInv, TypeOK
<1> QED
  BY <1>1, <1>2, <1>3, <1>4, <1>5
  DEF Next, Dispatch, Load, Arrive, EditSave, DestroyDelete, Expire, DownloadLoad,
      DownloadBurn, DownloadRender, DownloadRenderFails, Crash, tokens

LEMMA CopyNext ==
  ASSUME IInv, CopyInv, Next
  PROVE  CopyInv'
<1> USE RequestsAssumption, NullAssumption DEF Requests, Loaders
<1>0. TypeOK /\ TypeOK' /\ IInv'
  BY NextInvariant DEF IInv
<1>1. ASSUME NEW e \in Executions, NEW c, AsLoaded(e, c)
      PROVE  content'[e] = c \/ Edited(e, content[e])'
  BY <1>1, AsLoadedStays
<1>2. ASSUME NEW g \in Generators, pc'[g] = "issue"
      PROVE  AsLoaded(instance[g].pk, instance[g].content)'
  <2>1. CASE pc[g] = "issue" /\ instance'[g] = instance[g]
    <3>1. PICK e \in Executions, c \in Content :
            e = instance[g].pk /\ c = instance[g].content /\ AsLoaded(e, c)
      BY <2>1 DEF CopyInv, IInv, LoaderControl, Instance
    <3>2. content'[e] = c \/ Edited(e, content[e])'
      BY <1>1, <3>1
    <3> QED
      BY <2>1, <3>1, <3>2 DEF AsLoaded, Edited
  <2>2. ASSUME NEW e \in Executions, NEW to, Load(g, e, to)
        PROVE  AsLoaded(instance[g].pk, instance[g].content)'
    BY <1>0, <2>2 DEF Load, TypeOK, AsLoaded
  <2>3. \/ pc[g] = "issue" /\ instance'[g] = instance[g]
        \/ \E e \in Executions, to \in {"issue", "failed"} : Load(g, e, to)
    BY <1>0, <1>2 DEF Next, TypeOK, Dispatch, Load, Arrive, Step, TokenIssue, EditSave,
                      DestroyDelete, TokenForRouter, Expire, DownloadLoad, DownloadBurn,
                      DownloadRender, DownloadRenderFails, Crash
  <2> QED
    BY <2>1, <2>2, <2>3
<1>3. ASSUME NEW t \in Tokens, linked'[t] # Null
      PROVE  AsLoaded(linked[t], snapshot[t])'
  <2>1. CASE linked'[t] = linked[t] /\ snapshot'[t] = snapshot[t]
    <3>1. linked[t] \in Executions /\ AsLoaded(linked[t], snapshot[t])
      BY <1>0, <1>3, <2>1 DEF CopyInv, TypeOK
    <3> QED
      BY <1>1, <2>1, <3>1 DEF AsLoaded, Edited
  <2>2. CASE t \in Generators /\ TokenIssue(t) /\ execution[instance[t].pk] = "stored"
    <3>1. /\ instance[t].pk \in Executions /\ AsLoaded(instance[t].pk, instance[t].content)
          /\ linked'[t] = instance[t].pk /\ snapshot'[t] = instance[t].content
      BY <1>0, <2>2
      DEF TokenIssue, Step, CopyInv, IInv, LoaderControl, Instance, TypeOK, Tokens
    <3> QED
      BY <1>1, <3>1 DEF AsLoaded, Edited
  <2>3. \/ linked'[t] = linked[t] /\ snapshot'[t] = snapshot[t]
        \/ t \in Generators /\ TokenIssue(t) /\ execution[instance[t].pk] = "stored"
    BY <1>0, <1>3 DEF Next, TypeOK, Dispatch, Load, TokenIssue, EditSave, DestroyDelete,
                      TokenForRouter, Expire, DownloadLoad, DownloadBurn, DownloadRender,
                      DownloadRenderFails, Crash, tokens, Tokens
  <2> QED
    BY <2>1, <2>2, <2>3
<1> DEFINE Copied(p) ==
      token_record[p].execution # Null =>
        AsLoaded(token_record[p].execution, snapshot[token_record[p].token])
<1>4. ASSUME NEW p \in Downloaders, token_record'[p] = token_record[p],
             pc[p] \in {"burn", "render"}
      PROVE  Copied(p)'
  <2>1. /\ token_record[p].execution \in Executions \cup {Null}
        /\ token_record[p].token \in issued /\ Copied(p)
    BY <1>4 DEF CopyInv, IInv, DownloadControl, TokenRecord
  <2>2. snapshot'[token_record[p].token] = snapshot[token_record[p].token]
    BY <2>1, SnapshotNext
  <2> QED
    BY <1>1, <1>4, <2>1, <2>2 DEF AsLoaded, Edited
<1>5. ASSUME NEW p \in Downloaders, NEW t \in Tokens, DownloadLoad(p, t)
      PROVE  Copied(p)'
  <2>1. token_record'[p] = [token |-> t, execution |-> linked[t]]
    BY <1>0, <1>5 DEF DownloadLoad, TypeOK
  <2>2. linked'[t] = linked[t] /\ snapshot'[t] = snapshot[t]
    BY <1>5 DEF DownloadLoad, tokens
  <2> QED
    BY <1>3, <2>1, <2>2 DEF AsLoaded, Edited
<1>6. ASSUME NEW p \in Downloaders, pc'[p] \in {"burn", "render"}
      PROVE  Copied(p)'
  <2>1. \/ token_record'[p] = token_record[p] /\ pc[p] \in {"burn", "render"}
        \/ \E t \in Tokens : DownloadLoad(p, t)
    BY <1>0, <1>6 DEF Next, TypeOK, Dispatch, Load, Arrive, Step, TokenIssue, EditSave,
                      DestroyDelete, TokenForRouter, Expire, DownloadLoad, DownloadBurn,
                      DownloadRender, DownloadRenderFails, Crash
  <2> QED
    BY <1>4, <1>5, <2>1
<1> DEFINE Explained(p) ==
      \/ script[p] = snapshot[token_record[p].token]
      \/ Edited(token_record[p].execution, script[p])
<1>7. ASSUME NEW p \in Downloaders, pc'[p] = "served"
      PROVE  Explained(p)'
  <2>1. CASE /\ pc[p] = "served" /\ token_record'[p] = token_record[p]
             /\ script'[p] = script[p]
    <3>1. Explained(p) /\ token_record[p].token \in issued
      BY <2>1 DEF CopyInv, ServedAsIssuedOrEdited, Edited, IInv, DownloadControl
    <3>2. snapshot'[token_record[p].token] = snapshot[token_record[p].token]
      BY <3>1, SnapshotNext
    <3> QED
      BY <2>1, <3>1, <3>2, EditedStays DEF Edited
  <2>2. CASE DownloadRender(p)
    <3>1. Copied(p)'
      BY <1>4, <2>2 DEF DownloadRender, Step
    <3>2. /\ snapshot' = snapshot /\ content' = content /\ token_record' = token_record
          /\ script'[p] = IF token_record[p].execution = Null
                          THEN snapshot[token_record[p].token]
                          ELSE content[token_record[p].execution]
      BY <1>0, <2>2 DEF DownloadRender, TypeOK, tokens
    <3>3. CASE token_record[p].execution = Null
      BY <3>2, <3>3
    <3>4. CASE token_record[p].execution # Null
      <4>1. AsLoaded(token_record[p].execution, snapshot[token_record[p].token])'
        BY <3>1, <3>2, <3>4
      <4>2. script'[p] = content'[token_record'[p].execution]
        BY <3>2, <3>4
      <4> QED
        BY <4>1, <4>2 DEF AsLoaded, Edited
    <3> QED
      BY <3>3, <3>4
  <2>3. \/ /\ pc[p] = "served" /\ token_record'[p] = token_record[p]
           /\ script'[p] = script[p]
        \/ DownloadRender(p)
    BY <1>0, <1>7 DEF Next, TypeOK, Dispatch, Load, Arrive, Step, TokenIssue, EditSave,
                      DestroyDelete, TokenForRouter, Expire, DownloadLoad, DownloadBurn,
                      DownloadRender, DownloadRenderFails, Crash, IsValid
  <2> QED
    BY <2>1, <2>2, <2>3
<1> QED
  BY <1>2, <1>3, <1>6, <1>7, SnapshotNext
  DEF CopyInv, ServedAsIssuedOrEdited, AsLoaded, Edited

\* What download_script serves is the token's own copy of what the execution
\* rendered to, or what an edit of that execution wrote.
THEOREM ServedFaithfully == Spec => []ServedAsIssuedOrEdited
<1>1. Init => CopyInv
  BY RequestsAssumption
  DEF Init, CopyInv, ServedAsIssuedOrEdited, Requests, Loaders, Tokens
<1>2. IInv /\ CopyInv /\ [Next]_vars => CopyInv'
  <2> SUFFICES ASSUME IInv, CopyInv, UNCHANGED vars PROVE CopyInv'
    BY CopyNext
  <2> QED
    BY DEF CopyInv, ServedAsIssuedOrEdited, AsLoaded, Edited, vars, tokens
<1>3. CopyInv => ServedAsIssuedOrEdited
  BY DEF CopyInv
<1> QED
  BY <1>1, <1>2, <1>3, Invariance, PTL DEF Spec
=============================================================================

------------------------- MODULE MCRouterLifecycle --------------------------
(***************************************************************************)
(* Instances of RouterLifecycle for TLC: the bodies updates may submit.    *)
(***************************************************************************)
EXTENDS RouterLifecycle, TLC

CONSTANTS custom   \* an api_username chosen by an owner

Body(port, username, is_active) ==
  [port |-> port, username |-> username, is_active |-> is_active]

\* Edits of name, host or description, and of is_active.
PlainPatches == {Body(Null, Null, a) : a \in {Null, FALSE, TRUE}}

\* Edits of the router's identity: a falsy port, one below PortBase, one that
\* is also an identifier; a name that is an identifier, or a free one.
IdentityPatches ==
  {Body(p, Null, Null) : p \in {0, PortBase - 1, MinId + 1}}
    \cup {Body(Null, n, Null) : n \in {MinId + 1, custom}}
    \cup {Body(PortBase - 1, custom, Null)}

\* Edits that leave is_active alone.
SilentPatches == {Body(Null, Null, Null)}

CustomName == {custom}
=============================================================================

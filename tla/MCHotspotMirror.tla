--------------------------- MODULE MCHotspotMirror --------------------------
(***************************************************************************)
(* Instances of HotspotMirror for TLC: two profiles there before, on two   *)
(* routers, the first linked, and bodies of requests.                      *)
(***************************************************************************)
EXTENDS HotspotMirror

CONSTANTS ra, rb, m1, n1, n2, s1, s2

SomeSeedRows ==
  [s \in {s1, s2} |->
     IF s = s1
     THEN [router |-> ra, mk_id |-> m1, name |-> n1, rate |-> Blank, timeout |-> Blank]
     ELSE [router |-> rb, mk_id |-> Null, name |-> n2, rate |-> Blank, timeout |-> Blank]]

Submitted(router_, name, rate, timeout) ==
  [router |-> router_, name |-> name, rate |-> rate, timeout |-> timeout]

\* Another router, another name, new limits, limits taken away, a profile complete.
SomeBodies ==
  {Submitted(rb, Null, Null, Null), Submitted(Null, n2, Null, Null),
   Submitted(Null, Null, Blank, Null)}
    \cup {Submitted(Null, Null, x, t) : x \in Rates, t \in Timeouts}
    \cup {Submitted(rb, n1, x, Null) : x \in Rates}
=============================================================================

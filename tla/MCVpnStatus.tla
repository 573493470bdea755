----------------------------- MODULE MCVpnStatus ----------------------------
(***************************************************************************)
(* Instances of VpnStatus for TLC: symmetry.                               *)
(***************************************************************************)
EXTENDS VpnStatus, TLC

StatusSymmetry ==
  Permutations(Routers) \cup Permutations(Sessions) \cup Permutations(Readers)
=============================================================================

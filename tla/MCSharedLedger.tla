--------------------------- MODULE MCSharedLedger ---------------------------
(***************************************************************************)
(* A small instance of SharedLedger for TLC: a stager, a peak probe and a  *)
(* reconcile, started four times between them.                             *)
(***************************************************************************)
EXTENDS SharedLedger

CONSTANTS stager, probe

MCOwner == {stager, probe}

Symmetry == Permutations(Pod) \cup Permutations(Owner)
=============================================================================

----------------------------- MODULE MCSafeList -----------------------------
(* SafeList for TLC. *)
EXTENDS SafeList, TLC

Symmetry == Permutations(Entries)
=============================================================================

----------------------------- MODULE MCContact ------------------------------
(***************************************************************************)
(* Small instances of Contact for TLC.                                     *)
(***************************************************************************)
EXTENDS Contact, TLC

Symmetry == Permutations(Values) \cup Permutations(Requests)
=============================================================================

------------------------------ MODULE MCTrust -------------------------------
(***************************************************************************)
(* Small instances of Trust for TLC.                                       *)
(***************************************************************************)
EXTENDS Trust, TLC
=============================================================================

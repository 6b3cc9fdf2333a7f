----------------------------- MODULE MCSession -----------------------------
(***************************************************************************)
(* Small instances of Session for TLC.                                     *)
(***************************************************************************)
EXTENDS Session, TLC

Symmetry ==
    Permutations(Requests) \cup Permutations(Notices)
        \cup Permutations(Prepared) \cup Permutations(Bookings \ Prepared)
=============================================================================

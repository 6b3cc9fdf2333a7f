----------------------------- MODULE MCPayment -----------------------------
(***************************************************************************)
(* Small instances of Payment for TLC.                                     *)
(***************************************************************************)
EXTENDS Payment, TLC

Symmetry ==
    Permutations(Bookings) \cup Permutations(Requests) \cup Permutations(Keys)
        \cup Permutations(Attempts) \cup Permutations(Refunds)
=============================================================================

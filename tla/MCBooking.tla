----------------------------- MODULE MCBooking -----------------------------
(***************************************************************************)
(* Small instances of Booking for TLC.                                     *)
(***************************************************************************)
EXTENDS Booking, TLC

CONSTANTS i1, s1, s2

\* One slot that starts at time 2.
OneSlotOwner == s1 :> i1
OneSlotStart == s1 :> 2
OneSlotEnd   == s1 :> 3

\* Two slots of one interviewer that overlap.
TwoSlotsOwner == s1 :> i1 @@ s2 :> i1
TwoSlotsStart == s1 :> 2 @@ s2 :> 3
TwoSlotsEnd   == s1 :> 4 @@ s2 :> 5

Symmetry == Permutations(Candidates) \cup Permutations(Tokens)
                \cup Permutations(Bookings) \cup Permutations(Keys)
=============================================================================

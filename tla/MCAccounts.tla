----------------------------- MODULE MCAccounts -----------------------------
(***************************************************************************)
(* Small instances of Accounts for TLC: one interviewer whose two events  *)
(* are a suspension and a later approval.                                  *)
(***************************************************************************)
EXTENDS Accounts, TLC

CONSTANTS u1, e1, e2

EventUser   == [e \in Events |-> u1]
EventTarget == e1 :> "blocked" @@ e2 :> "active"
EventAt     == e1 :> 1 @@ e2 :> 2

\* announced and closed only accumulate: no guard, no other variable and no property of the
\* run depends on them, so states that differ in them alone count as one.
View == <<account, challenge, token, revokedAccess, request, acked, byAdmin, stray>>

Symmetry == Permutations(Tokens) \cup Permutations(Challenges) \cup Permutations(Requests)
=============================================================================

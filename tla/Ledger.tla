------------------------------- MODULE Ledger -------------------------------
(***************************************************************************)
(* What payment-service promises about the money of a booking: it is taken *)
(* once or not at all, never after the payment was given up, and what is   *)
(* paid back never exceeds what was taken.                                 *)
(***************************************************************************)
EXTENDS Integers

CONSTANTS Bookings, Price

VARIABLE account    \* Bookings -> [state, back]: back is what was paid back

Init == account = [b \in Bookings |-> [state |-> "open", back |-> 0]]

GiveUp(b) ==
    /\ account[b].state = "open"
    /\ account' = [account EXCEPT ![b].state = "failed"]

Capture(b) ==
    /\ account[b].state = "open"
    /\ account' = [account EXCEPT ![b].state = "captured"]

PayBack(b, amount) ==
    /\ account[b].state = "captured"
    /\ account[b].back + amount <= Price
    /\ account' = [account EXCEPT ![b].back = @ + amount]

Next ==
    \E b \in Bookings :
        \/ GiveUp(b)
        \/ Capture(b)
        \/ \E amount \in 1..Price : PayBack(b, amount)

Spec == Init /\ [][Next]_account

=============================================================================

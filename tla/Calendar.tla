------------------------------ MODULE Calendar ------------------------------
(***************************************************************************)
(* What booking-service promises about time: an appointment takes a slot   *)
(* for a candidate once, when neither the candidate nor the interviewer is *)
(* busy in that time, and gives it back once, for good.                    *)
(***************************************************************************)
EXTENDS Integers

CONSTANTS Candidates, Slots, Bookings, SlotOwner, StartsAt, EndsAt, None

VARIABLE entry   \* Bookings -> the appointment: its state, candidate and slot

States == {"free", "active", "ended"}

Entry == [state : States, candidate : Candidates \cup {None}, slot : Slots \cup {None}]

Init == entry = [b \in Bookings |-> [state |-> "free", candidate |-> None, slot |-> None]]

Clash(c, s, e) ==
    /\ e.state = "active"
    /\ e.candidate = c \/ SlotOwner[e.slot] = SlotOwner[s]
    /\ StartsAt[e.slot] < EndsAt[s]
    /\ StartsAt[s] < EndsAt[e.slot]

Take(b, c, s) ==
    /\ entry[b].state = "free"
    /\ \A o \in Bookings : ~Clash(c, s, entry[o])
    /\ entry' = [entry EXCEPT ![b] = [state |-> "active", candidate |-> c, slot |-> s]]

GiveBack(b) ==
    /\ entry[b].state = "active"
    /\ entry' = [entry EXCEPT ![b].state = "ended"]

Next ==
    \E b \in Bookings :
        \/ \E c \in Candidates, s \in Slots : Take(b, c, s)
        \/ GiveBack(b)

Spec == Init /\ [][Next]_entry

=============================================================================

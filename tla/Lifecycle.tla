----------------------------- MODULE Lifecycle ------------------------------
(***************************************************************************)
(* What interviewer-service promises the services that follow its events:  *)
(* one interviewer's standing and the lifecycle events that announce it.   *)
(*                                                                         *)
(* A change of standing runs in one transaction that locks the profile,    *)
(* stamps its event and commits both.  Everything else the service does to *)
(* an interviewer leaves the standing alone.                               *)
(***************************************************************************)
EXTENDS Integers

CONSTANT MaxEvents      \* bound: the stamps the service gives

ASSUME LifecycleAssumption == MaxEvents \in Nat

VARIABLES
    standing,   \* what interviewer_profiles says of the interviewer
    txn,        \* the transaction that holds the profile
    clock,      \* the stamps given so far: occurred_at
    events      \* the committed lifecycle rows of outbox_events

vars == <<standing, txn, clock, events>>

Kind == {"approved", "rejected", "suspended", "deleted"}

Standing == {"unverified", "verified", "deleted"}

Event == [kind : Kind, at : 1 .. MaxEvents]

\* at is 0 until the event is stamped.
Txn == [kind : Kind \cup {"none"}, at : 0 .. MaxEvents]

NoTxn == [kind |-> "none", at |-> 0]

TypeOK ==
    /\ standing \in Standing
    /\ txn \in Txn
    /\ clock \in 0 .. MaxEvents
    /\ events \subseteq Event

Init ==
    /\ standing = "unverified"
    /\ txn = NoTxn
    /\ clock = 0
    /\ events = {}

-----------------------------------------------------------------------------

\* The standings a change may start from.
From(kind) ==
    IF kind = "suspended" THEN {"verified"}
    ELSE IF kind = "deleted" THEN {"unverified", "verified"}
    ELSE {"unverified"}

\* What the standing becomes.
Becomes(kind) ==
    IF kind = "approved" THEN "verified"
    ELSE IF kind = "deleted" THEN "deleted"
    ELSE "unverified"

\* _locked_profile, and the conditions of the change.
Lock(kind) ==
    /\ txn = NoTxn
    /\ standing \in From(kind)
    /\ txn' = [kind |-> kind, at |-> 0]
    /\ UNCHANGED <<standing, clock, events>>

\* The event row gets its occurred_at when it is flushed.
Stamp ==
    /\ txn.kind # "none"
    /\ txn.at = 0
    /\ clock < MaxEvents
    /\ clock' = clock + 1
    /\ txn' = [txn EXCEPT !.at = clock + 1]
    /\ UNCHANGED <<standing, events>>

Commit ==
    /\ txn.at # 0
    /\ standing' = Becomes(txn.kind)
    /\ events' = events \cup {txn}
    /\ txn' = NoTxn
    /\ UNCHANGED clock

Abort ==
    /\ txn.kind # "none"
    /\ txn' = NoTxn
    /\ UNCHANGED <<standing, clock, events>>

Next == (\E kind \in Kind : Lock(kind)) \/ Stamp \/ Commit \/ Abort

Spec == Init /\ [][Next]_vars

-----------------------------------------------------------------------------
(* Properties.                                                             *)

\* The latest event, by its stamp, says what the standing is; without one the
\* interviewer was never verified.  Whoever orders the events by occurred_at ends
\* with the standing of the profile.
LatestTellsTheStanding ==
    /\ events = {} => standing = "unverified"
    /\ \A e \in events : (\A o \in events : o.at <= e.at) => standing = Becomes(e.kind)

\* No two changes carry one stamp, and the next will carry a later one.
StampsGrow ==
    /\ \A e, o \in events : e.at = o.at => e = o
    /\ \A e \in events : e.at <= clock /\ (txn.at # 0 => e.at < txn.at)
=============================================================================

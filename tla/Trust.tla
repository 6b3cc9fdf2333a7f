------------------------------- MODULE Trust --------------------------------
(***************************************************************************)
(* booking-service's copy of one interviewer's standing, composed with     *)
(* interviewer-service (module Lifecycle, which Verification implements).  *)
(*                                                                         *)
(* booking-service learns the standing in two ways: lifecycle events,      *)
(* which arrive late, twice, out of order or never, and snapshots that its *)
(* maintenance worker pulls.  The write with the later timestamp wins.     *)
(* Candidates hold and book while the copy says "verified", and a deletion *)
(* asks booking-service for active bookings first.                         *)
(*                                                                         *)
(* Time.  An event stamped e has the time 2e; a snapshot observed after    *)
(* that stamp and before the next one has the time 2e + 1.                 *)
(***************************************************************************)
EXTENDS Lifecycle

CONSTANT Bookings   \* the bookings candidates try to make with the interviewer

VARIABLES
    elig,       \* table interviewer_eligibility, and whether its writer was overtaken
    processed,  \* table processed_events
    sync,       \* the snapshot that the maintenance worker has in hand
    booking,    \* holds and bookings
    late        \* history: bookings committed after a deletion had counted

projection == <<elig, processed, sync>>

trustVars == <<vars, elig, processed, sync, booking, late>>

-----------------------------------------------------------------------------

Time == 0 .. 2 * MaxEvents + 1

Snapshot == [pc : {"idle", "observed", "read"}, when : Time,
             standing : Standing, stale : BOOLEAN]

NoSnapshot == [pc |-> "idle", when |-> 0, standing |-> "unverified", stale |-> FALSE]

TrustTypeOK ==
    /\ TypeOK
    /\ elig \in [state : Standing \cup {"unknown"}, at : Time, stale : BOOLEAN]
    /\ processed \subseteq events
    /\ sync \in Snapshot
    /\ booking \in [Bookings -> {"none", "held", "asked", "active", "over"}]
    /\ late \subseteq Bookings

TrustInit ==
    /\ Init
    /\ elig = [state |-> "unknown", at |-> 0, stale |-> FALSE]
    /\ processed = {}
    /\ sync = NoSnapshot
    /\ booking = [b \in Bookings |-> "none"]
    /\ late = {}

-----------------------------------------------------------------------------
(* interviewer-service.                                                    *)

Active == {b \in Bookings : booking[b] = "active"}

\* Mutant: the bookings are not counted.
MayDeleteAnyway == TRUE

\* active_interviewer_bookings, asked with the profile locked.
MayDelete == Active = {}

\* Nothing but a deletion looks at booking-service.
InterviewerStep ==
    /\ \/ \E kind \in Kind \ {"deleted"} : Lock(kind)
       \/ Lock("deleted") /\ MayDelete
       \/ Stamp \/ Commit \/ Abort
    /\ UNCHANGED <<projection, booking, late>>

-----------------------------------------------------------------------------
(* set_interviewer_eligibility                                             *)

\* The upsert: an unknown interviewer is inserted, a deleted one stays.
Writes(when) == elig.state = "unknown" \/ (elig.at < when /\ elig.state # "deleted")

\* Mutant: the last message that arrives wins.
DeliverLast(e) ==
    /\ e \in events \ processed
    /\ elig' = IF elig.state = "deleted" THEN elig
               ELSE [state |-> Becomes(e.kind), at |-> 2 * e.at, stale |-> FALSE]
    /\ processed' = processed \cup {e}
    /\ UNCHANGED <<vars, sync, booking, late>>

\* The consumer handles an event; a second delivery finds it processed.
Deliver(e) ==
    /\ e \in events \ processed
    /\ elig' = IF Writes(2 * e.at)
               THEN [state |-> Becomes(e.kind), at |-> 2 * e.at, stale |-> FALSE] ELSE elig
    /\ processed' = processed \cup {e}
    /\ UNCHANGED <<vars, sync, booking, late>>

-----------------------------------------------------------------------------
(* synchronize, and the snapshot it pulls.                                  *)

\* availability_snapshot: the time is taken first ...
SyncObserve ==
    /\ sync.pc = "idle"
    /\ sync' = [NoSnapshot EXCEPT !.pc = "observed", !.when = 2 * clock + 1]
    /\ UNCHANGED <<vars, elig, processed, booking, late>>

\* ... and then the committed row is read: it is stale if the change of an earlier stamp
\* has not been committed yet.
SyncRead ==
    /\ sync.pc = "observed"
    /\ sync' = [sync EXCEPT !.pc = "read", !.standing = standing,
                            !.stale = txn.at # 0 /\ 2 * txn.at < sync.when]
    /\ UNCHANGED <<vars, elig, processed, booking, late>>

\* Mutant: a snapshot only inserts.
SyncInsert ==
    /\ sync.pc = "read"
    /\ elig' = IF elig.state = "unknown"
               THEN [state |-> sync.standing, at |-> sync.when, stale |-> sync.stale]
               ELSE elig
    /\ sync' = NoSnapshot
    /\ UNCHANGED <<vars, processed, booking, late>>

\* The snapshot is written like an event.  The worker is alone, so a snapshot is later
\* than the ones before, also those with the same stamp behind them.
SyncWrite ==
    /\ sync.pc = "read"
    /\ elig' = IF Writes(sync.when + 1)
               THEN [state |-> sync.standing, at |-> sync.when, stale |-> sync.stale]
               ELSE elig
    /\ sync' = NoSnapshot
    /\ UNCHANGED <<vars, processed, booking, late>>

\* A service does not answer, or the worker dies: it starts over.
SyncFail ==
    /\ sync.pc # "idle"
    /\ sync' = NoSnapshot
    /\ UNCHANGED <<vars, elig, processed, booking, late>>

-----------------------------------------------------------------------------
(* Candidates.                                                             *)

Hold(b) ==
    /\ booking[b] = "none"
    /\ elig.state = "verified"
    /\ booking' = [booking EXCEPT ![b] = "held"]
    /\ UNCHANGED <<vars, projection, late>>

\* create_booking reads the copy without a lock ...
CreateRead(b) ==
    /\ booking[b] = "held"
    /\ elig.state = "verified"
    /\ booking' = [booking EXCEPT ![b] = "asked"]
    /\ UNCHANGED <<vars, projection, late>>

\* ... and commits.
CreateCommit(b) ==
    /\ booking[b] = "asked"
    /\ booking' = [booking EXCEPT ![b] = "active"]
    /\ late' = IF txn.kind = "deleted" \/ standing = "deleted" THEN late \cup {b} ELSE late
    /\ UNCHANGED <<vars, projection>>

\* A hold expires, a create fails, or a booking ends.
End(b) ==
    /\ booking[b] \in {"held", "asked", "active"}
    /\ booking' = [booking EXCEPT ![b] = IF @ = "active" THEN "over" ELSE "none"]
    /\ UNCHANGED <<vars, projection, late>>

-----------------------------------------------------------------------------

TrustNext ==
    \/ InterviewerStep
    \/ \E e \in events : Deliver(e)
    \/ SyncObserve \/ SyncRead \/ SyncWrite \/ SyncFail
    \/ \E b \in Bookings : Hold(b) \/ CreateRead(b) \/ CreateCommit(b) \/ End(b)

TrustSpec == TrustInit /\ [][TrustNext]_trustVars

\* Fairness.  The worker loops for ever, and the services answer it again and again.
\* Nothing is assumed of events, which may be lost, nor of administrators.
TrustFairSpec ==
    TrustSpec /\ WF_trustVars(SyncObserve) /\ SF_trustVars(SyncRead) /\ SF_trustVars(SyncWrite)

-----------------------------------------------------------------------------
(* Properties.                                                             *)

\* What booking-service believes differs from the standing only while a later event is
\* still under way, or after a snapshot that was read between the stamp of a change and
\* its commit: the change's own event is older than that snapshot and does not count.
\* It never takes an interviewer for deleted who is not.
KnownUnlessPending ==
    /\ elig.state \notin {"unknown", standing} =>
          \/ elig.stale
          \/ \E e \in events \ processed : elig.at < 2 * e.at
    /\ elig.state = "deleted" => standing = "deleted"

\* A deleted interviewer has no booking but those that were committed after the deletion
\* had counted them: by a request that was running, or one that booking-service accepted
\* before it heard of the deletion.
DeletedHasNoBookings == standing = "deleted" => Active \subseteq late

\* However events and snapshots cross, booking-service ends with the standing at which the
\* interviewer stays, also when no event ever arrives.
Converges ==
    \A s \in Standing : <>[](standing = s) => <>[](elig.state = s)
=============================================================================

------------------------------ MODULE Booking ------------------------------
(***************************************************************************)
(* booking-service: slots, Redis holds and bookings.                       *)
(*                                                                         *)
(* A candidate holds a slot (a Redis key with a TTL, then the slot row),   *)
(* turns the hold into a booking, and the booking moves through the        *)
(* lifecycle of module BookingStatus under payment events, cancellations   *)
(* and admin transitions.  A maintenance worker expires holds and          *)
(* synchronises slots with the interviewers' availability.                 *)
(*                                                                         *)
(* Concurrency.  Every request runs in its own session at READ COMMITTED.  *)
(* A request's steps are separate actions wherever another session can act *)
(* in between: around each Redis call, and between reading a row without a *)
(* lock and committing.  A request that has locked a slot row              *)
(* (SELECT ... FOR UPDATE) keeps every other writer of the row waiting.    *)
(***************************************************************************)
EXTENDS Integers, Sequences, BookingStatus

CONSTANTS
    Candidates, Interviewers, Slots,
    Tokens,         \* hold requests, each named by the random token it draws
    Bookings,       \* create requests, each named by the uuid it would insert
    Cancels,        \* cancellation requests of candidates
    Keys,           \* Idempotency-Key header values
    SlotOwner,      \* Slots -> Interviewers: slots.interviewer_id
    StartsAt, EndsAt,   \* Slots -> Nat: slots.starts_at, slots.ends_at
    HoldTtl,        \* hold_ttl_seconds
    MaxTime,        \* bound of the clock
    AdminTargets,   \* bound: the statuses the admin transition endpoint is called with
    PaymentInputs,  \* bound: the types of payment events that arrive
    EligibilityInputs,  \* bound: the eligibility values that arrive
    None

ASSUME BookingAssumption ==
    /\ SlotOwner \in [Slots -> Interviewers]
    /\ StartsAt \in [Slots -> Nat]
    /\ EndsAt \in [Slots -> Nat]
    /\ \A s \in Slots : StartsAt[s] < EndsAt[s]
    /\ HoldTtl \in Nat \ {0}
    /\ MaxTime \in Nat
    /\ AdminTargets \subseteq BookingStatus
    /\ PaymentInputs \subseteq {"captured", "failed", "refunded"}
    /\ EligibilityInputs \subseteq {"verified", "unverified", "deleted"}
    /\ None \notin Candidates \cup Slots \cup Tokens \cup Bookings \cup Keys

VARIABLES
    now,        \* the clock every process and Redis read
    slot,       \* table slots
    booking,    \* table bookings
    outbox,     \* per booking, the types of its rows in outbox_events, oldest first
    elig,       \* table interviewer_eligibility
    lock,       \* Redis: the key booking-service:slot-hold:<slot>
    hold,       \* the requests running BookingService.hold, by token
    create,     \* the requests running create_booking, by the booking's id
    cancel,     \* the requests running cancel_by_candidate
    clobbered,  \* history: slots given back by a cancellation of an ended booking
    redisLost   \* history: Redis has lost its keys at least once

vars == <<now, slot, booking, outbox, elig, lock, hold, create, cancel,
          clobbered, redisLost>>

-----------------------------------------------------------------------------
(* Rows and requests.                                                      *)

SlotStatus == {"absent", "AVAILABLE", "HELD", "BOOKED", "BLOCKED"}

SlotRow == [status : SlotStatus, heldBy : Candidates \cup {None},
            token : Tokens \cup {None}, expires : Nat]

BookingRow == [status : BookingStatus \cup {"absent"}, slot : Slots \cup {None},
               candidate : Candidates \cup {None}, key : Keys \cup {None}]

EventType == {"created", "confirmed", "cancelled", "rescheduled"}

Eligibility == {"unknown", "verified", "unverified", "deleted"}

LockRow == [token : Tokens \cup {None}, expires : Nat]

HoldRequest == [pc : {"idle", "acquired", "locked", "refused", "granted", "done"},
                slot : Slots \cup {None}, candidate : Candidates \cup {None},
                seen : Eligibility, at : Nat]

CreateRequest == [pc : {"idle", "looked", "matched", "locked", "committed",
                        "rejected", "done"},
                  token : Tokens \cup {None}, key : Keys \cup {None},
                  seen : Eligibility, at : Nat]

CancelRequest == [pc : {"idle", "read", "done"}, booking : Bookings \cup {None},
                  seen : BookingStatus \cup {"absent"}]

TypeOK ==
    /\ now \in Nat
    /\ slot \in [Slots -> SlotRow]
    /\ booking \in [Bookings -> BookingRow]
    /\ outbox \in [Bookings -> Seq(EventType)]
    /\ elig \in [Interviewers -> Eligibility]
    /\ lock \in [Slots -> LockRow]
    /\ hold \in [Tokens -> HoldRequest]
    /\ create \in [Bookings -> CreateRequest]
    /\ cancel \in [Cancels -> CancelRequest]
    /\ clobbered \subseteq Slots
    /\ redisLost \in BOOLEAN

FreeSlot(status) == [status |-> status, heldBy |-> None, token |-> None, expires |-> 0]

NoLock == [token |-> None, expires |-> 0]

Init ==
    /\ now = 0
    /\ slot = [s \in Slots |-> FreeSlot("absent")]
    /\ booking = [b \in Bookings |-> [status |-> "absent", slot |-> None,
                                      candidate |-> None, key |-> None]]
    /\ outbox = [b \in Bookings |-> <<>>]
    /\ elig = [i \in Interviewers |-> "unknown"]
    /\ lock = [s \in Slots |-> NoLock]
    /\ hold = [t \in Tokens |-> [pc |-> "idle", slot |-> None, candidate |-> None,
                                 seen |-> "unknown", at |-> 0]]
    /\ create = [b \in Bookings |-> [pc |-> "idle", token |-> None, key |-> None,
                                     seen |-> "unknown", at |-> 0]]
    /\ cancel = [k \in Cancels |-> [pc |-> "idle", booking |-> None, seen |-> "absent"]]
    /\ clobbered = {}
    /\ redisLost = FALSE

-----------------------------------------------------------------------------
(* Helpers.                                                                *)

Exists(b) == booking[b].status # "absent"

Occupying(b) == Exists(b) /\ OccupiesTime(booking[b].status)

Overlap(s1, s2) == StartsAt[s1] < EndsAt[s2] /\ StartsAt[s2] < EndsAt[s1]

LiveHold(s) == slot[s].status = "HELD" /\ slot[s].expires > now

\* The slot a create request names: the one its hold token was granted for.
CreateSlot(b) == hold[create[b].token].slot

CreateCandidate(b) == hold[create[b].token].candidate

\* A session holds the row lock of slot s.
RowLocked(s) ==
    \/ \E t \in Tokens : hold[t].pc = "locked" /\ hold[t].slot = s
    \/ \E b \in Bookings : create[b].pc = "locked" /\ CreateSlot(b) = s

\* Mutant: the key is deleted whoever holds it.
ReleaseAny(s, t) == lock' = [lock EXCEPT ![s] = NoLock]

\* RedisHoldStore.release: delete the key only if it still carries the token.
Release(s, t) ==
    lock' = IF lock[s].token = t THEN [lock EXCEPT ![s] = NoLock] ELSE lock

-----------------------------------------------------------------------------
(* BookingService.hold                                                     *)

\* SET key token NX EX ttl.  When the key exists the request ends with 409 and
\* has changed nothing.
HoldAcquire(t, s, c) ==
    /\ hold[t].pc = "idle"
    /\ lock[s] = NoLock
    /\ lock' = [lock EXCEPT ![s] = [token |-> t, expires |-> now + HoldTtl]]
    /\ hold' = [hold EXCEPT ![t] = [pc |-> "acquired", slot |-> s, candidate |-> c,
                                    seen |-> "unknown", at |-> 0]]
    /\ UNCHANGED <<now, slot, booking, outbox, elig, create, cancel, clobbered, redisLost>>

\* Lock the slot row, read the eligibility row (not locked) and the clock.
HoldLock(t) ==
    /\ hold[t].pc = "acquired"
    /\ ~RowLocked(hold[t].slot)
    /\ hold' = [hold EXCEPT ![t] =
                [pc |-> "locked", slot |-> hold[t].slot, candidate |-> hold[t].candidate,
                 seen |-> elig[SlotOwner[hold[t].slot]], at |-> now]]
    /\ UNCHANGED <<now, slot, booking, outbox, elig, lock, create, cancel,
                   clobbered, redisLost>>

\* Mutant: a held slot passes for free, its expiry is not looked at.
HoldableIgnoringExpiry(r) ==
    /\ StartsAt[r.slot] > r.at
    /\ r.seen = "verified"
    /\ slot[r.slot].status \in {"AVAILABLE", "HELD"}

\* What hold() demands of the slot row, the eligibility it read and its clock.
Holdable(r) ==
    /\ StartsAt[r.slot] > r.at
    /\ r.seen = "verified"
    /\ \/ slot[r.slot].status = "AVAILABLE"
       \/ slot[r.slot].status = "HELD" /\ slot[r.slot].expires <= r.at

\* The slot row of a granted hold.
HeldRow(t) ==
    [status |-> "HELD", heldBy |-> hold[t].candidate, token |-> t,
     expires |-> hold[t].at + HoldTtl]

HoldGrant(t) ==
    /\ hold[t].pc = "locked"
    /\ Holdable(hold[t])
    /\ slot' = [slot EXCEPT ![hold[t].slot] = HeldRow(t)]
    /\ hold' = [hold EXCEPT ![t].pc = "granted"]
    /\ UNCHANGED <<now, booking, outbox, elig, lock, create, cancel, clobbered, redisLost>>

\* The row refuses the hold: roll back ...
HoldRefuse(t) ==
    /\ hold[t].pc = "locked"
    /\ ~Holdable(hold[t])
    /\ hold' = [hold EXCEPT ![t].pc = "refused"]
    /\ UNCHANGED <<now, slot, booking, outbox, elig, lock, create, cancel,
                   clobbered, redisLost>>

\* The database fails a statement or the commit: roll back ...  When only the answer
\* to the commit is lost the row is on disk, and the request does not know.
HoldFail(t) ==
    /\ hold[t].pc \in {"acquired", "locked"}
    /\ \/ UNCHANGED slot
       \/ /\ hold[t].pc = "locked"
          /\ Holdable(hold[t])
          /\ slot' = [slot EXCEPT ![hold[t].slot] = HeldRow(t)]
    /\ hold' = [hold EXCEPT ![t].pc = "refused"]
    /\ UNCHANGED <<now, booking, outbox, elig, lock, create, cancel, clobbered, redisLost>>

\* ... and give the Redis key back, whatever became of the row.
HoldRelease(t) ==
    /\ hold[t].pc = "refused"
    /\ Release(hold[t].slot, t)
    /\ hold' = [hold EXCEPT ![t].pc = "done"]
    /\ UNCHANGED <<now, slot, booking, outbox, elig, create, cancel, clobbered, redisLost>>

\* The process dies: PostgreSQL drops its transaction, Redis keeps its key.
HoldCrash(t) ==
    /\ hold[t].pc \in {"acquired", "locked", "refused"}
    /\ hold' = [hold EXCEPT ![t].pc = "done"]
    /\ UNCHANGED <<now, slot, booking, outbox, elig, lock, create, cancel,
                   clobbered, redisLost>>

-----------------------------------------------------------------------------
(* BookingService.create_booking                                           *)

\* A booking of candidate c under idempotency key k is on disk.
Recorded(c, k) == \E b \in Bookings :
    Exists(b) /\ booking[b].candidate = c /\ booking[b].key = k

\* The idempotency lookup found nothing (otherwise the existing booking is
\* returned and nothing changes).  The candidate has the token of a granted hold.
CreateLookup(b, t, k) ==
    /\ create[b].pc = "idle"
    /\ hold[t].pc = "granted"
    /\ ~Recorded(hold[t].candidate, k)
    /\ create' = [create EXCEPT ![b] = [pc |-> "looked", token |-> t, key |-> k,
                                          seen |-> "unknown", at |-> 0]]
    /\ UNCHANGED <<now, slot, booking, outbox, elig, lock, hold, cancel,
                   clobbered, redisLost>>

\* RedisHoldStore.matches.
CreateMatch(b) ==
    /\ create[b].pc = "looked"
    /\ create' = [create EXCEPT ![b].pc =
                    IF lock[CreateSlot(b)].token = create[b].token
                    THEN "matched" ELSE "rejected"]
    /\ UNCHANGED <<now, slot, booking, outbox, elig, lock, hold, cancel,
                   clobbered, redisLost>>

CreateLock(b) ==
    /\ create[b].pc = "matched"
    /\ ~RowLocked(CreateSlot(b))
    /\ create' = [create EXCEPT ![b] =
                [pc |-> "locked", token |-> create[b].token, key |-> create[b].key,
                 seen |-> elig[SlotOwner[CreateSlot(b)]], at |-> now]]
    /\ UNCHANGED <<now, slot, booking, outbox, elig, lock, hold, cancel,
                   clobbered, redisLost>>

\* What create_booking demands of the locked slot row.
HoldMatches(b) ==
    LET row == slot[CreateSlot(b)]
    IN /\ StartsAt[CreateSlot(b)] > create[b].at
       /\ create[b].seen = "verified"
       /\ row.status = "HELD"
       /\ row.heldBy = CreateCandidate(b)
       /\ row.token = create[b].token
       /\ row.expires > create[b].at

\* Mutants: a constraint is missing.
RefusedWithoutKey(b) ==
    \E o \in Bookings :
        /\ Occupying(o)
        /\ \/ booking[o].candidate = CreateCandidate(b)
           \/ SlotOwner[booking[o].slot] = SlotOwner[CreateSlot(b)]
        /\ Overlap(booking[o].slot, CreateSlot(b))

RefusedWithoutInterviewer(b) ==
    \/ \E o \in Bookings :
          /\ Occupying(o)
          /\ booking[o].candidate = CreateCandidate(b)
          /\ Overlap(booking[o].slot, CreateSlot(b))
    \/ Recorded(CreateCandidate(b), create[b].key)

\* The constraints of table bookings refuse the row: the two exclusion constraints
\* on occupied time and uq_booking_idempotency.  (uq_booking_active_slot is the
\* interviewer's exclusion constraint on one slot.)
Refused(b) ==
    \/ \E o \in Bookings :
          /\ Occupying(o)
          /\ \/ booking[o].candidate = CreateCandidate(b)
             \/ SlotOwner[booking[o].slot] = SlotOwner[CreateSlot(b)]
          /\ Overlap(booking[o].slot, CreateSlot(b))
    \/ Recorded(CreateCandidate(b), create[b].key)

\* Insert the booking, its history and its event and mark the slot; one commit.
CreateCommit(b) ==
    /\ create[b].pc = "locked"
    /\ HoldMatches(b)
    /\ ~Refused(b)
    /\ booking' = [booking EXCEPT ![b] =
                    [status |-> "PAYMENT_PENDING", slot |-> CreateSlot(b),
                     candidate |-> CreateCandidate(b), key |-> create[b].key]]
    /\ slot' = [slot EXCEPT ![CreateSlot(b)] =
                    [status |-> "BOOKED", heldBy |-> @.heldBy, token |-> None,
                     expires |-> 0]]
    /\ outbox' = [outbox EXCEPT ![b] = Append(@, "created")]
    /\ create' = [create EXCEPT ![b].pc = "committed"]
    /\ UNCHANGED <<now, elig, lock, hold, cancel, clobbered, redisLost>>

\* The locked row does not carry the hold: 409.
CreateMismatch(b) ==
    /\ create[b].pc = "locked"
    /\ ~HoldMatches(b)
    /\ create' = [create EXCEPT ![b].pc = "rejected"]
    /\ UNCHANGED <<now, slot, booking, outbox, elig, lock, hold, cancel,
                   clobbered, redisLost>>

\* IntegrityError: roll back, then look the key up again: the existing booking is
\* returned, or 409.
CreateConflict(b) ==
    /\ create[b].pc = "locked"
    /\ HoldMatches(b)
    /\ Refused(b)
    /\ create' = [create EXCEPT ![b].pc =
                    IF Recorded(CreateCandidate(b), create[b].key)
                    THEN "done" ELSE "rejected"]
    /\ UNCHANGED <<now, slot, booking, outbox, elig, lock, hold, cancel,
                   clobbered, redisLost>>

CreateRelease(b) ==
    /\ create[b].pc = "committed"
    /\ Release(CreateSlot(b), create[b].token)
    /\ create' = [create EXCEPT ![b].pc = "done"]
    /\ UNCHANGED <<now, slot, booking, outbox, elig, hold, cancel, clobbered, redisLost>>

CreateCrash(b) ==
    /\ create[b].pc \in {"looked", "matched", "locked", "committed"}
    /\ create' = [create EXCEPT ![b].pc = "done"]
    /\ UNCHANGED <<now, slot, booking, outbox, elig, lock, hold, cancel,
                   clobbered, redisLost>>

-----------------------------------------------------------------------------
(* Transitions of a booking                                                *)

\* The outbox row of transition(): only these three statuses are announced.
Announce(b, target) ==
    outbox' = CASE target = "CONFIRMED"   -> [outbox EXCEPT ![b] = Append(@, "confirmed")]
                [] target = "CANCELLED"   -> [outbox EXCEPT ![b] = Append(@, "cancelled")]
                [] target = "RESCHEDULED" -> [outbox EXCEPT ![b] = Append(@, "rescheduled")]
                [] OTHER                  -> outbox

\* Mutant: the slot is not given back.
SetStatusKeepingSlot(b, target) ==
    /\ booking' = [booking EXCEPT ![b].status = target]
    /\ UNCHANGED slot

\* Write the status; a status that does not occupy time gives the slot back,
\* whatever the slot's row says.
SetStatus(b, target) ==
    /\ booking' = [booking EXCEPT ![b].status = target]
    /\ IF OccupiesTime(target)
       THEN UNCHANGED slot
       ELSE /\ ~RowLocked(booking[b].slot)
            /\ slot' = [slot EXCEPT ![booking[b].slot].status = "AVAILABLE"]

\* POST /admin/bookings/{id}/transition: the row is read under its lock.
AdminTransition(b, target) ==
    /\ Exists(b)
    /\ CanTransition(booking[b].status, target)
    /\ SetStatus(b, target)
    /\ Announce(b, target)
    /\ UNCHANGED <<now, elig, lock, hold, create, cancel, clobbered, redisLost>>

\* cancel_by_candidate selects the booking without a lock.  A status from which
\* transition() refuses CANCELLED ends the request with 409.
CancelRead(k, b) ==
    /\ cancel[k].pc = "idle"
    /\ Exists(b)
    /\ CanTransition(booking[b].status, "CANCELLED")
    /\ cancel' = [cancel EXCEPT ![k] = [pc |-> "read", booking |-> b,
                                        seen |-> booking[b].status]]
    /\ UNCHANGED <<now, slot, booking, outbox, elig, lock, hold, create,
                   clobbered, redisLost>>

\* transition() then locks the row, but the session's identity map still holds the
\* object of the first select, so the check uses the status seen then.
CancelApply(k) ==
    LET b == cancel[k].booking
    IN /\ cancel[k].pc = "read"
       /\ CanTransition(cancel[k].seen, "CANCELLED")
       /\ SetStatus(b, "CANCELLED")
       /\ Announce(b, "CANCELLED")
       /\ cancel' = [cancel EXCEPT ![k].pc = "done"]
       /\ clobbered' = IF Occupying(b) THEN clobbered
                       ELSE clobbered \cup {booking[b].slot}
       /\ UNCHANGED <<now, elig, lock, hold, create, redisLost>>

\* handle_payment: the statuses a payment event walks the booking through.
PaymentPath(type) ==
    CASE type = "captured" -> <<"BOOKED", "CONFIRMED">>
      [] type = "failed"   -> <<"PAYMENT_FAILED">>
      [] type = "refunded" -> <<"REFUNDED">>

\* Mutant: any open booking takes the event, so a second capture confirms again.
PaymentAllowedWhileOpen(b, path) == OccupiesTime(booking[b].status)

\* Mutant: the event's own steps are checked, the status the booking has by then is not.
PaymentAllowedLate(b, path) ==
    \A i \in 2 .. Len(path) : CanTransition(path[i - 1], path[i])

PaymentAllowed(b, path) ==
    \A i \in DOMAIN path :
        CanTransition(IF i = 1 THEN booking[b].status ELSE path[i - 1], path[i])

\* A payment event, redelivered or late as the broker likes: one that the state
\* machine does not allow is rejected whole, one already processed is skipped.
HandlePayment(b, type) ==
    LET path == PaymentPath(type)
    IN /\ Exists(b)
       /\ PaymentAllowed(b, path)
       /\ SetStatus(b, path[Len(path)])
       /\ outbox' = IF path[Len(path)] = "CONFIRMED"
                    THEN [outbox EXCEPT ![b] = Append(@, "confirmed")]
                    ELSE outbox
       /\ UNCHANGED <<now, elig, lock, hold, create, cancel, clobbered, redisLost>>
-----------------------------------------------------------------------------
(* Workers and the environment                                             *)

\* expire_holds: one UPDATE, which waits for rows another session has locked.
Expired(s) == slot[s].status = "HELD" /\ slot[s].expires <= now

\* Mutant: a hold is expired only while Redis still has its key.
ExpireHoldsWithKey ==
    /\ \E s \in Slots : Expired(s) /\ lock[s].token = slot[s].token
    /\ slot' = [s \in Slots |-> IF Expired(s) /\ lock[s].token = slot[s].token
                                THEN FreeSlot("AVAILABLE") ELSE slot[s]]
    /\ UNCHANGED <<now, booking, outbox, elig, lock, hold, create, cancel,
                   clobbered, redisLost>>

ExpireHolds ==
    /\ \E s \in Slots : Expired(s)
    /\ \A s \in Slots : Expired(s) => ~RowLocked(s)
    /\ slot' = [s \in Slots |-> IF Expired(s) THEN FreeSlot("AVAILABLE") ELSE slot[s]]
    /\ UNCHANGED <<now, booking, outbox, elig, lock, hold, create, cancel,
                   clobbered, redisLost>>

\* set_interviewer_eligibility, for a verification event or a snapshot.  Any value
\* may arrive; one older than the row is skipped, and deletion is final.
SetEligibility(i, e) ==
    /\ elig[i] # "deleted"
    /\ elig' = [elig EXCEPT ![i] = e]
    /\ UNCHANGED <<now, slot, booking, outbox, lock, hold, create, cancel,
                   clobbered, redisLost>>

\* generate_slots, the internal endpoint: ON CONFLICT DO NOTHING.  The eligibility is
\* read without a lock, before the insert.  One step stands for both: nothing is read
\* in between, and an interviewer who loses the eligibility between them leaves the
\* same rows as one who loses it after the insert.
GenerateSlots(i, windows) ==
    /\ elig[i] = "verified"
    /\ slot' = [s \in Slots |-> IF s \in windows /\ slot[s].status = "absent"
                                THEN FreeSlot("AVAILABLE") ELSE slot[s]]
    /\ UNCHANGED <<now, booking, outbox, elig, lock, hold, create, cancel,
                   clobbered, redisLost>>

\* Mutant: only live holds are left alone.
OccupiedByHold(s) == LiveHold(s)

\* A slot synchronize leaves alone, with everything that overlaps it.
Occupied(s) == slot[s].status = "BOOKED" \/ LiveHold(s)

\* synchronize, the part of one interviewer: the eligibility row and the future
\* slots are locked, and brought in line with the windows of the snapshot.
Synchronize(i, windows) ==
    LET future  == {s \in Slots : SlotOwner[s] = i /\ StartsAt[s] > now}
        taken   == {s \in future : Occupied(s)}
        desired == IF elig[i] = "verified"
                   THEN {s \in windows \cap future : \A o \in taken : ~Overlap(o, s)}
                   ELSE {}
    IN /\ elig[i] # "unknown"
       /\ \A s \in future : ~RowLocked(s)
       /\ slot' = [s \in Slots |->
            CASE s \in future \ taken /\ s \in desired /\ slot[s].status = "absent"
                    -> FreeSlot("AVAILABLE")
              [] s \in future \ taken /\ s \in desired /\ slot[s].status = "BLOCKED"
                    -> [slot[s] EXCEPT !.status = "AVAILABLE"]
              [] s \in future \ taken /\ s \notin desired /\ slot[s].status # "absent"
                    -> FreeSlot("BLOCKED")
              [] OTHER -> slot[s]]
       /\ UNCHANGED <<now, booking, outbox, elig, lock, hold, create, cancel,
                      clobbered, redisLost>>

\* Time passes, and Redis drops the keys whose TTL is over.
Tick ==
    /\ now < MaxTime
    /\ now' = now + 1
    /\ lock' = [s \in Slots |-> IF lock[s].expires <= now' THEN NoLock ELSE lock[s]]
    /\ UNCHANGED <<slot, booking, outbox, elig, hold, create, cancel, clobbered, redisLost>>

\* Redis restarts without its keys.
RedisLoss ==
    /\ lock' = [s \in Slots |-> NoLock]
    /\ redisLost' = TRUE
    /\ UNCHANGED <<now, slot, booking, outbox, elig, hold, create, cancel, clobbered>>

-----------------------------------------------------------------------------

HoldNext(t) ==
    \/ \E s \in Slots, c \in Candidates : HoldAcquire(t, s, c)
    \/ HoldLock(t)
    \/ HoldGrant(t)
    \/ HoldRefuse(t)
    \/ HoldFail(t)
    \/ HoldRelease(t)
    \/ HoldCrash(t)

CreateNext(b) ==
    \/ \E t \in Tokens, k \in Keys : CreateLookup(b, t, k)
    \/ CreateMatch(b)
    \/ CreateLock(b)
    \/ CreateCommit(b)
    \/ CreateMismatch(b)
    \/ CreateConflict(b)
    \/ CreateRelease(b)
    \/ CreateCrash(b)

BookingNext(b) ==
    \/ \E target \in AdminTargets : AdminTransition(b, target)
    \/ \E k \in Cancels : CancelRead(k, b)
    \/ \E type \in PaymentInputs : HandlePayment(b, type)

InterviewerNext(i) ==
    \/ \E e \in EligibilityInputs : SetEligibility(i, e)
    \/ \E windows \in SUBSET {s \in Slots : SlotOwner[s] = i} :
          GenerateSlots(i, windows) \/ Synchronize(i, windows)

Next ==
    \/ \E t \in Tokens : HoldNext(t)
    \/ \E b \in Bookings : CreateNext(b) \/ BookingNext(b)
    \/ \E k \in Cancels : CancelApply(k)
    \/ \E i \in Interviewers : InterviewerNext(i)
    \/ ExpireHolds
    \/ Tick
    \/ RedisLoss

Spec == Init /\ [][Next]_vars

\* Fairness.  The maintenance loop runs expire_holds every second, and a session
\* that has locked a row commits, rolls back or is dropped with its connection.
Unlock(t) == HoldGrant(t) \/ HoldRefuse(t) \/ HoldFail(t)

UnlockCreate(b) == CreateCommit(b) \/ CreateMismatch(b) \/ CreateConflict(b)

FairSpec ==
    /\ Spec
    /\ WF_vars(ExpireHolds)
    /\ \A t \in Tokens : WF_vars(Unlock(t))
    /\ \A b \in Bookings : WF_vars(UnlockCreate(b))

-----------------------------------------------------------------------------
(* Properties                                                              *)

\* Two bookings that occupy time never overlap for one candidate or for one
\* interviewer, whatever requests, cancellations and payment events race
\* (Booking.__table_args__, create_booking).
NoDoubleBooking ==
    \A a, b \in Bookings :
        /\ a # b
        /\ Occupying(a) /\ Occupying(b)
        /\ \/ booking[a].candidate = booking[b].candidate
           \/ SlotOwner[booking[a].slot] = SlotOwner[booking[b].slot]
        => ~Overlap(booking[a].slot, booking[b].slot)

\* A slot marked BOOKED carries a booking that occupies it, made by the candidate
\* who held the slot: no path leaves a slot booked by nobody, also when Redis lost
\* its keys (README of booking-service, line 5).
BookedByItsHolder ==
    \A s \in Slots : slot[s].status = "BOOKED" =>
        \E b \in Bookings : /\ Occupying(b)
                            /\ booking[b].slot = s
                            /\ booking[b].candidate = slot[s].heldBy

\* A booking that occupies time keeps its slot BOOKED, hidden from discovery and
\* left alone by holds, expiry and synchronisation; only a cancellation of another,
\* already ended booking of that slot can take it away.
OccupiedIsBooked ==
    \A b \in Bookings :
        Occupying(b) /\ booking[b].slot \notin clobbered
            => slot[booking[b].slot].status = "BOOKED"

\* One candidate has at most one booking per idempotency key, however create
\* requests with that key interleave.
OneBookingPerKey ==
    \A a, b \in Bookings :
        Exists(a) /\ Exists(b) /\ booking[a].candidate = booking[b].candidate
            /\ booking[a].key = booking[b].key => a = b

\* What the outbox has told about a booking fits the booking's status: created
\* once, confirmed once and only when it was, and the last word on a cancelled or
\* rescheduled booking is that it was (consumers have no other source).
OutboxStory(b) ==
    CASE booking[b].status = "absent" -> {<<>>}
      [] booking[b].status \in {"PAYMENT_PENDING", "PAYMENT_FAILED", "BOOKED"}
            -> {<<"created">>}
      [] booking[b].status = "REFUNDED"
            -> {<<"created">>, <<"created", "confirmed">>}
      [] booking[b].status = "CANCELLED"
            -> {<<"created", "cancelled">>, <<"created", "confirmed", "cancelled">>}
      [] booking[b].status = "RESCHEDULED"
            -> {<<"created", "confirmed", "rescheduled">>}
      [] OTHER -> {<<"created", "confirmed">>}

OutboxTellsTheStory ==
    \A b \in Bookings :
        booking[b].slot \notin clobbered => outbox[b] \in OutboxStory(b)

\* A live hold ends before its time only by becoming a booking of the candidate who
\* holds it: neither another candidate, nor a worker, nor an interviewer's change of
\* availability takes it away (hold, expire_holds, synchronize).
HoldHonoured ==
    [][\A s \in Slots :
         LiveHold(s) /\ slot'[s] # slot[s] /\ s \notin clobbered' =>
            slot'[s].status = "BOOKED" /\ slot'[s].heldBy = slot[s].heldBy]_vars

\* The Redis key of a live hold goes by its TTL, with Redis itself, or by the hand of
\* the request that took it and failed: its commit is on disk but was never answered,
\* so its candidate has no token.  No other request takes the key, and a candidate
\* who was told of a hold finds it there (hold, create_booking, RedisHoldStore).
HoldKeepsItsKey ==
    [][\A s \in Slots :
         /\ lock[s].token # None
         /\ LiveHold(s) /\ slot[s].token = lock[s].token
         /\ lock'[s] # lock[s]
         => \/ now' > now
            \/ redisLost'
            \/ hold[slot[s].token].pc = "refused"
                 /\ hold'[slot[s].token].pc = "done"]_vars

\* An expired hold is given back, also when requests keep the row busy.
ExpiredHoldIsFreed ==
    \A s \in Slots : Expired(s) ~> ~Expired(s)

-----------------------------------------------------------------------------
(* The invariant that holds the properties up: what a request has in hand when *)
(* it is past a step, and what a row on disk carries.                          *)

HoldOK(t) ==
    hold[t].pc # "idle" => hold[t].slot \in Slots /\ hold[t].candidate \in Candidates

CreateOK(b) ==
    /\ create[b].pc # "idle" =>
          /\ create[b].token \in Tokens /\ create[b].key \in Keys
          /\ hold[create[b].token].pc = "granted"
    /\ create[b].pc \in {"idle", "looked", "matched", "locked", "rejected"} => ~Exists(b)

RowOK(b) ==
    Exists(b) => /\ booking[b].slot \in Slots
                 /\ booking[b].candidate \in Candidates
                 /\ booking[b].key \in Keys

CancelOK(k) ==
    cancel[k].pc = "read" => cancel[k].booking \in Bookings /\ Exists(cancel[k].booking)

\* Every request past its first step names a slot and a candidate, a create request
\* works on a granted hold and inserts its row once, and a cancellation in flight has
\* seen a row: no interleaving of the handlers leaves one of them with half its data.
RequestOK ==
    /\ \A t \in Tokens : HoldOK(t)
    /\ \A b \in Bookings : CreateOK(b) /\ RowOK(b)
    /\ \A k \in Cancels : CancelOK(k)

-----------------------------------------------------------------------------
(* The calendar booking-service implements: a row of table bookings is an      *)
(* appointment, active while the row occupies time.                            *)

Appointment(b) ==
    [state |-> IF ~Exists(b) THEN "free"
               ELSE IF OccupiesTime(booking[b].status) THEN "active" ELSE "ended",
     candidate |-> booking[b].candidate,
     slot |-> booking[b].slot]

Appointments == INSTANCE Calendar WITH
    entry <- [b \in Bookings |-> Appointment(b)]

\* Holds, create requests, payment events, cancellations and admin transitions,
\* racing, together do no more than take and give back appointments: time is taken
\* only when candidate and interviewer are free, and never comes back to a booking.
ImplementsCalendar == Appointments!Spec

-----------------------------------------------------------------------------
(* What the documentation says and the code does not do.                   *)

\* A booking in a terminal status keeps it: state_machine.py line 44 gives a
\* terminal status no successor.
TerminalIsFinal ==
    [][\A b \in Bookings :
         booking[b].status \in Terminal => booking'[b].status = booking[b].status]_vars

=============================================================================

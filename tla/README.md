# A TLA+ model of RoundReady

RoundReady sells mock interviews: a candidate picks a slot of a verified interviewer, pays,
meets the interviewer in a video room and gets feedback.  The backend is eight Python (FastAPI)
services, each with its own PostgreSQL database, joined by a RabbitMQ topic exchange, with Redis
for slot holds and rate limits.  This directory holds TLA+ modules that model the services'
control, the TLC configurations that check them on small instances, and theorems checked by TLAPS.

## 1. Inventory

### 1.1 Components

| Component | State | Operations | What makes it hard | What makes it correct |
|---|---|---|---|---|
| booking-service | `slots`, `bookings`, `booking_status_history`, `interviewer_eligibility`, `processed_events`, `outbox_events`; Redis hold keys | hold, create_booking, transition, cancel_by_candidate, handle_payment, set_interviewer_eligibility, generate_slots, expire_holds, synchronize | two stores (Redis, PostgreSQL) that must agree; requests that read before they lock; payment events in any order; TTLs | no double booking; a hold is honoured; a slot is BOOKED exactly while a booking occupies it; one booking per idempotency key; outbox = history |
| payment-service | `payments`, `refunds`, `webhook_events`, audit, outbox | create_order, complete_development_payment, process_webhook, refund | calls to the provider between two commits; webhooks late, doubled, forged; crashes | at most one capture per booking is announced, refunds never exceed the capture, an event is announced once |
| auth-service | users, refresh-token families, access projection | register, login, rotate, logout, verify_email, disable_user, apply_interviewer_access_event | refresh-token reuse racing a rotation; block events racing a login | a family has at most one live token; a revoked family stays revoked; a blocked account keeps no session; some link is always open |
| interviewer-service | profile, contact challenges, verification, evidence, rules, blockouts, outbox | challenges, submit/review verification, suspend, reactivate, delete | delete checks active bookings in another service first; reviews by several admins | approval only after all evidence; a deleted profile stays deleted; events in order of changes |
| interview-service | sessions, attendance, rubrics, feedback, outbox | create_session, join, attendance webhooks, transitions, submit_feedback | webhooks read a session without a lock and write it later; LiveKit outages | a finished session stays finished; one feedback per session |
| notification-service | notifications, attempts, dead letters | consume, deliver, retry_due, dead-letter | consumer and retry loop deliver the same row; provider failures | every event yields one notification per recipient; bounded attempts; none lost |
| outbox + consumers (every service) | `outbox_events`, broker queues, `processed_events` | publish_pending, handle | crash between publish and commit; redelivery; per-row commits drop the batch's locks | at-least-once publication, effect once |
| booking-service's copy of the interviewer | `interviewer_eligibility`, `processed_events` | verification events, snapshots of the maintenance worker, deletion | two sources with timestamps of different origin; events late, twice, never | the copy ends at the standing; no booking of a deleted interviewer |
| api-gateway | rate-limit counters in Redis | proxy, authenticate | shared counters | limit per window |
| user-service | candidate profile, resume | upsert, upload, delete | object store and database disagree after a failure | profile points to an existing resume |
| libs/roundready_common | none | envelopes, publisher, logging, config | - | modelled where a service uses it |
| frontend, infrastructure | none of the service state | pages; Terraform, Kubernetes | - | not modelled |

### 1.2 How they interact

A candidate's request goes gateway -> auth (introspection) -> service.  State changes that others
must hear of are written to the service's outbox in the same commit; a worker publishes them and
consumers deduplicate by event id.  booking-service hears of payments (captured, failed, refunded)
and of interviewers' verification, and pulls the availability snapshot of interviewer-service;
payment-service asks booking-service whether a booking is payable; interview-service creates a
session when a booking is confirmed; auth-service blocks interviewers on suspension; 
notification-service turns most events into messages.

## 2. Plan

Modules in the order they are written.  `*` marks what exists.

1. `*` `BookingStatus`, `Booking`, `Calendar`, `MCBooking`, `BookingProofs`: slots, holds, bookings,
   and the abstract calendar they implement.
2. `*` `Payment`, `Ledger`, `MCPayment`, `PaymentProofs`: orders, webhooks, refunds, crashes around
   provider calls, and the abstract ledger they implement.
3. `*` `Session`, `MCSession`, `SessionProofs`: creation, attendance, transitions and feedback of
   interview-service.
4. `*` `Accounts`, `MCAccounts`, `AccountsProofs`: accounts, mailed links, refresh-token families and
   the access that follows an interviewer's lifecycle.
5. `*` `Contact`, `MCContact`, `ContactProofs`: proof of mobile number and company email.
6. `*` `Verification`, `Lifecycle`, `MCVerification`, `VerificationProofs`: evidence, screening, review
   and deletion, and the abstract lifecycle they implement.
7. `*` `Trust`, `MCTrust`, `TrustProofs`: `Lifecycle` composed with booking-service's copy of it, fed by
   events and snapshots, and with the bookings that a deletion asks for.
8. `*` `Outbox`, `Notification`, `MCNotification`, `NotificationProofs`: publishers, broker and
   notification-service, composed.
9. `PaymentBooking`: payment-service and booking-service joined by the broker: what was captured is
   confirmed or visible as rejected.
10. `Windows` (availability computed from weekly rules and blockouts against a reference definition)
    and `RateLimit` (the gateway's counter).

Which module uses which: `Booking` instantiates `Calendar`, `Payment` instantiates `Ledger`,
`Verification` instantiates `Lifecycle`, each as the promise it implements; `Trust` extends `Lifecycle`
and `Notification` extends `Outbox`, as compositions.  So what `Trust` says of lifecycle events holds
of the review as `Verification` models it, by the theorem `VerificationProofs!Refinement`.

The type invariant of every module is proved, so the runs spend their time on the other properties.

## 3. booking-service

`BookingStatus.tla` is the lifecycle table (`domain/state_machine.py`).

`Booking.tla` models `application/booking_service.py`, `application/availability.py`,
`infrastructure/holds.py` and the constraints of `domain/models.py`.

| Variable | Code |
|---|---|
| `now` | the clock of the processes and of Redis |
| `slot` | table `slots`: status, `held_by_candidate_id`, the hold token (its hash in the code), `hold_expires_at` |
| `booking` | table `bookings`: status, slot, candidate, idempotency key (`occupies_time` is a function of the status, as in every assignment of the code) |
| `outbox` | the event types of `outbox_events`, per booking, in commit order |
| `elig` | table `interviewer_eligibility` |
| `lock` | the Redis key of a slot: token and end of TTL |
| `hold`, `create`, `cancel` | local variables and program counter of running requests |
| `clobbered`, `redisLost` | history variables, read by no action |

A request is split into several actions where another session can act in between:

| Code | Actions |
|---|---|
| `hold` | `HoldAcquire` (SET NX EX), `HoldLock` (SELECT FOR UPDATE, eligibility, clock), `HoldGrant` / `HoldRefuse` / `HoldFail` (a statement or the commit fails), `HoldRelease`, `HoldCrash` |
| `create_booking` | `CreateLookup`, `CreateMatch`, `CreateLock`, `CreateCommit` / `CreateMismatch` / `CreateConflict`, `CreateRelease`, `CreateCrash` |
| `cancel_by_candidate` | `CancelRead`, `CancelApply` |
| `transition` (admin) | `AdminTransition` |
| `handle_payment` | `HandlePayment` |
| `set_interviewer_eligibility`, `generate_slots`, `synchronize`, `expire_holds` | `SetEligibility`, `GenerateSlots`, `Synchronize`, `ExpireHolds` |
| Redis and time | `Tick` (keys whose TTL is over go), `RedisLoss` |

A crash at any point of a request rolls its transaction back and keeps the Redis key.  A commit of a
hold that fails may have reached the disk (`HoldFail`): the request cannot know, and gives its Redis key
back either way.  A row lock is a program counter: while a request is `"locked"` no other writer of that
slot moves.  `GenerateSlots` reads the eligibility and inserts in one step: nothing is read in between.

Abstracted: the session's domain, topic, rubric and price; the payment's amount check (a mismatch
is a rejection and changes nothing); `processed_events` (a skipped duplicate changes nothing, and
the model lets an event be applied as often as the state machine allows, which is more than the
code does); the order of eligibility events by `updated_at` (any value may arrive).  A create
request presents a token its candidate was granted; a token of somebody else differs in
`held_by_candidate_id` and is refused.

### 3.1 Runs

| Run | Bounds | Shows |
|---|---|---|
| `booking_conflicts` | 2 candidates, 2 overlapping slots of 1 interviewer, 2 holds, 2 creates, 1 cancellation, 1 key, clock 0..1, TTL 1 | `BookedByItsHolder`, `OccupiedIsBooked`, `OneBookingPerKey`, `NoDoubleBooking` |
| `booking_lifecycle` | 1 slot, 1 booking, 2 holds, 1 cancellation, clock 0..2, TTL 1, every admin target, payment event and eligibility, fairness | `OutboxTellsTheStory`, `HoldHonoured`, `HoldKeepsItsKey`, `ImplementsCalendar`, `ExpiredHoldIsFreed` |
| `booking_terminal` | 1 booking, 1 cancellation | `TerminalIsFinal` is violated |

Two requests of each kind are enough for every race of the properties, which relate at most two
requests and one worker; one slot suffices where a property speaks of one slot, and two overlapping
slots where it speaks of two; a TTL of 1 and a clock up to 2 let a hold be taken, expire and be
taken again before the slot starts.  In `booking_conflicts` the clock only lets holds expire, and the
payment only fails; what time and the other inputs do to one booking is `booking_lifecycle`.  There the
appointment of the calendar is taken and given back on every path; that two appointments never overlap is
`NoDoubleBooking` of the other run, and both are proved for every instance.  The candidates, hold requests, bookings and keys are
interchangeable in `booking_conflicts`, where symmetry is used; `booking_lifecycle` uses none.
Deadlock is not checked: requests are finitely many and the clock is bounded, so the system stops.

Fairness (`FairSpec`): the maintenance loop calls `expire_holds` every second
(`workers/maintenance.py`), and a session that has locked a row ends, because its handler has no
unbounded wait and PostgreSQL drops the transaction of a lost connection.

### 3.2 What the code does against its documentation, and what else the model shows

* `TerminalIsFinal`: `cancel_by_candidate` reads the booking without a lock, and `transition` then
  locks the row but, the object being in the session's identity map already, decides on the status
  read before.  A payment failure in between is overwritten by CANCELLED, and the slot is set
  AVAILABLE whoever has it by now.  `clobbered` records the slots this happened to; the invariants
  `OccupiedIsBooked` and `HoldHonoured` hold for all others, which the theorem
  `OnlyStaleCancelsLeak` states for every instance: it is the only leak.
* A doubled create request can be answered 409 although the booking exists (not a contradiction of
  anything the repository says): the second one finds the key of the hold gone in `CreateMatch`, or the
  row changed in `CreateMismatch`, and neither path looks the idempotency key up again.
* A hold whose commit was answered by an error but is on disk blocks its slot until it expires, and its
  Redis key is gone (`booking_service.py:171-176`).  Nobody was told of it: `HoldKeepsItsKey` says that
  the request itself is the only one that takes the key of a live hold away.

### 3.3 Proofs

`BookingProofs.tla` proves, for every set of slots, candidates, requests and bookings, every TTL and
clock bound, from `BookingAssumption` alone:

* `TypeCorrect`: `Spec => [](TypeOK /\ RequestOK)`.  `TypeOK` is not inductive: the action
  `HoldGrant` writes the slot the request names, so the proof needs `RequestOK`, what each request
  has in hand past a step.
* `Inductive`: `Spec => []IInv` with `IInv` = types, `RequestOK`, `NoDoubleBooking`,
  `BookedByItsHolder`, `OccupiedIsBooked`.  The lemma `BookingSteps` sorts the steps: quiet ones that
  touch neither bookings nor booked slots, the commit of a create request, the move of an open
  booking and a cancellation.  `OccupiedIsBooked` needs `NoDoubleBooking`: freeing the slot of one
  booking must not free the slot of another that occupies it.
* `CalendarSafe`, `BookedSlotsAreTaken`, `OnlyStaleCancelsLeak`: the three invariants.
* `KeysAreUnique`: `OneBookingPerKey`, from the unique constraint in `CreateCommit` and the fact that no
  step changes a candidate or a key.
* `Refinement`: `Spec => ImplementsCalendar`.  The sorted steps map to `Take`, `GiveBack` or a stutter;
  it needs `EmptyRows` (a row not on disk names no slot) to start an appointment from the free one.
* `OutboxIsTrue`: `OutboxTellsTheStory`, by the tail a status change appends to the story of the status
  before it; a stale cancellation breaks the story, and the theorem says that nothing else does.
* `HoldsAreHonoured`, `KeysAreKept`: the action properties `HoldHonoured` and `HoldKeepsItsKey`.  Both
  rest on `HoldsInv`: no request is ahead of the clock (else it could take an expired hold that is not),
  a held slot carries the token of a request that is past its commit, answered or not, and a committed
  create request has no token of a held slot (else its `Release` could delete the key of a live hold).
* `EndedStaysEnded`: the action property `EndedUnlessStale`, which says what is left of `TerminalIsFinal`.
  A booking leaves an end only for CANCELLED, only in the second half of a cancellation whose first half
  saw it open, and its slot then is in `clobbered`.  Payment events, administrators and doubled creations
  never touch an ended booking.

All properties of the passing runs but the liveness property `ExpiredHoldIsFreed` are proved.

## 4. payment-service

`Ledger.tla` is the promise: the price of a booking is taken once or not at all, never after the
payment was given up, and what is paid back stays within what was taken.

`Payment.tla` models `application/payment_service.py` with the constraints of `domain/models.py` and
the two providers of `infrastructure/`.

| Variable | Code |
|---|---|
| `payment` | table `payments`, one row per booking (`booking_id` is unique): status, idempotency key, whether `provider_order_id` is set, `provider_payment_id` |
| `refund` | table `refunds`; status `asked` is the uncommitted row of a request waiting for the provider, `gone` one whose process died |
| `webhook` | table `webhook_events`: `processing_status` per event, of an attempt and its type or of a refund; DROPPED is FAILED, and the provider sends the event no more |
| `outbox` | type and amount of the rows of `outbox_events`, per booking |
| `request` | program counter and locals of running `create_order` calls |
| `attempt`, `paidBack` | the provider: what happened to each payment of an order, how it answered a refund and what became of it |
| `strayed`, `unanswered` | history variables, read by no action |

| Code | Actions |
|---|---|
| `create_order` | `OrderLookup` (advisory lock, both lookups), `OrderInsert` (validation, flush, unique constraints), `OrderOpen` / `OrderFail` (the provider's answer and the commit), `OrderEnd` |
| `process_webhook`, `_apply_webhook` | `Webhook` |
| `_refund_webhook` | `RefundWebhook`, `RefundWebhookRefused` (the service does not know the refund yet, or ever) |
| `refund` | `RefundAsk`, `RefundAnswer` / `RefundFail` / `RefundCrash` |
| `complete_development_payment` | `DevelopmentComplete` |
| the provider (external) | `StartAttempt`, `AttemptMoves`, `ProviderPays`, `ProviderSettles` |

A call to the provider happens inside a transaction, so a refund is three things: the row lock and
the check, what the provider does, and the commit; `RefundFail` and `RefundCrash` may follow a refund
the provider has paid.  The service reads one thing of the provider's answer to a refund, whether it says
processed; everything else, failed included, is stored as PENDING (`razorpay.py:76`).  A pending refund
is settled or comes back; `refund.failed` is no supported event and changes nothing
(`payment_service.py:186-191`).

A refused delivery marks the event FAILED and the provider repeats it.  When the first delivery is
overlapped by a second, that one fails on the unique event id and is answered with success
(`payment_service.py:183-185`), and the event is never sent again (`RefusedMark`).  A lookup that finds a payment returns it and changes nothing, so it is no
step.  All keys belong to the candidate of the bookings, which is the case where they can collide.

Left out: events the service does not support (marked IGNORED), webhooks of unknown orders and with
other amounts (refused; only `webhook_events` changes), and the audit table.  `Refunded` is what the code's query sums up.  `Total` counts a sum unit by
unit, as the size of a set of pairs of a refund and a paisa of it: no amount exceeds the price, and
facts about finite sets are all a proof about the sum needs.

### 4.1 Runs

| Run | Bounds | Shows |
|---|---|---|
| `payment_card` | 1 order, 2 attempts, 2 refunds, price 2, refund amounts 1 and 2, fairness | `OutboxTellsTheMoney`, `StatusTellsTheRefunds`, `CapturedIsPaid`, `RecordedRefundIsPaid`, `ImplementsLedger`, `CaptureIsRecorded`, `RefundIsSettled` |
| `payment_development` | development provider, 2 bookings, 3 order requests, 2 keys, 3 refunds | `OrderIsNeverReplaced` |

Payments of different bookings share nothing but their keys, which `payment_development` covers, so one
booking suffices elsewhere.  Two attempts let one be captured while a webhook of the other is late;
with a price of two, two refunds of one or two units reach the price in one or in parts, exceed it, or fail
and are followed by another.  The provider never pays back more than it took.

Fairness (`FairSpec`): the provider resends `refund.processed` until a delivery is answered with success,
and a call to it ends, because its client has a timeout of ten seconds (`infrastructure/razorpay.py`).
Nothing is assumed about whether the provider pays a pending refund, about the webhooks of attempts, or
about the requests of a candidate or an admin.

### 4.2 What the model shows besides

None of these contradicts a statement of the repository; they limit what the properties can claim,
and the history variables mark where.

* A refused webhook keeps the reference it wrote before it was refused (line 234, commit at 197), so
  a late `payment.failed` of another attempt makes a captured payment name that attempt, and a refund
  will ask the provider for the wrong one.  `CapturedIsPaid` excepts exactly those (`strayed`).
* A refund whose answer is lost is FAILED, or has no row after a crash, although the money is back
  (`unanswered`).  The service may then refund again; the provider's own limit is what stops it.
* A failed refund makes a partially refunded payment CAPTURED again; the remaining amount is computed
  from the refund rows and stays right.
* An order that is FAILED stays so even when another attempt is captured later; that webhook is
  refused for ever and the money is kept.  `CaptureIsRecorded` says that this is the only way for a capture
  whose webhook was delivered not to be recorded.
* A refund that the provider answers with failed, or accepts and returns later, stays PENDING and its
  payment REFUND_PENDING for ever; the service asks for no further refund of it.  `RefundIsSettled` is about
  those that were paid.  It excepts refunds whose webhook came before the refund's own commit, was
  refused, and was answered with success by an overlapping delivery.

### 4.3 Proofs

`PaymentProofs.tla` proves from `PaymentAssumption` alone that `IInv` is inductive.  `IInv` joins the
types and two properties with five strengthenings: `RequestOK`, what a running order request has in
hand; `OrderOK`, the advisory lock and the unique constraints (two open requests never share a booking,
an inserted row is new); `RefundOK`, at most one refund of a payment is under way and the payment's
status says which; `AttemptOK`; `OpenOK`, attempts are made at open orders, and the row of an open order is
paid, still to be paid, or FAILED because the webhook of a failed attempt was processed.  `RefundOK` is what
keeps `CapturedIsPaid` true when a refund fails: the status CAPTURED is written back to a payment that was captured before.  Theorems:
`PaymentTypeCorrect`, `CapturesArePaid`, `RefundsArePaid`, `CapturesAreRecorded` (from `OpenOK`), and
`OrdersAreFinal`, the action property `OrderIsNeverReplaced`.

The money needs more.  The lemma `MoneySteps` sorts the steps by what they do to payments, refunds and
outbox (`MoneyStep`): an order that opens or fails, a capture, a refund that is asked for, waits, fails, is
lost in a crash or is settled, and everything else.  Over these classes `MoneyInv` is inductive
(`MoneyInductive`): each payment fits its refunds (`Fits`), that is, only a paid payment has any, what is
processed and under way together stays within the price, and REFUNDED is exactly the whole price.  That a
second request cannot overtake the sum the first has read rests on `RefundOK`.  The sums come from
`TotalSame` and `TotalAdds`: one refund more in the set adds its amount.  Then:

* `RefundsAddUp`: `StatusTellsTheRefunds`, from `MoneyInv` and `RefundOK`.
* `OutboxTellsTheStory`: `OutboxTellsTheMoney`.  The lemma `LedgerSteps` says what a step does to the
  account and the outbox of each booking: nothing, or one of three things to one booking, with the event
  that tells it.
* `LedgerImplemented`: `ImplementsLedger`.  The same three are the actions of `Ledger`: `GiveUp`, `Capture`,
  `PayBack`.
* `MoneyMovesOn`: the action property `MovesOn`.  No step takes a refund back, and FAILED and REFUNDED are
  final; that REFUNDED is follows from the sum alone, which cannot grow beyond the price.

`RefundIsSettled` stays with TLC.

## 5. interview-service

`Session.tla` models `application/interview_service.py` with the constraints of `domain/models.py`
and the consumer of confirmed bookings, `workers/events.py`.

| Variable | Code |
|---|---|
| `session` | `interview_sessions.status`, per booking (`booking_id` is unique) |
| `connected` | rows of `participant_attendance` with `connected` |
| `noticed` | `attendance_events.provider_event_id` |
| `report` | sessions with a row in `feedback_reports` |
| `outbox` | event types of `outbox_events`, per booking, in commit order |
| `request` | the deliveries, and the calls under way: what they do, for which session, and the status they read (`seen`) |
| `overwritten`, `givenUp` | history variables, read by no action |

| Code | Actions |
|---|---|
| `create_session`, `handle` | `CreateRead` (lookups), `CreateSkip`, `CreateRefuse` (no room), `CreateCommit`, `CreateRequeue`, `CreateReject` (the database fails) |
| `transition` (admin) | `AdminTransition` |
| `transition_by_interviewer` | `InterviewerRead`, `InterviewerApply` |
| `attendance` | `AttendanceRead`, `AttendanceApply` |
| `submit_feedback` | `FeedbackRead`, `FeedbackCommit` |
| any call that is refused, fails or dies | `RequestEnd` |

All but the admin's transition read the session without a lock and decide on that object later: a
locking SELECT of an object that the SQLAlchemy session holds already does not refresh it.  `seen` is
that object's status, and `Write` marks a session as `overwritten` when the copy was stale.  A copy
that allows nothing leads to a refusal, which changes nothing, so reading it is no step.

A delivery keeps its row, with its outcome; a call that is over gives its row free, so the number of
calls is unbounded and only those under way at a time are bounded.

Abstracted: `processed_events` (an event of a booking that has its session changes nothing, processed
or not; but the lookup itself may fail, and the delivery be rejected); rubrics (`Prepared`, the bookings whose rubric exists); join tokens, times, connected
seconds and scores; `POST /internal/sessions`, which differs from a delivery in its answer only.
`local_attendance` is `attendance` behind a narrower guard.

### 5.1 Runs

| Run | Bounds | Shows |
|---|---|---|
| `session_race` | 2 bookings, one without rubric, 2 requests at a time, 2 attendance events, 6 admin targets | `OutboxTellsTheInterview`, `FeedbackAnnouncedOnce`, `ReportFitsStatus`, `ArrivalStarts`, `ConfirmedHasSession`, `EndedStaysEnded` |

Sessions share nothing, so one suffices for the races.  Every property relates at most two stale calls,
or two deliveries, and the row; since rows
are reused, any number of calls follow each other.  Deadlock is not checked: when every request was a
delivery the system stops.  No property is a liveness property: no call is bound to happen.

### 5.2 What the model shows besides

* Of two overlapping complete calls the second, slow one writes FEEDBACK_PENDING over
  FEEDBACK_SUBMITTED; the candidate is then shown no report, and it cannot be submitted again.  The
  history variable `overwritten` marks such sessions, and the properties except exactly them.
* An unavailable video provider is a dead letter at once, because `create_session` hides the cause from
  the consumer's list of transient errors.  So is a database connection that breaks in mid-query:
  SQLAlchemy's asyncpg dialect reports it as an InterfaceError or a plain DBAPIError, and the consumer
  requeues only OperationalError and OSError (`workers/events.py:72-81`).  `givenUp` marks both; such a
  booking stays confirmed without a session.
* `attendance` connects participants to sessions in every status, also to one that was cancelled or
  declared a no-show before it started.  `ArrivalStarts` excepts these, and only these.

### 5.3 Proofs

`SessionProofs.tla` proves the type invariant and all six properties of `session_race`, for every set of bookings, requests and notices
and every set of admin targets, from `SessionAssumption` alone.  `IInv` joins the invariants with
`RequestsFit`: what a call has read is behind the row, so a copy that was started belongs to a session whose
start is told; and with `StartsAreTold`: a session that is under way or past that, and not called off, was
announced as started.  This is what `ArrivalStarts` needs: an arrival that finds its copy started does not
start the interview itself.  The lemma `TransitionStep` covers every write of a status but the
feedback's, on fresh and on stale copies; `RequestsStay` covers the requests beside it.  The theorems
say that a stale copy is the only way for status, report and outbox to part.

## 6. auth-service

`Accounts.tla` models `application/auth_service.py` and the consumer of interviewers' lifecycle
events, with the constraints of `domain/models.py`.

| Variable | Code |
|---|---|
| `account` | table `credentials`: verified, access, time of the last lifecycle event |
| `challenge` | table `email_verification_challenges`, a row per mailed link |
| `token` | table `refresh_tokens`: account, family, used, revoked |
| `revokedAccess` | table `revoked_access_tokens` |
| `announced` | how many `auth.EmailVerified.v1` of an account are in the outbox |
| `request` | the calls under way: what they do, the row they locked, the rows their UPDATE will change (`seen`) |
| `acked`, `byAdmin`, `closed`, `stray` | history variables, read by no action |

| Code | Actions |
|---|---|
| `register`, `resend_verification`, `verify_email` | `Register`, `ResendRead` / `ResendCommit`, `VerifyLock` / `VerifyCommit` |
| `login` | `LoginRead`, `LoginCommit` |
| `rotate_refresh_token` | `RotateRead`, `RotateCommit`, `RotateExpired`; a reused token: `ReuseRead`, `ReuseCommit` |
| `logout` | `LogoutRead`, `LogoutCommit` / `LogoutRollback`; with an unknown refresh token `LogoutUnknown` |
| `disable_user` | `DisableRead`, `DisableCommit` |
| `apply_interviewer_access_event` | `EventSkip`, `EventRead`, `EventCommit` |
| any call that fails or dies | `Fail` |

A session runs at READ COMMITTED.  An UPDATE that revokes tokens takes the rows that were committed
when it started, waits for those another call has locked (`MustWait`), and misses the ones inserted
meanwhile.  `LogoutRollback` is a logout whose access token was revoked already: the insert
violates the primary key, the rollback takes the revocation of the family back as well, and the caller
is told that he is logged out.  `LogoutUnknown` revokes the access token alone.

An event whose transaction fails is not acknowledged.  The consumer requeues it only after a lost
connection (`workers/events.py:56`); another error of the driver, such as a deadlock, rejects it to the
dead letters.  `Events` are never bound to be delivered, so both are behaviours of the model.

Abstracted: passwords, signatures and claims (a call presents the token it names); whether a row
has expired or a cooldown has passed is the choice of the call that reads it.  Administrators are
provisioned by a script and are no account of the model.

### 6.1 Runs

| Run | Bounds | Shows |
|---|---|---|
| `accounts_race` | 1 interviewer's account, 3 tokens, 2 links, 2 calls at a time, a suspension and a later approval, 1 access token revoked by `LogoutUnknown` | `OneLiveTokenPerFamily`, `NoAccessNoSession`, `AccessIsTheLatest`, `UnverifiedHasALink` |

Accounts share nothing, and the properties relate two tokens and at most two calls.  Three tokens are two
families of which one rotates, or one family that rotates twice; two events suffice for every order in
which a pair is delivered, early, late or twice.  The run's VIEW leaves `announced` and `closed` out of what
tells states apart: no guard, no other variable and none of its four properties depends on them
(`VerifiedAnnouncedOnce` and `ClosedFamilyIsDead`, which do, are theorems).  Deadlock is not checked: tokens and links are finitely
many, so the system stops.

### 6.2 What the model shows besides

A login or a rotation that has checked the account and commits its token while a revocation runs leaves
a token that the revocation missed (`stray`).  It can be rotated once the account is active again, and in
a closed family at once.  The theorems say that this is the only leak.

### 6.3 Proofs

`AccountsProofs.tla` proves the four properties and five more for every set of accounts, tokens, links,
calls and events, from `AccountsAssumption` alone.  `IInv` joins the types with `RequestsFit`, what a
call has in hand; `LocksExclude`, no two calls hold one row; and one invariant per group of tables:

* `TokenInv` gives `OneToken`, `ClosedIsDead` and `AccessEndsSessions`.  The live token of a family is the
  one a rotation has locked, so two rotations cannot both replace it; a revocation that has read the rows
  waits for that lock, and the token the rotation inserts is stray.
* `AccessInv` gives `LatestEventDecides`: the last event's time is in the row, and an older one is skipped.
* `EmailInv` gives `AnnouncedOnce` and `AlwaysALink`.  A resend consumes only the links it
  saw when its UPDATE started, and inserts its own in the same commit; a verification that consumes the last
  link verifies the account with it.
* `AccessNeverFallsBack` is the action property `AccessMovesOn`: disabled is for ever, the time of the event
  applied last never falls back, and otherwise the access moves only with a later event.  An event is
  compared with the row when its call locks the credential; `RequestsFit` keeps the comparison true until
  the commit.
* `NoTokenComesBack` is the action property `TokensStayDead`: a token that is used up or revoked never
  rotates again, so a live stray token is a new one, never an old one that came back.

`AccountsAssumption` says of the events that no two of an interviewer carry one time and that a deletion is
the last.  For the events interviewer-service writes, `VerificationProofs!EventsFitAccounts` proves it.

## 7. interviewer-service: contacts

`Contact.tla` models the proof of mobile number and company email in
`application/interviewer_service.py`.

| Variable | Code |
|---|---|
| `contact` | table `interviewer_contact_verifications`: value and mark of each kind |
| `check` | table `verification_checks`: the ownership checks |
| `challenge` | table `contact_verification_challenges` |
| `request` | the calls under way and the copy of the contact row they read |
| `answers`, `confirmed`, `overtaken`, `stale` | history variables, read by no action |

| Code | Actions |
|---|---|
| `request_mobile_verification`, `request_company_email_verification` | `AskRead`, `AskFlush`, `AskCommit` |
| `verify_contact_challenge` | `AnswerRead`, `AnswerWrong` / `AnswerRight` |
| a call that fails or dies | `Fail` |

A request reads the contact row without a lock and decides on that copy.  The flush writes the columns
whose value differs from the copy, not from the row, and holds the row until the commit.  An answer
locks its challenge first, which is what makes guesses count.

Abstracted: numbers and addresses are members of a set in canonical form, a secret is the challenge
it belongs to, and expiry and cooldown refuse a call without a change.

### 7.1 Runs

| Run | Bounds | Shows |
|---|---|---|
| `contact` | 1 kind, 2 values, 3 challenges of 2 attempts, 2 calls at a time | `ConfirmedValue`, `CheckAgreesWithMark` |

The kinds differ in names only and share no row a property relates.  Two values and three challenges
are a change and a change back; two calls are a change racing an answer, or two answers racing.

### 7.2 What the model shows besides

* With two challenges open, a change can commit while an answer to the other runs: the new value then
  passes for checked (`overtaken`).
* A change that read the row before it was marked does not see the mark as a difference: it resets the
  check and leaves the mark (`stale`).  The next change of the value repairs it.

### 7.3 Proofs

`ContactProofs.tla` proves both properties and `AttemptsAreBounded` from `ContactAssumption`.  `IInv` is
`TypeOK`, `AttemptsBounded`, `ConfirmedValue`, `CheckAgreesWithMark` and what the rows and the calls have
in hand: `RowsFit`, `AsksFit`, `AnswersFit` and `FreshUnanswered`.  An answer holds its challenge from the
check of the counter to the commit, so no two of them share an attempt; no run is needed for that.

## 8. interviewer-service: review

`Lifecycle.tla` is the promise to the other services: the standing of an interviewer (unverified,
verified, deleted) changes only with the event that announces it, one change after the other.

`Verification.tla` models evidence, screening, review and deletion in
`application/interviewer_service.py`.

| Variable | Code |
|---|---|
| `profile` | table `interviewer_profiles` |
| `row` | `interviewer_verifications.status` |
| `check`, `passed` | table `verification_checks`: the ownership checks and the others |
| `evidence`, `screening` | tables `interviewer_verification_evidence`, `interviewer_screening_calls` |
| `txn` | the decision that holds the profile's lock |
| `clock`, `events` | `occurred_at`, and the lifecycle rows of `outbox_events` |

| Code | Actions |
|---|---|
| `upsert_profile`, `get_verification` | `CreateProfile`, `SeeVerification` |
| the contact proofs of module `Contact` | `Ownership` |
| `upsert_evidence`, `submit_verification` | `UpsertEvidence`, `Submit` |
| `review_linkedin`, `review_evidence`, `record_screening` | `ReviewLinkedin`, `ReviewEvidence`, `RecordScreening` |
| `review_verification` | `UnderReview`, `RequestMoreEvidence`, `Decide` |
| `review`, `reactivate` | `Decide` |
| `delete_interviewer` | `DecideDelete` |
| `_add_event`, the commit and the rollback | `Stamp`, `Commit`, `Abort` |

Every handler but the interviewer's view and the contact calls locks the profile first, so a handler that
announces nothing is one action.  A decision that is announced is three: the lock, the stamp and the commit
are apart because a snapshot can be read between them (section 9).  Two generations of endpoints decide,
one on the verification row, one on the profile; both write both.

### 8.1 Runs

| Run | Bounds | Shows |
|---|---|---|
| `review` | 1 ownership check, 2 types of evidence, 3 lifecycle events | `StatusesAgree`, `VerifiedPassesAll`, `ImplementsLifecycle` |

Two types of evidence let one be verified while the other is rejected or replaced; three events are an
approval, a suspension and a reactivation or a deletion.  Deadlock is not checked: after the last event the
stamps are used up.

### 8.2 Proofs

`VerificationProofs.tla` proves the three properties and the type invariant.  `IInv` is `TypeOK`,
`StatusesAgree`, `ChecksAgree` (theorem `ChecksTellTheRows`: the checks say what evidence and screening say,
however they are replaced and undone) and `DecisionInv`: while an approval holds the profile, the checks it
was decided on stay.  `NobodySlipsThrough` follows, as does `Refinement`: every step is a step of `Lifecycle` or
leaves the standing and the events alone.

The last two theorems are about the committed events, from `EventsInv` and the steps of `Lifecycle` that the
refinement gives: `LatestEventTells` (the event with the latest stamp tells the standing) and
`EventsFitAccounts` (stamps order the events, the deletion last).  They hold because a decision keeps the profile
locked from before its stamp to its commit, and nobody decides about a deleted interviewer.

## 9. booking-service's copy of the interviewer

`Trust.tla` composes `Lifecycle` with `application/availability.py` and
`workers/events.py`, `workers/maintenance.py` of booking-service, and with the bookings that a deletion
asks for.

| Variable | Code |
|---|---|
| those of `Lifecycle` | interviewer-service, as `Verification` implements it |
| `elig` | table `interviewer_eligibility`; `stale` is history: its writer had overtaken a change |
| `processed` | table `processed_events` |
| `sync` | the snapshot the maintenance worker has in hand |
| `booking`, `late` | the bookings with the interviewer; history: those committed after a deletion had counted |

| Code | Actions |
|---|---|
| `handle`, `set_interviewer_eligibility` | `Deliver` |
| `availability_snapshot`, `synchronize` | `SyncObserve`, `SyncRead`, `SyncWrite`, `SyncFail` |
| `hold`, `create_booking` (what they read of the copy) | `Hold`, `CreateRead`, `CreateCommit`, `End` |
| `delete_interviewer` with `active_interviewer_bookings` | `InterviewerStep` with `MayDelete` |

Both sources carry a time, and the later one wins.  The event stamped e has the time 2e; a snapshot that
is observed between that stamp and the next has the time 2e + 1.  An event may be delivered late, twice,
out of order or never.

### 9.1 Runs

| Run | Bounds | Shows |
|---|---|---|
| `trust` | 3 events, 1 booking, deadlock checked, fairness | `KnownUnlessPending`, `DeletedHasNoBookings`, `Converges` |

Three events in every order of delivery, each beside a snapshot, cover an approval and a suspension that
cross with a deletion; bookings of different candidates do not interact here.

Fairness (`TrustFairSpec`): the maintenance worker loops for ever (`workers/maintenance.py`), and the
services answer it again and again.  Nothing is assumed of events or of administrators, so `Converges`
shows that the snapshots alone repair the copy.

### 9.2 What the model shows besides

* A snapshot read between the stamp of a change and its commit has a later time than the change, so the
  change's own event does not count any more; until the next snapshot the copy is wrong (`stale`).
* A booking whose request had read the copy before, or that booking-service accepts before it hears of the
  deletion, can be committed after the deletion has counted (`late`).

### 9.3 Proofs

`TrustProofs.tla` proves first that `LInv` is an invariant of `Lifecycle`: `TypeOK`,
`LatestTellsTheStanding` (whoever orders the events by time ends with the standing), `StampsGrow` and
`StandingInv`; this is `StampsTellTheStanding`.  `IInv` adds `TrustTypeOK`, `CopyInv`, `SyncInv`,
`KnownUnlessPending` and `BookingInv`: a processed event has reached the copy, and a snapshot in hand that is
not the standing any more was read too early for a change or is older than that change's event.  It gives `CopyIsKnown` and `DeletionIsClean`.  `TrustKeepsLifecycle`
says that the composition adds nothing to `Lifecycle`: together with `VerificationProofs!Refinement`, the
copy and the review agree on what an event means.  `Converges` stays with TLC.

## 10. Outboxes, broker and notification-service

`Outbox.tla` models `publish_pending` and the publisher loops of the services (five copies of one code,
`application/outbox.py`), and the exchange and one durable queue.  `Notification.tla` extends it with
`application/notification_service.py`, `workers/consumer.py`, `domain/templates.py` and the providers.

| Variable | Code |
|---|---|
| `outbox`, `published` | table `outbox_events`: types, and the rows with `published_at` |
| `pub` | the publishers: rest of the batch, whether the read's locks stand, the row in work |
| `bound`, `queue`, `arrived` | the broker (external) |
| `note` | table `notifications`, a row per event and channel |
| `processed`, `letters`, `exhausted` | tables `processed_events`, `dead_letter_records` (of events, of notifications) |
| `rejected` | the dead-letter queue of the broker |
| `worker` | the handlers and the retry loop |
| `accepted` | the providers (external): how often each message was taken |
| `faults`, `unheard`, `excused`, `unreachable` | the bound on faults; history: events no queue was bound for; sendings the code could not know of; events given up because user-service had no address |

| Code | Actions |
|---|---|
| a business transaction | `Write` |
| `publish_pending` | `Select`, `Publish`, `Commit`, `Abandon` |
| the consumer's start | `Bind` |
| `handle`, `consume` | `Take`, `Requeue`, `Reject`, `DeadLetter`, `Store` |
| `deliver` | `Send`, `Record` |
| `retry_loop`, `retry_due` | `SelectDue`, `Skip` |
| time | `Tick` |
| faults | `Crash`, `Redeliver`, `LoopFails` |

The first commit of a batch releases the locks of all of it, so two publishers (a rollout runs the old
and the new one together) can publish one row twice.  The events are numbered by `occurred_at`, taken
before the transaction commits.  A handler delivers the objects of its own session: SELECT FOR UPDATE
does not refresh them, so they are PENDING and unattempted whatever the row says.  An e-mail carries an
idempotency key; a WhatsApp message does not, and is taken again.  User-service, which is asked for the
addresses of a candidate, may know an e-mail address, a telephone number, both, or neither: both columns
are nullable, and without any the event is a dead letter (`NobodyToTell`).

### 10.1 Runs

| Run | Bounds | Shows |
|---|---|---|
| `delivery` | 1 event of 3 types, 2 copies in the queue, 1 fault, 2 publishers with batches of 1, 2 handlers, 2 channels, 2 attempts, fairness | `OneOutcome`, `TwiceOnlyExcused`, `EveryEventEnds`, `EveryNotificationEnds` |
| `payloads` | 1 event of the same types, 1 publisher, 1 handler, no fault | `PayloadsSuffice` is violated |

Events meet only in a publisher's batch, and what batches promise is proved (`PublishedInOrder`,
`PublishedHasArrived`), so one event suffices here.  Two copies, two handlers and the loop are every
overlap in which one event is processed or one notification is delivered; one fault may strike at any
step; two attempts let a delivery fail, be retried and be given up.  The three types are one that is told, one
that lacks a field and one that lacks a recipient.  Deadlock is not checked: events and attempts
are finitely many.

Fairness (`NotificationFairSpec`): publishers, handlers and the loop run for ever, the broker hands out what
it has, and time passes.  Nothing is assumed of the providers, which may refuse every message, and faults
end (`MaxFaults`).

### 10.2 What the code does against its documentation, and what else the model shows

* `PayloadsSuffice`: notification-service's `README.md:11` says that producers write a recipient and the
  fields of the template into the payload.  The template of a confirmed booking
  (`app/domain/templates.py:32-37`) needs `recipient_name`, which the payload that booking-service writes
  (`_event`, `booking_service.py:448-468`) does not have: every `booking.confirmed.v1` ends as a dead
  letter.  `tests/test_notification.py` uses a payload that has it.  Payment events
  (`payment_service.py:395-409`) name neither an address nor a candidate, so their recipient is missing.
  `docs/frontend-user-guide.md:147` lists both among the notifications.  Beside these events only those
  whose candidate has no address go untold, which the theorem `OthersAreTold` states for every instance.
* A handler that delivers after the retry loop has done so sends again and overwrites a final status
  (`excused`); `FinalStays` says that nothing else does.
* An event that is published before the consumer first binds its queue is dropped by the exchange and marked
  published (`unheard`).

### 10.3 Proofs

`NotificationProofs.tla` proves, for every number of events, publishers, handlers, channels, faults and
attempts, that `NInv` is inductive: the types, `OutboxInv` (what a publisher has in hand), `WorkerFits`,
`LocksApart` (no two workers hold one notification), `RowFits` and `QueueFits`, and the properties
`NothingLost`, `OneOutcome`, `TwiceOnlyExcused`, `StatusTellsTheSending` and `OnlyTheseGoUntold`.
`NothingLost` is what the at-least-once chain rests on: a message is in the queue, in a hand, processed or
rejected.  Besides the theorems of these names there are two on publishers: `PublishedHasArrived`,
a row is marked only when the exchange took it, through every crash and overlap; and `PublishedInOrder`,
a publisher never sends a row before an older one that its read could take.

## 11. What is only model-checked

Liveness needs fairness, which is stated with ENABLED and is out of the prover's reach:
`ExpiredHoldIsFreed`, `RefundIsSettled`, `Converges`, `EveryEventEnds`,
`EveryNotificationEnds`.  `TerminalIsFinal` and `PayloadsSuffice` are violated, and
`BookingProofs!EndedStaysEnded` and `OthersAreTold` prove how far.  Every other
property of a run is also proved, for all values of the constants.

The other way round, some properties belong to no run, because a theorem covers every instance a run could:
the inductive invariants, and among others `OnlyTheseGoUntold`, `MovesOn`, `EndedUnlessStale`, `AccessMovesOn`, `TokensStayDead`,
`EventsAreOrdered` and `ChecksAgree`.  TLC found no counterexample to them on the instances of the runs.

## 12. Not modelled

* api-gateway: the proxy keeps no state; the rate limit is one counter in Redis per client and minute.
* user-service: one row and one stored object per candidate, each written by one handler.
* Weekly rules, blockouts and the windows they give: rows that one request writes and a computation over
  dates.  `Booking` takes the windows of a snapshot as an input.
* The composition of payment-service and booking-service: `Payment` ends at its outbox, `Booking` takes the
  events as inputs.  So no property covers the refund in parts, whose amount booking-service refuses
  (`booking_service.py:357`).
* Rubrics (a constant of `Session`), profile texts and skills, a reader's marking of a notification as read,
  the log of delivery attempts, audit tables: written in one transaction, read by no decision modelled here.
* `libs/roundready_common`, the frontend and the infrastructure code hold no state of the services; metrics,
  logging, telemetry and request schemas change none.

Hazards without a property: the refund in parts above, the slot that a cancellation makes
available though the interviewer has blocked the time (`booking_service.py:319`, needs the windows), and the
booking whose payment event never comes (`booking_service.py:217`), which no mechanism of the code ends.
Guesses sent at the same time (`interviewer_service.py:144`) are covered by a theorem and no run.

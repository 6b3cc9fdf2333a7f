------------------------------ MODULE Payment ------------------------------
(***************************************************************************)
(* payment-service: orders, webhooks and refunds.                          *)
(*                                                                         *)
(* A candidate opens an order for a booking at the payment provider, tries *)
(* to pay it (each try is a payment of the provider, here an attempt), and *)
(* the provider tells the service by webhooks what became of the attempts  *)
(* and of the refunds an admin asks for.                                   *)
(*                                                                         *)
(* Concurrency.  Orders of one booking wait for each other on an advisory  *)
(* lock; webhooks and refunds of one payment on its row.  The calls to the *)
(* provider are made inside the transaction: between the call and the      *)
(* commit the process may die, and the answer may be lost.                 *)
(***************************************************************************)
EXTENDS Integers, Sequences, FiniteSets

CONSTANTS
    Bookings,       \* table payments has one row per booking (unique booking_id)
    Requests,       \* create_order requests
    Keys,           \* Idempotency-Key values, of the candidate of the bookings
    Attempts,       \* provider_payment_id: the provider's payments
    Refunds,        \* refunds.id, and the provider's refund of that request
    Price,          \* session_price_paise
    Amounts,        \* bound: the refund amounts an admin asks for
    Development,    \* PAYMENT_PROVIDER=development: no network, no attempts
    DevelopmentRef, \* the provider_payment_id of the development provider
    None

ASSUME PaymentAssumption ==
    /\ Price \in Nat \ {0}
    /\ Amounts \subseteq 1..Price
    /\ Development \in BOOLEAN
    /\ None \notin Keys \cup Attempts \cup Bookings
    /\ DevelopmentRef \notin Attempts
    /\ IsFiniteSet(Refunds)

\* Webhooks of attempts and of refunds have different event ids.
ASSUME HookAssumption ==
    \A f \in Refunds : f \notin Attempts \X {"authorized", "captured", "failed"}

VARIABLES
    payment,    \* table payments
    refund,     \* table refunds, and the request that is inserting the row
    webhook,    \* table webhook_events: the processing status of the provider's event;
                \* DROPPED is FAILED, and the provider sends the event no more
    outbox,     \* per booking, its rows in outbox_events, oldest first
    request,    \* the requests running create_order
    attempt,    \* provider: the attempts and what happened to them
    paidBack,   \* provider: what it answered to a refund, and what became of it
    strayed,    \* history: payments whose reference a refused webhook has replaced
    unanswered  \* history: refunds the provider took on without the service knowing

vars == <<payment, refund, webhook, outbox, request, attempt, paidBack, strayed,
          unanswered>>

-----------------------------------------------------------------------------
(* Rows and requests.                                                      *)

PaymentStatus == {"CREATED", "PENDING", "AUTHORIZED", "CAPTURED", "FAILED",
                  "REFUND_PENDING", "REFUNDED", "PARTIALLY_REFUNDED"}

PaymentRow == [status : PaymentStatus \cup {"absent"}, key : Keys \cup {None},
               order : {"none", "open"}, ref : Attempts \cup {DevelopmentRef, None}]

RefundRow == [status : {"absent", "asked", "gone", "PENDING", "PROCESSED", "FAILED"},
              booking : Bookings \cup {None}, amount : Nat]

AttemptEvent == {"authorized", "captured", "failed"}

\* What the provider sends webhooks about: the events of attempts, and processed refunds.
Hook == (Attempts \X AttemptEvent) \cup Refunds

HookStatus == {"absent", "PROCESSED", "FAILED", "DROPPED"}

\* The answer processed, or the answer pending and later settled or returned as failed,
\* or the answer failed.
Back == {"no", "processed", "pending", "settled", "returned", "failed"}

PaidOut == {"processed", "settled"}

AttemptRow == [booking : Bookings \cup {None}, events : SUBSET AttemptEvent]

Event == [type : {"captured", "failed", "refunded"}, amount : Nat]

OrderRequest == [pc : {"idle", "looked", "inserted", "done"},
                 booking : Bookings \cup {None}, key : Keys \cup {None}]

TypeOK ==
    /\ payment \in [Bookings -> PaymentRow]
    /\ refund \in [Refunds -> RefundRow]
    /\ webhook \in [Hook -> HookStatus]
    /\ outbox \in [Bookings -> Seq(Event)]
    /\ request \in [Requests -> OrderRequest]
    /\ attempt \in [Attempts -> AttemptRow]
    /\ paidBack \in [Refunds -> Back]
    /\ strayed \subseteq Bookings
    /\ unanswered \subseteq Refunds

Init ==
    /\ payment = [b \in Bookings |-> [status |-> "absent", key |-> None,
                                      order |-> "none", ref |-> None]]
    /\ refund = [f \in Refunds |-> [status |-> "absent", booking |-> None, amount |-> 0]]
    /\ webhook = [e \in Hook |-> "absent"]
    /\ outbox = [b \in Bookings |-> <<>>]
    /\ request = [r \in Requests |-> [pc |-> "idle", booking |-> None, key |-> None]]
    /\ attempt = [a \in Attempts |-> [booking |-> None, events |-> {}]]
    /\ paidBack = [f \in Refunds |-> "no"]
    /\ strayed = {}
    /\ unanswered = {}

-----------------------------------------------------------------------------
(* Helpers.                                                                *)

Status(b) == payment[b].status

Announce(b, type, amount) ==
    outbox' = [outbox EXCEPT ![b] = Append(@, [type |-> type, amount |-> amount])]

\* The refunds of a payment that are PROCESSED, and what they sum up to.
ProcessedRefunds(b) ==
    {f \in Refunds : refund[f].booking = b /\ refund[f].status = "PROCESSED"}

\* Sums are counted unit by unit, which keeps them within the theorems about finite sets.
\* No amount exceeds the price.
Units(amount, S) == {u \in S \X (1..Price) : u[2] <= amount[u[1]]}

Total(amount, S) == Cardinality(Units(amount, S))

Amount == [f \in Refunds |-> refund[f].amount]

Refunded(b) == Total(Amount, ProcessedRefunds(b))

\* The provider sends an event until a delivery is answered with success.
Sent(e) == webhook[e] \notin {"PROCESSED", "DROPPED"}

\* The mark of a refused delivery, which the provider repeats.  The first one inserts the
\* event's row: a delivery that overlaps it fails on the unique id, is answered with
\* success as a duplicate, and the provider is done with an event that was refused.
RefusedMark(e) == IF webhook[e] = "absent" THEN {"FAILED", "DROPPED"} ELSE {"FAILED"}

\* A refund request holds the lock of the payment's row while the provider works.
RowLocked(b) == \E f \in Refunds : refund[f].status = "asked" /\ refund[f].booking = b

-----------------------------------------------------------------------------
(* create_order                                                            *)

\* Take the advisory lock of the booking.  A payment found under the key, or an open
\* one of the booking, is returned (or the key refused) and nothing changes.
OrderLookup(r, b, k) ==
    /\ request[r].pc = "idle"
    /\ \A q \in Requests : request[q].pc \in {"looked", "inserted"} => request[q].booking # b
    /\ \A c \in Bookings : payment[c].key # k
    /\ Status(b) \notin {"PENDING", "AUTHORIZED", "CAPTURED"}
    /\ request' = [request EXCEPT ![r] = [pc |-> "looked", booking |-> b, key |-> k]]
    /\ UNCHANGED <<payment, refund, webhook, outbox, attempt, paidBack, strayed, unanswered>>

\* Mutant: the unique constraints are missing.
OrderInsertAnyway(r) ==
    /\ request[r].pc = "looked"
    /\ request' = [request EXCEPT ![r].pc = "inserted"]
    /\ UNCHANGED <<payment, refund, webhook, outbox, attempt, paidBack, strayed, unanswered>>

\* booking-service validates the booking (its refusal ends the request), and the row is
\* inserted: an uncommitted row with the same key makes the request wait, a committed
\* row of the booking or the key ends it.
OrderInsert(r) ==
    LET b == request[r].booking
        k == request[r].key
    IN /\ request[r].pc = "looked"
       /\ \A q \in Requests : request[q].pc = "inserted" => request[q].key # k
       /\ request' = [request EXCEPT ![r].pc =
                        IF Status(b) # "absent" \/ \E c \in Bookings : payment[c].key = k
                        THEN "done" ELSE "inserted"]
       /\ UNCHANGED <<payment, refund, webhook, outbox, attempt, paidBack, strayed,
                      unanswered>>

\* The validation refuses, or the process dies before its commit.
OrderEnd(r) ==
    /\ request[r].pc \in {"looked", "inserted"}
    /\ request' = [request EXCEPT ![r].pc = "done"]
    /\ UNCHANGED <<payment, refund, webhook, outbox, attempt, paidBack, strayed, unanswered>>

OrderOpen(r) ==
    /\ request[r].pc = "inserted"
    /\ payment' = [payment EXCEPT ![request[r].booking] =
                    [status |-> "PENDING", key |-> request[r].key, order |-> "open",
                     ref |-> None]]
    /\ request' = [request EXCEPT ![r].pc = "done"]
    /\ UNCHANGED <<refund, webhook, outbox, attempt, paidBack, strayed, unanswered>>

\* The provider refused, or its answer was lost or made no sense.
OrderFail(r) ==
    /\ request[r].pc = "inserted"
    /\ payment' = [payment EXCEPT ![request[r].booking] =
                    [status |-> "FAILED", key |-> request[r].key, order |-> "none",
                     ref |-> None]]
    /\ Announce(request[r].booking, "failed", Price)
    /\ request' = [request EXCEPT ![r].pc = "done"]
    /\ UNCHANGED <<refund, webhook, attempt, paidBack, strayed, unanswered>>

-----------------------------------------------------------------------------
(* The provider and its webhooks                                           *)

\* The candidate starts to pay an open order (external).
StartAttempt(a, b) ==
    /\ ~Development
    /\ attempt[a].booking = None
    /\ payment[b].order = "open"
    /\ attempt' = [attempt EXCEPT ![a].booking = b]
    /\ UNCHANGED <<payment, refund, webhook, outbox, request, paidBack, strayed, unanswered>>

\* An attempt is authorized, then captured, or it fails; an order is paid once (external).
AttemptMoves(a, type) ==
    /\ attempt[a].booking # None
    /\ type \notin attempt[a].events
    /\ attempt[a].events \cap {"captured", "failed"} = {}
    /\ type = "captured" => \A o \in Attempts :
            attempt[o].booking = attempt[a].booking => "captured" \notin attempt[o].events
    /\ attempt' = [attempt EXCEPT ![a].events = @ \cup {type}]
    /\ UNCHANGED <<payment, refund, webhook, outbox, request, paidBack, strayed, unanswered>>

\* Mutant: an authorization is taken for a capture.
WebhookTargetEager(type) == IF type = "failed" THEN "FAILED" ELSE "CAPTURED"

WebhookTarget(type) ==
    CASE type = "authorized" -> "AUTHORIZED"
      [] type = "captured"   -> "CAPTURED"
      [] type = "failed"     -> "FAILED"

\* Mutants: a payment that failed once may still be captured, a late authorization
\* undoes a capture, an authorized payment is not captured.
AllowedAfterFailure(st) ==
    CASE st = "PENDING"    -> {"AUTHORIZED", "CAPTURED", "FAILED"}
      [] st = "AUTHORIZED" -> {"CAPTURED", "FAILED"}
      [] st = "FAILED"     -> {"CAPTURED"}
      [] OTHER             -> {}

AllowedBackwards(st) ==
    CASE st = "PENDING"    -> {"AUTHORIZED", "CAPTURED", "FAILED"}
      [] st = "AUTHORIZED" -> {"CAPTURED", "FAILED"}
      [] st = "CAPTURED"   -> {"AUTHORIZED"}
      [] OTHER             -> {}

AllowedFromPending(st) ==
    IF st = "PENDING" THEN {"AUTHORIZED", "CAPTURED", "FAILED"} ELSE {}

Allowed(st) ==
    CASE st = "PENDING"    -> {"AUTHORIZED", "CAPTURED", "FAILED"}
      [] st = "AUTHORIZED" -> {"CAPTURED", "FAILED"}
      [] OTHER             -> {}

\* process_webhook for an attempt's event the provider sends, again and in any order.  The
\* reference is written first; a refused transition is committed with the webhook's
\* FAILED mark, reference included.
Webhook(a, type) ==
    LET b      == attempt[a].booking
        target == WebhookTarget(type)
        taken  == target \in Allowed(Status(b))
        same   == target = Status(b)
    IN /\ type \in attempt[a].events
       /\ Sent(<<a, type>>)
       /\ ~RowLocked(b)
       /\ payment' = [payment EXCEPT ![b] =
                        [status |-> IF taken THEN target ELSE @.status, key |-> @.key,
                         order |-> @.order, ref |-> a]]
       /\ \E mark \in IF taken \/ same THEN {"PROCESSED"} ELSE RefusedMark(<<a, type>>) :
              webhook' = [webhook EXCEPT ![<<a, type>>] = mark]
       /\ IF taken /\ type \in {"captured", "failed"}
          THEN Announce(b, type, Price)
          ELSE UNCHANGED outbox
       /\ strayed' = IF taken \/ payment[b].ref = a THEN strayed ELSE strayed \cup {b}
       /\ UNCHANGED <<refund, request, attempt, paidBack, unanswered>>

\* complete_development_payment, once booking-service has validated the booking.
DevelopmentComplete(b) ==
    /\ Development
    /\ Status(b) = "PENDING"
    /\ ~RowLocked(b)
    /\ payment' = [payment EXCEPT ![b] =
                    [status |-> "CAPTURED", key |-> @.key, order |-> @.order,
                     ref |-> DevelopmentRef]]
    /\ Announce(b, "captured", Price)
    /\ UNCHANGED <<refund, webhook, request, attempt, paidBack, strayed, unanswered>>

-----------------------------------------------------------------------------
(* refund                                                                  *)

Refundable(b, amount) ==
    /\ Status(b) \in {"CAPTURED", "PARTIALLY_REFUNDED"}
    /\ amount <= Price - Refunded(b)
    /\ payment[b].ref # None

\* Lock the payment, check, insert the row and call the provider; nothing is committed.
RefundAsk(f, b, amount) ==
    /\ refund[f].status = "absent"
    /\ ~RowLocked(b)
    /\ Refundable(b, amount)
    /\ refund' = [refund EXCEPT ![f] = [status |-> "asked", booking |-> b,
                                        amount |-> amount]]
    /\ UNCHANGED <<payment, webhook, outbox, request, attempt, paidBack, strayed,
                   unanswered>>

\* The provider answers the refund of a captured attempt: processed, pending or failed
\* (external).  It never pays more than it took.
ProviderPays(f, how) ==
    LET ref  == payment[refund[f].booking].ref
        back == {g \in Refunds : /\ paidBack[g] \in {"processed", "pending", "settled"}
                                 /\ refund[g].booking = refund[f].booking}
    IN /\ refund[f].status = "asked"
       /\ paidBack[f] = "no"
       /\ \/ Development /\ how = "processed"
          \/ /\ ref \in Attempts /\ "captured" \in attempt[ref].events
             /\ refund[f].amount + Total(Amount, back) <= Price
       /\ paidBack' = [paidBack EXCEPT ![f] = how]
       /\ UNCHANGED <<payment, refund, webhook, outbox, request, attempt, strayed,
                      unanswered>>

\* A pending refund reaches the candidate's account, or comes back (external).  The
\* event refund.failed is unsupported: it is marked IGNORED, and that is all.
ProviderSettles(f, end) ==
    /\ paidBack[f] = "pending"
    /\ paidBack' = [paidBack EXCEPT ![f] = end]
    /\ UNCHANGED <<payment, refund, webhook, outbox, request, attempt, strayed, unanswered>>

\* Mutant: any processed refund closes the payment.
RefundTargetFull(total) == "REFUNDED"

\* The payment's status once refunds of it sum up to total.
RefundTarget(total) ==
    IF total = Price THEN "REFUNDED" ELSE "PARTIALLY_REFUNDED"

\* Mark refund f processed, the payment with it, and announce the amount.
Settle(f) ==
    LET b == refund[f].booking
    IN /\ refund' = [refund EXCEPT ![f].status = "PROCESSED"]
       /\ payment' = [payment EXCEPT ![b].status =
                        RefundTarget(Refunded(b) + refund[f].amount)]
       /\ Announce(b, "refunded", refund[f].amount)

\* Mutant: an accepted refund counts as processed.
RefundAnswerEager(f) ==
    /\ refund[f].status = "asked"
    /\ paidBack[f] # "no"
    /\ Settle(f)
    /\ UNCHANGED <<webhook, request, attempt, paidBack, strayed, unanswered>>

\* The provider's answer: processed, or anything else, which counts as pending, also
\* when it says failed.
RefundAnswer(f) ==
    /\ refund[f].status = "asked"
    /\ \/ paidBack[f] = "processed" /\ Settle(f)
       \/ /\ paidBack[f] \notin {"no", "processed"}
          /\ refund' = [refund EXCEPT ![f].status = "PENDING"]
          /\ payment' = [payment EXCEPT ![refund[f].booking].status = "REFUND_PENDING"]
          /\ UNCHANGED outbox
    /\ UNCHANGED <<webhook, request, attempt, paidBack, strayed, unanswered>>

\* An exception of the call: the provider refused, or its answer was lost.
RefundFail(f) ==
    /\ refund[f].status = "asked"
    /\ refund' = [refund EXCEPT ![f].status = "FAILED"]
    /\ payment' = [payment EXCEPT ![refund[f].booking].status = "CAPTURED"]
    /\ unanswered' = IF paidBack[f] = "no" THEN unanswered ELSE unanswered \cup {f}
    /\ UNCHANGED <<webhook, outbox, request, attempt, paidBack, strayed>>

\* The process dies during the call: the row was never committed.
RefundCrash(f) ==
    /\ refund[f].status = "asked"
    /\ refund' = [refund EXCEPT ![f].status = "gone"]
    /\ unanswered' = IF paidBack[f] = "no" THEN unanswered ELSE unanswered \cup {f}
    /\ UNCHANGED <<payment, webhook, outbox, request, attempt, paidBack, strayed>>

\* Mutant: the webhook is taken only while the payment is captured.
RefundWebhookOfCaptured(f) ==
    /\ paidBack[f] \in PaidOut
    /\ Sent(f)
    /\ refund[f].status = "PENDING"
    /\ Status(refund[f].booking) = "CAPTURED"
    /\ Settle(f)
    /\ webhook' = [webhook EXCEPT ![f] = "PROCESSED"]
    /\ UNCHANGED <<request, attempt, paidBack, strayed, unanswered>>

\* The webhook refund.processed.  A refund that is already processed is left alone.
RefundWebhook(f) ==
    /\ paidBack[f] \in PaidOut
    /\ Sent(f)
    /\ refund[f].status = "PENDING"
    /\ Settle(f)
    /\ webhook' = [webhook EXCEPT ![f] = "PROCESSED"]
    /\ UNCHANGED <<request, attempt, paidBack, strayed, unanswered>>

\* The service does not know the provider's id of the refund: the answer was lost, or its
\* commit is still to come.  The webhook is refused with 503.
RefundWebhookRefused(f) ==
    /\ paidBack[f] \in PaidOut
    /\ Sent(f)
    /\ refund[f].status \in {"asked", "gone", "FAILED"}
    /\ \E mark \in RefusedMark(f) : webhook' = [webhook EXCEPT ![f] = mark]
    /\ UNCHANGED <<payment, refund, outbox, request, attempt, paidBack, strayed,
                   unanswered>>

-----------------------------------------------------------------------------

OrderNext(r) ==
    \/ \E b \in Bookings, k \in Keys : OrderLookup(r, b, k)
    \/ OrderInsert(r)
    \/ OrderEnd(r)
    \/ OrderOpen(r)
    \/ OrderFail(r)

AttemptNext(a) ==
    \/ \E b \in Bookings : StartAttempt(a, b)
    \/ \E type \in AttemptEvent : AttemptMoves(a, type) \/ Webhook(a, type)

RefundNext(f) ==
    \/ \E b \in Bookings, amount \in Amounts : RefundAsk(f, b, amount)
    \/ \E how \in {"processed", "pending", "failed"} : ProviderPays(f, how)
    \/ \E end \in {"settled", "returned"} : ProviderSettles(f, end)
    \/ RefundAnswer(f)
    \/ RefundFail(f)
    \/ RefundCrash(f)
    \/ RefundWebhook(f)
    \/ RefundWebhookRefused(f)

Next ==
    \/ \E r \in Requests : OrderNext(r)
    \/ \E a \in Attempts : AttemptNext(a)
    \/ \E f \in Refunds : RefundNext(f)
    \/ \E b \in Bookings : DevelopmentComplete(b)

Spec == Init /\ [][Next]_vars

\* Fairness.  The provider sends refund.processed until a delivery is answered with success,
\* and a call to it ends (the client has a timeout of ten seconds).  Nothing is assumed
\* about when, or whether, it pays a pending refund, or about the webhooks of attempts.
FairSpec ==
    /\ Spec
    /\ \A f \in Refunds :
          /\ WF_vars(RefundWebhook(f))
          /\ WF_vars(RefundAnswer(f) \/ RefundFail(f) \/ RefundCrash(f))

-----------------------------------------------------------------------------
(* Properties                                                              *)

Unpaid == {"absent", "CREATED", "PENDING", "AUTHORIZED"}

Paid == {"CAPTURED", "REFUND_PENDING", "REFUNDED", "PARTIALLY_REFUNDED"}

\* The amounts that the outbox announces for booking b.
Told(b) == [i \in DOMAIN outbox[b] |-> outbox[b][i].amount]

\* What the outbox has told about a payment fits its status and its refunds: nothing
\* while it is open, failed once and nothing else, or captured once and then refunds
\* that sum up to the processed ones (booking-service knows nothing else).
OutboxTellsTheMoney ==
    \A b \in Bookings :
        /\ Status(b) \in Unpaid => outbox[b] = <<>>
        /\ Status(b) = "FAILED" => outbox[b] = <<[type |-> "failed", amount |-> Price]>>
        /\ Status(b) \in Paid =>
              /\ outbox[b] # <<>> /\ outbox[b][1].type = "captured"
              /\ \A i \in 2..Len(outbox[b]) : outbox[b][i].type = "refunded"
              /\ Total(Told(b), 2..Len(outbox[b])) = Refunded(b)

PendingRefunds(b) ==
    {f \in Refunds : refund[f].booking = b /\ refund[f].status = "PENDING"}

\* The status of a payment, its refund rows and the price agree, whichever of the answer,
\* the webhook, a failure and a crash ended each refund: REFUNDED is exactly the whole
\* price, a pending refund is alone, and with it the refunds stay within the price.
StatusTellsTheRefunds ==
    \A b \in Bookings :
        /\ Status(b) = "REFUNDED" <=> Refunded(b) = Price
        /\ Status(b) = "PARTIALLY_REFUNDED" => Refunded(b) \in 1..(Price - 1)
        /\ Status(b) = "REFUND_PENDING" <=> PendingRefunds(b) # {}
        /\ \A f, g \in PendingRefunds(b) : f = g /\ Refunded(b) + refund[f].amount <= Price

\* A payment counts as captured only when the provider captured an attempt of its order,
\* and unless a refused webhook has replaced the reference, the payment refers to that
\* attempt, which is the one a refund will name (_apply_webhook, line 234).
CapturedIsPaid ==
    \A b \in Bookings :
        Status(b) \in Paid /\ ~Development =>
            /\ \E a \in Attempts :
                  attempt[a].booking = b /\ "captured" \in attempt[a].events
            /\ b \notin strayed => "captured" \in attempt[payment[b].ref].events

\* A refund the service shows as processed has been paid by the provider, and one it shows
\* as pending was answered with another status than processed: accepted for later, or
\* failed, which the service does not tell apart.  The provider has taken on no refund
\* the service shows as failed, or has no row of, unless its answer was lost.
RecordedRefundIsPaid ==
    \A f \in Refunds :
        /\ refund[f].status = "PROCESSED" => paidBack[f] \in PaidOut
        /\ refund[f].status = "PENDING" => paidBack[f] \notin {"no", "processed"}
        /\ refund[f].status \in {"FAILED", "gone"} /\ f \notin unanswered
              => paidBack[f] = "no"

\* The row of a payment is inserted once: no later request, whatever it read before, gives
\* a booking another order or key, and a key stays with one booking.
OrderIsNeverReplaced ==
    [][\A b \in Bookings :
         /\ Status(b) # "absent" =>
                payment'[b].key = payment[b].key /\ payment'[b].order = payment[b].order
         /\ Status(b) = "absent" /\ payment'[b].key # None =>
                \A c \in Bookings : payment[c].key # payment'[b].key]_vars

\* No capture is lost between its webhook and the payment, whatever the event overtakes:
\* once a delivery of it was handled, taken or refused, the payment is paid.  The one
\* exception: the failure of another attempt at the same order was recorded first.  That
\* closes the payment, the capture is refused for ever, also after the provider stopped
\* sending it, and only the provider knows of the money (_apply_webhook, line 242).
CaptureIsRecorded ==
    \A b \in Bookings, a \in Attempts :
        attempt[a].booking = b /\ webhook[<<a, "captured">>] # "absent" =>
            \/ Status(b) \in Paid
            \/ /\ Status(b) = "FAILED"
               /\ \E o \in Attempts \ {a} :
                     attempt[o].booking = b /\ webhook[<<o, "failed">>] = "PROCESSED"

\* A refund that is pending here and that the provider has paid since is settled by its
\* webhook, unless that arrived before the refund's own commit, was refused, and an
\* overlapping delivery made the provider stop.  (One the provider fails stays pending.)
RefundIsSettled ==
    \A f \in Refunds :
        refund[f].status = "PENDING" /\ paidBack[f] \in PaidOut
            ~> refund[f].status = "PROCESSED" \/ webhook[f] = "DROPPED"

-----------------------------------------------------------------------------
(* The ledger payment-service implements.                                  *)

Account(b) ==
    [state |-> CASE Status(b) \in Unpaid -> "open"
                 [] Status(b) = "FAILED" -> "failed"
                 [] OTHER -> "captured",
     back |-> Refunded(b)]

Accounts == INSTANCE Ledger WITH account <- [b \in Bookings |-> Account(b)]

\* Orders, webhooks in any order, refunds, lost answers and crashes together do no more
\* than take the price once and pay back within it.
ImplementsLedger == Accounts!Spec

=============================================================================

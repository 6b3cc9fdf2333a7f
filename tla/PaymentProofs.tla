--------------------------- MODULE PaymentProofs ---------------------------
(***************************************************************************)
(* Theorems about Payment for every set of bookings, requests, keys,       *)
(* attempts and refunds, and every price.                                  *)
(***************************************************************************)
EXTENDS Payment, FiniteSetTheorems, TLAPS

-----------------------------------------------------------------------------
(* The strengthening: what running requests have in hand.                  *)

\* A request past its lookup has a booking and a key.
RequestOK ==
    \A r \in Requests :
        request[r].pc # "idle" => /\ request[r].booking \in Bookings
                                  /\ request[r].key \in Keys

\* The advisory lock and the unique constraints: no two open requests have one booking,
\* no two inserted rows one key, and an inserted row is new.
OrderOK ==
    /\ \A r, q \in Requests :
          /\ request[r].pc \in {"looked", "inserted"}
          /\ request[q].pc \in {"looked", "inserted"}
          /\ request[r].booking = request[q].booking
          => r = q
    /\ \A r, q \in Requests :
          request[r].pc = "inserted" /\ request[q].pc = "inserted"
            /\ request[r].key = request[q].key => r = q
    /\ \A r \in Requests :
          request[r].pc = "inserted" =>
            /\ Status(request[r].booking) = "absent"
            /\ \A c \in Bookings : payment[c].key # request[r].key
    /\ \A b \in Bookings : Status(b) = "absent" => payment[b].key = None

\* At most one refund of a payment is under way, and the payment's status tells which.
RefundOK ==
    /\ \A f \in Refunds :
          /\ refund[f].status # "absent" => refund[f].booking \in Bookings
          /\ refund[f].status = "asked" =>
                Status(refund[f].booking) \in {"CAPTURED", "PARTIALLY_REFUNDED"}
          /\ refund[f].status = "PENDING" => Status(refund[f].booking) = "REFUND_PENDING"
    /\ \A f, g \in Refunds :
          /\ refund[f].status \in {"asked", "PENDING"}
          /\ refund[g].status \in {"asked", "PENDING"}
          /\ refund[f].booking = refund[g].booking
          => f = g

\* An attempt with events is one of a booking; a paid payment refers to an attempt.
AttemptOK ==
    /\ \A a \in Attempts : attempt[a].events # {} => attempt[a].booking \in Bookings
    /\ \A b \in Bookings : Status(b) \in Paid /\ ~Development => payment[b].ref \in Attempts

\* Some attempt at booking b has failed, and the payment knows.
GivenUp(b) == \E o \in Attempts :
    attempt[o].booking = b /\ webhook[<<o, "failed">>] = "PROCESSED"

\* An open order is paid, to be paid or given up by the webhook of a failure; attempts are
\* made at open orders.
OpenOK ==
    /\ \A b \in Bookings : payment[b].order = "open" =>
          /\ Status(b) \in Paid \cup {"PENDING", "AUTHORIZED", "FAILED"}
          /\ Status(b) = "FAILED" => GivenUp(b)
    /\ \A a \in Attempts : attempt[a].booking \in Bookings =>
          payment[attempt[a].booking].order = "open"

\* Only what happened is delivered, an attempt ends once, and a capture delivered leaves
\* its payment paid or given up.
HooksOK ==
    \A a \in Attempts :
        /\ \A type \in AttemptEvent :
              webhook[<<a, type>>] # "absent" => type \in attempt[a].events
        /\ "captured" \notin attempt[a].events \/ "failed" \notin attempt[a].events
        /\ attempt[a].booking \in Bookings /\ webhook[<<a, "captured">>] # "absent" =>
              Status(attempt[a].booking) \in Paid \cup {"FAILED"}

IInv ==
    /\ TypeOK
    /\ RequestOK
    /\ OrderOK
    /\ RefundOK
    /\ AttemptOK
    /\ OpenOK
    /\ HooksOK
    /\ CapturedIsPaid
    /\ RecordedRefundIsPaid

-----------------------------------------------------------------------------
(* Type correctness                                                        *)

LEMMA InitInv == Init => IInv
<1> SUFFICES ASSUME Init PROVE IInv
  OBVIOUS
<1> USE PaymentAssumption DEF Init
<1>1. TypeOK
  BY DEF TypeOK, PaymentRow, RefundRow, OrderRequest, AttemptRow, HookStatus, Back
<1>2. RequestOK /\ OrderOK /\ RefundOK /\ AttemptOK
  BY DEF RequestOK, OrderOK, RefundOK, AttemptOK, Status, Paid
<1>3. CapturedIsPaid /\ RecordedRefundIsPaid
  BY DEF CapturedIsPaid, RecordedRefundIsPaid, Status, Paid
<1>4. OpenOK /\ HooksOK
  BY DEF OpenOK, HooksOK, Hook
<1> QED  BY <1>1, <1>2, <1>3, <1>4 DEF IInv

\* Appending an event keeps the outbox well formed.
LEMMA AnnounceType ==
    ASSUME TypeOK, NEW b, NEW type \in {"captured", "failed", "refunded"},
           NEW amount \in Nat, Announce(b, type, amount)
    PROVE  outbox' \in [Bookings -> Seq(Event)]
<1> DEFINE event == [type |-> type, amount |-> amount]
<1>1. event \in Event
  BY DEF Event
<1>2. /\ outbox \in [Bookings -> Seq(Event)]
      /\ outbox' = [outbox EXCEPT ![b] = Append(@, event)]
  BY DEF TypeOK, Announce
<1> HIDE DEF event
<1>3. \A c \in Bookings : outbox[c] \in Seq(Event)
  BY <1>2
<1>4. \A c \in Bookings : Append(outbox[c], event) \in Seq(Event)
  BY <1>1, <1>3
<1>5. outbox' = [c \in Bookings |-> IF c = b THEN Append(outbox[c], event) ELSE outbox[c]]
  BY <1>2, Zenon
<1> QED  BY <1>3, <1>4, <1>5

\* The steps of an order request preserve the types.
LEMMA OrderType ==
    ASSUME IInv, NEW r \in Requests, OrderNext(r)
    PROVE  TypeOK'
<1> USE PaymentAssumption
<1>0. /\ TypeOK /\ RequestOK
      /\ request \in [Requests -> OrderRequest] /\ payment \in [Bookings -> PaymentRow]
  BY DEF IInv, TypeOK
<1>1. ASSUME NEW b \in Bookings, NEW k \in Keys, OrderLookup(r, b, k)  PROVE TypeOK'
  <2>1. request' \in [Requests -> OrderRequest]
    BY <1>0, <1>1 DEF OrderLookup, OrderRequest
  <2> QED  BY <1>0, <1>1, <2>1 DEF OrderLookup, TypeOK
<1>2. CASE OrderInsert(r)
  <2>1. request' \in [Requests -> OrderRequest]
    BY <1>0, <1>2 DEF OrderInsert, OrderRequest
  <2> QED  BY <1>0, <1>2, <2>1 DEF OrderInsert, TypeOK
<1>3. CASE OrderEnd(r)
  <2>1. request' \in [Requests -> OrderRequest]
    BY <1>0, <1>3 DEF OrderEnd, OrderRequest
  <2> QED  BY <1>0, <1>3, <2>1 DEF OrderEnd, TypeOK
<1>4. CASE OrderOpen(r)
  <2>1. request' \in [Requests -> OrderRequest]
    BY <1>0, <1>4 DEF OrderOpen, OrderRequest
  <2>2. payment' \in [Bookings -> PaymentRow]
    BY <1>0, <1>4 DEF OrderOpen, RequestOK, PaymentRow, PaymentStatus
  <2> QED  BY <1>0, <1>4, <2>1, <2>2 DEF OrderOpen, TypeOK
<1>5. CASE OrderFail(r)
  <2>1. request' \in [Requests -> OrderRequest]
    BY <1>0, <1>5 DEF OrderFail, OrderRequest
  <2>2. payment' \in [Bookings -> PaymentRow]
    BY <1>0, <1>5 DEF OrderFail, RequestOK, PaymentRow, PaymentStatus
  <2>3. outbox' \in [Bookings -> Seq(Event)]
    BY <1>0, <1>5, AnnounceType DEF OrderFail
  <2> QED  BY <1>0, <1>5, <2>1, <2>2, <2>3 DEF OrderFail, TypeOK
<1> QED  BY <1>1, <1>2, <1>3, <1>4, <1>5 DEF OrderNext

\* The steps of attempts, their webhooks and the development provider preserve the types.
LEMMA AttemptType ==
    ASSUME IInv, NEW a \in Attempts, AttemptNext(a)
    PROVE  TypeOK'
<1> USE PaymentAssumption
<1>0. /\ TypeOK /\ AttemptOK
      /\ attempt \in [Attempts -> AttemptRow] /\ payment \in [Bookings -> PaymentRow]
  BY DEF IInv, TypeOK
<1>1. ASSUME NEW b \in Bookings, StartAttempt(a, b)  PROVE TypeOK'
  <2>1. attempt' \in [Attempts -> AttemptRow]
    BY <1>0, <1>1 DEF StartAttempt, AttemptRow
  <2> QED  BY <1>0, <1>1, <2>1 DEF StartAttempt, TypeOK
<1>2. ASSUME NEW type \in AttemptEvent, AttemptMoves(a, type)  PROVE TypeOK'
  <2>1. attempt' \in [Attempts -> AttemptRow]
    BY <1>0, <1>2 DEF AttemptMoves, AttemptRow
  <2> QED  BY <1>0, <1>2, <2>1 DEF AttemptMoves, TypeOK
<1>3. ASSUME NEW type \in AttemptEvent, Webhook(a, type)  PROVE TypeOK'
  <2> DEFINE b == attempt[a].booking
  <2>1. b \in Bookings
    BY <1>0, <1>3 DEF Webhook, AttemptOK
  <2>2. WebhookTarget(type) \in PaymentStatus
    BY DEF WebhookTarget, AttemptEvent, PaymentStatus
  <2>3. payment' \in [Bookings -> PaymentRow]
    BY <1>0, <1>3, <2>1, <2>2 DEF Webhook, PaymentRow
  <2>4. webhook' \in [Hook -> HookStatus]
    BY <1>0, <1>3 DEF Webhook, TypeOK, RefusedMark, HookStatus
  <2>5. outbox' \in [Bookings -> Seq(Event)]
    <3>1. CASE UNCHANGED outbox
      BY <1>0, <3>1 DEF TypeOK
    <3>2. CASE type \in {"captured", "failed"} /\ Announce(b, type, Price)
      <4> HIDE DEF b
      <4> QED  BY <1>0, <3>2, AnnounceType
    <3> QED  BY <1>3, <3>1, <3>2 DEF Webhook
  <2>6. strayed' \subseteq Bookings
    BY <1>0, <1>3, <2>1 DEF Webhook, TypeOK
  <2> QED  BY <1>0, <1>3, <2>3, <2>4, <2>5, <2>6 DEF Webhook, TypeOK
<1> QED  BY <1>1, <1>2, <1>3 DEF AttemptNext

LEMMA DevelopmentType ==
    ASSUME IInv, NEW b \in Bookings, DevelopmentComplete(b)
    PROVE  TypeOK'
<1> USE PaymentAssumption
<1>0. TypeOK /\ payment \in [Bookings -> PaymentRow]
  BY DEF IInv, TypeOK
<1>1. payment' \in [Bookings -> PaymentRow]
  BY <1>0 DEF DevelopmentComplete, PaymentRow, PaymentStatus
<1>2. outbox' \in [Bookings -> Seq(Event)]
  BY <1>0, AnnounceType DEF DevelopmentComplete
<1> QED  BY <1>0, <1>1, <1>2 DEF DevelopmentComplete, TypeOK

\* Settling a refund keeps rows and outbox well formed.
LEMMA SettleType ==
    ASSUME IInv, NEW f \in Refunds, Settle(f), refund[f].status # "absent"
    PROVE  /\ refund' \in [Refunds -> RefundRow]
           /\ payment' \in [Bookings -> PaymentRow]
           /\ outbox' \in [Bookings -> Seq(Event)]
<1>0. /\ TypeOK /\ RefundOK /\ refund \in [Refunds -> RefundRow]
      /\ payment \in [Bookings -> PaymentRow]
  BY DEF IInv, TypeOK
<1>1. refund[f].booking \in Bookings /\ refund[f].amount \in Nat
  BY <1>0 DEF RefundOK, RefundRow
<1>2. \A total : RefundTarget(total) \in PaymentStatus
  BY DEF RefundTarget, PaymentStatus
<1>3. refund' \in [Refunds -> RefundRow]
  BY <1>0 DEF Settle, RefundRow
<1>4. payment' \in [Bookings -> PaymentRow]
  BY <1>0, <1>1, <1>2 DEF Settle, PaymentRow
<1>5. outbox' \in [Bookings -> Seq(Event)]
  BY <1>0, <1>1, AnnounceType DEF Settle
<1> QED  BY <1>3, <1>4, <1>5

\* The steps of a refund preserve the types.
LEMMA RefundType ==
    ASSUME IInv, NEW f \in Refunds, RefundNext(f)
    PROVE  TypeOK'
<1> USE PaymentAssumption
<1>0. /\ TypeOK /\ RefundOK /\ refund \in [Refunds -> RefundRow]
      /\ payment \in [Bookings -> PaymentRow]
  BY DEF IInv, TypeOK
<1>1. ASSUME NEW b \in Bookings, NEW amount \in Amounts, RefundAsk(f, b, amount)
      PROVE  TypeOK'
  <2>1. refund' \in [Refunds -> RefundRow]
    BY <1>0, <1>1 DEF RefundAsk, RefundRow
  <2> QED  BY <1>0, <1>1, <2>1 DEF RefundAsk, TypeOK
<1>2. ASSUME NEW how \in {"processed", "pending", "failed"}, ProviderPays(f, how)
      PROVE  TypeOK'
  <2>1. paidBack' \in [Refunds -> Back]
    BY <1>0, <1>2 DEF ProviderPays, TypeOK, Back
  <2> QED  BY <1>0, <1>2, <2>1 DEF ProviderPays, TypeOK
<1>3. ASSUME NEW end \in {"settled", "returned"}, ProviderSettles(f, end)
      PROVE  TypeOK'
  <2>1. paidBack' \in [Refunds -> Back]
    BY <1>0, <1>3 DEF ProviderSettles, TypeOK, Back
  <2> QED  BY <1>0, <1>3, <2>1 DEF ProviderSettles, TypeOK
<1>4. CASE RefundAnswer(f)
  <2>1. CASE paidBack[f] = "processed" /\ Settle(f)
    BY <1>0, <1>4, <2>1, SettleType DEF RefundAnswer, TypeOK
  <2>2. CASE /\ refund' = [refund EXCEPT ![f].status = "PENDING"]
             /\ payment' = [payment EXCEPT ![refund[f].booking].status = "REFUND_PENDING"]
             /\ UNCHANGED outbox
    <3>1. refund' \in [Refunds -> RefundRow]
      BY <1>0, <2>2 DEF RefundRow
    <3>2. payment' \in [Bookings -> PaymentRow]
      BY <1>0, <2>2 DEF PaymentRow, PaymentStatus
    <3> QED  BY <1>0, <1>4, <2>2, <3>1, <3>2 DEF RefundAnswer, TypeOK
  <2> QED  BY <1>4, <2>1, <2>2 DEF RefundAnswer
<1>5. CASE RefundFail(f)
  <2>1. refund' \in [Refunds -> RefundRow]
    BY <1>0, <1>5 DEF RefundFail, RefundRow
  <2>2. payment' \in [Bookings -> PaymentRow]
    BY <1>0, <1>5 DEF RefundFail, PaymentRow, PaymentStatus
  <2> QED  BY <1>0, <1>5, <2>1, <2>2 DEF RefundFail, TypeOK
<1>6. CASE RefundCrash(f)
  <2>1. refund' \in [Refunds -> RefundRow]
    BY <1>0, <1>6 DEF RefundCrash, RefundRow
  <2> QED  BY <1>0, <1>6, <2>1 DEF RefundCrash, TypeOK
<1>7. CASE RefundWebhook(f)
  <2>1. webhook' \in [Hook -> HookStatus]
    BY <1>0, <1>7 DEF RefundWebhook, TypeOK, HookStatus
  <2> QED  BY <1>0, <1>7, <2>1, SettleType DEF RefundWebhook, TypeOK
<1>8. CASE RefundWebhookRefused(f)
  <2>1. webhook' \in [Hook -> HookStatus]
    BY <1>0, <1>8 DEF RefundWebhookRefused, TypeOK, RefusedMark, HookStatus
  <2> QED  BY <1>0, <1>8, <2>1 DEF RefundWebhookRefused, TypeOK
<1> QED  BY <1>1, <1>2, <1>3, <1>4, <1>5, <1>6, <1>7, <1>8 DEF RefundNext

LEMMA StepType ==
    ASSUME IInv, [Next]_vars
    PROVE  TypeOK'
<1>1. CASE UNCHANGED vars
  BY <1>1 DEF vars, IInv, TypeOK
<1> QED  BY <1>1, OrderType, AttemptType, DevelopmentType, RefundType DEF Next

-----------------------------------------------------------------------------
(* What the steps do to a payment                                          *)

\* The row a refund's end leaves: the refund gets status x, its payment status y.
Ends(f, x, y) ==
    /\ refund[f].status \in {"asked", "PENDING"}
    /\ refund' = [refund EXCEPT ![f].status = x]
    /\ payment' = [payment EXCEPT ![refund[f].booking].status = y]
    /\ y \in {"CAPTURED", "REFUND_PENDING", "REFUNDED", "PARTIALLY_REFUNDED"}
    /\ x = "PENDING" <=> y = "REFUND_PENDING"
    /\ x # "asked"

\* A webhook moves only an open payment, and never back to PENDING.
LEMMA WebhookEffect ==
    ASSUME IInv, NEW a \in Attempts, NEW type \in AttemptEvent, Webhook(a, type),
           NEW b, b = attempt[a].booking
    PROVE  /\ b \in Bookings
           /\ \A c \in Bookings \ {b} : payment'[c] = payment[c]
           /\ payment'[b].key = payment[b].key /\ payment'[b].order = payment[b].order
           /\ payment'[b].ref = a
           /\ \/ payment'[b].status = Status(b)
              \/ /\ Status(b) \in {"PENDING", "AUTHORIZED"}
                 /\ payment'[b].status = WebhookTarget(type)
                 /\ payment'[b].status \in {"AUTHORIZED", "CAPTURED", "FAILED"}
<1>1. b \in Bookings /\ payment \in [Bookings -> PaymentRow]
  BY DEF IInv, TypeOK, AttemptOK, Webhook
<1>2. WebhookTarget(type) \in {"AUTHORIZED", "CAPTURED", "FAILED"}
  BY DEF WebhookTarget, AttemptEvent
<1>3. WebhookTarget(type) \in Allowed(Status(b)) => Status(b) \in {"PENDING", "AUTHORIZED"}
  BY DEF Allowed
<1>4. payment' = [payment EXCEPT ![b] =
                    [status |-> IF WebhookTarget(type) \in Allowed(Status(b))
                                THEN WebhookTarget(type) ELSE @.status,
                     key |-> @.key, order |-> @.order, ref |-> a]]
  BY DEF Webhook
<1> QED  BY <1>1, <1>2, <1>3, <1>4 DEF Status

\* An answer, a failure and a webhook end the provider's call or the refund.
LEMMA EndEffect ==
    ASSUME NEW f \in Refunds, RefundAnswer(f) \/ RefundWebhook(f) \/ RefundFail(f)
    PROVE  \E x, y : Ends(f, x, y)
<1>1. CASE Settle(f) /\ ~RefundFail(f)
  <2> DEFINE y == RefundTarget(Refunded(refund[f].booking) + refund[f].amount)
  <2>1. y \in {"REFUNDED", "PARTIALLY_REFUNDED"}
    BY DEF RefundTarget
  <2>2. Ends(f, "PROCESSED", y)
    BY <1>1, <2>1 DEF Ends, Settle, RefundAnswer, RefundWebhook
  <2> QED  BY <2>2
<1>2. CASE ~Settle(f) /\ ~RefundFail(f)
  <2>1. Ends(f, "PENDING", "REFUND_PENDING")
    BY <1>2 DEF Ends, RefundAnswer, RefundWebhook
  <2> QED  BY <2>1
<1>3. CASE RefundFail(f)
  <2>1. Ends(f, "FAILED", "CAPTURED")
    BY <1>3 DEF Ends, RefundFail
  <2> QED  BY <2>1
<1> QED  BY <1>1, <1>2, <1>3

\* The other steps of a refund leave the payment alone.
LEMMA RefundEffect ==
    ASSUME NEW f \in Refunds, RefundNext(f)
    PROVE  UNCHANGED payment \/ \E x, y : Ends(f, x, y)
BY EndEffect DEF RefundNext, RefundAsk, ProviderPays, ProviderSettles, RefundCrash,
                RefundWebhookRefused

\* A step of something else than an order keeps every payment's key, order and presence.
KeepsOrders ==
    /\ UNCHANGED request
    /\ \A b \in Bookings :
          /\ payment'[b].key = payment[b].key
          /\ payment'[b].order = payment[b].order
          /\ payment'[b].status = "absent" <=> Status(b) = "absent"

LEMMA OtherSteps ==
    ASSUME IInv, [Next]_vars
    PROVE  KeepsOrders \/ \E r \in Requests : OrderNext(r)
<1>0. payment \in [Bookings -> PaymentRow] /\ RefundOK
  BY DEF IInv, TypeOK
<1>1. ASSUME NEW a \in Attempts, AttemptNext(a)  PROVE KeepsOrders
  <2>1. UNCHANGED request
    BY <1>1 DEF AttemptNext, StartAttempt, AttemptMoves, Webhook
  <2>2. CASE UNCHANGED payment
    BY <2>1, <2>2 DEF KeepsOrders, Status
  <2>3. ASSUME NEW type \in AttemptEvent, Webhook(a, type)  PROVE KeepsOrders
    BY <2>1, <2>3, WebhookEffect DEF KeepsOrders, Status
  <2> QED  BY <1>1, <2>2, <2>3 DEF AttemptNext, StartAttempt, AttemptMoves
<1>2. ASSUME NEW f \in Refunds, RefundNext(f)  PROVE KeepsOrders
  <2>1. UNCHANGED request
    BY <1>2 DEF RefundNext, RefundAsk, ProviderPays, ProviderSettles, RefundAnswer,
                RefundFail, RefundCrash, RefundWebhook, RefundWebhookRefused
  <2>2. CASE UNCHANGED payment
    BY <2>1, <2>2 DEF KeepsOrders, Status
  <2>3. ASSUME NEW x, NEW y, Ends(f, x, y)  PROVE KeepsOrders
    BY <1>0, <2>1, <2>3 DEF KeepsOrders, Status, Ends, RefundOK
  <2> QED  BY <1>2, <2>2, <2>3, RefundEffect
<1>3. ASSUME NEW b \in Bookings, DevelopmentComplete(b)  PROVE KeepsOrders
  BY <1>0, <1>3 DEF DevelopmentComplete, KeepsOrders, Status
<1>4. CASE UNCHANGED vars
  BY <1>4 DEF vars, KeepsOrders, Status
<1> QED  BY <1>1, <1>2, <1>3, <1>4 DEF Next

-----------------------------------------------------------------------------
(* Orders                                                                  *)

LEMMA StepOrder ==
    ASSUME IInv, [Next]_vars
    PROVE  RequestOK' /\ OrderOK'
<1>0. /\ request \in [Requests -> OrderRequest] /\ payment \in [Bookings -> PaymentRow]
      /\ RequestOK /\ OrderOK
  BY DEF IInv, TypeOK
<1>1. CASE KeepsOrders
  <2>1. RequestOK'
    BY <1>0, <1>1 DEF KeepsOrders, RequestOK
  <2>2. OrderOK'
    BY <1>0, <1>1 DEF KeepsOrders, RequestOK, OrderOK, Status
  <2> QED  BY <2>1, <2>2
<1>2. ASSUME NEW r \in Requests, OrderNext(r)  PROVE RequestOK' /\ OrderOK'
  <2>1. ASSUME NEW b \in Bookings, NEW k \in Keys, OrderLookup(r, b, k)
        PROVE  RequestOK' /\ OrderOK'
    <3>1. RequestOK'
      BY <1>0, <2>1 DEF OrderLookup, RequestOK
    <3>2. OrderOK'
      BY <1>0, <2>1 DEF OrderLookup, OrderOK, Status
    <3> QED  BY <3>1, <3>2
  <2>2. CASE OrderInsert(r)
    <3>1. RequestOK'
      BY <1>0, <2>2 DEF OrderInsert, RequestOK
    <3>2. OrderOK'
      BY <1>0, <2>2 DEF OrderInsert, OrderOK, Status
    <3> QED  BY <3>1, <3>2
  <2>3. CASE OrderEnd(r)
    <3>1. RequestOK'
      BY <1>0, <2>3 DEF OrderEnd, RequestOK
    <3>2. OrderOK'
      BY <1>0, <2>3 DEF OrderEnd, OrderOK, Status
    <3> QED  BY <3>1, <3>2
  <2>4. CASE OrderOpen(r) \/ OrderFail(r)
    <3>1. PICK status \in {"PENDING", "FAILED"}, order \in {"none", "open"} :
             /\ request[r].pc = "inserted"
             /\ request' = [request EXCEPT ![r].pc = "done"]
             /\ payment' = [payment EXCEPT ![request[r].booking] =
                             [status |-> status, key |-> request[r].key,
                              order |-> order, ref |-> None]]
      BY <2>4 DEF OrderOpen, OrderFail
    <3>2. RequestOK'
      BY <1>0, <3>1 DEF RequestOK
    <3>3. OrderOK'
      BY <1>0, <3>1 DEF RequestOK, OrderOK, Status
    <3> QED  BY <3>2, <3>3
  <2> QED  BY <1>2, <2>1, <2>2, <2>3, <2>4 DEF OrderNext
<1> QED  BY <1>1, <1>2, OtherSteps

-----------------------------------------------------------------------------
(* Refunds                                                                 *)

LEMMA StepRefund ==
    ASSUME IInv, [Next]_vars
    PROVE  RefundOK'
<1>0. /\ request \in [Requests -> OrderRequest] /\ payment \in [Bookings -> PaymentRow]
      /\ refund \in [Refunds -> RefundRow]
      /\ RequestOK /\ OrderOK /\ RefundOK
  BY DEF IInv, TypeOK
<1>1. ASSUME NEW r \in Requests, OrderNext(r)  PROVE RefundOK'
  <2>1. UNCHANGED refund
    BY <1>1 DEF OrderNext, OrderLookup, OrderInsert, OrderEnd, OrderOpen, OrderFail
  <2>2. \A b \in Bookings : Status(b) # "absent" => payment'[b] = payment[b]
    BY <1>0, <1>1 DEF OrderNext, OrderLookup, OrderInsert, OrderEnd, OrderOpen, OrderFail,
                      OrderOK, Status
  <2> QED  BY <1>0, <2>1, <2>2 DEF RefundOK, Status
<1>2. ASSUME NEW a \in Attempts, AttemptNext(a)  PROVE RefundOK'
  <2>1. UNCHANGED refund
    BY <1>2 DEF AttemptNext, StartAttempt, AttemptMoves, Webhook
  <2>2. CASE UNCHANGED payment
    BY <1>0, <2>1, <2>2 DEF RefundOK, Status
  <2>3. ASSUME NEW type \in AttemptEvent, Webhook(a, type)  PROVE RefundOK'
    <3>1. \A b \in Bookings : Status(b) \notin {"PENDING", "AUTHORIZED"} =>
                                payment'[b].status = Status(b)
      BY <2>3, WebhookEffect DEF Status
    <3> QED  BY <1>0, <2>1, <3>1 DEF RefundOK, Status
  <2> QED  BY <1>2, <2>2, <2>3 DEF AttemptNext, StartAttempt, AttemptMoves
<1>3. ASSUME NEW f \in Refunds, RefundNext(f)  PROVE RefundOK'
  <2>1. ASSUME NEW b \in Bookings, NEW amount \in Amounts, RefundAsk(f, b, amount)
        PROVE  RefundOK'
    <3>1. /\ Status(b) \in {"CAPTURED", "PARTIALLY_REFUNDED"}
          /\ UNCHANGED payment
          /\ refund' = [refund EXCEPT ![f] = [status |-> "asked", booking |-> b,
                                              amount |-> amount]]
          /\ \A g \in Refunds : ~(refund[g].status = "asked" /\ refund[g].booking = b)
      BY <2>1 DEF RefundAsk, Refundable, RowLocked
    <3> QED  BY <1>0, <3>1 DEF RefundOK, Status
  <2>2. CASE RefundCrash(f)
    BY <1>0, <2>2 DEF RefundCrash, RefundOK, Status
  <2>3. ASSUME NEW x, NEW y, Ends(f, x, y)  PROVE RefundOK'
    <3>1. refund[f].booking \in Bookings
      BY <1>0, <2>3 DEF Ends, RefundOK
    <3>2. \A g \in Refunds \ {f} : refund[g].status \in {"asked", "PENDING"} =>
                                     refund[g].booking # refund[f].booking
      BY <1>0, <2>3 DEF Ends, RefundOK
    <3>3. \A g \in Refunds : refund'[g].booking = refund[g].booking
      BY <1>0, <2>3 DEF Ends, RefundRow
    <3>4. \A g \in Refunds \ {f} : refund'[g].status = refund[g].status
      BY <1>0, <2>3 DEF Ends
    <3>5. refund'[f].status = x
      BY <1>0, <2>3 DEF Ends, RefundRow
    <3>6. /\ payment'[refund[f].booking].status = y
          /\ \A b \in Bookings \ {refund[f].booking} : payment'[b] = payment[b]
      BY <1>0, <2>3, <3>1 DEF Ends, PaymentRow
    <3>7. /\ refund[f].status # "absent" /\ x # "asked"
          /\ x = "PENDING" => y = "REFUND_PENDING"
      BY <2>3 DEF Ends
    <3>8. \A g \in Refunds \ {f} :
             /\ refund[g].status # "absent" => refund[g].booking \in Bookings
             /\ refund[g].status = "asked" =>
                   payment'[refund[g].booking].status \in {"CAPTURED", "PARTIALLY_REFUNDED"}
             /\ refund[g].status = "PENDING" =>
                   payment'[refund[g].booking].status = "REFUND_PENDING"
      BY <1>0, <3>2, <3>6 DEF RefundOK, Status
    <3>9. \A g, h \in Refunds :
             /\ refund'[g].status \in {"asked", "PENDING"}
             /\ refund'[h].status \in {"asked", "PENDING"}
             /\ refund'[g].booking = refund'[h].booking
             => g = h
      <4>1. \A g, h \in Refunds \ {f} :
               /\ refund[g].status \in {"asked", "PENDING"}
               /\ refund[h].status \in {"asked", "PENDING"}
               /\ refund[g].booking = refund[h].booking
               => g = h
        BY <1>0 DEF RefundOK
      <4> QED  BY <3>2, <3>3, <3>4, <4>1
    <3> QED  BY <3>1, <3>3, <3>4, <3>5, <3>6, <3>7, <3>8, <3>9 DEF RefundOK, Status
  <2>4. CASE \/ \E how \in {"processed", "pending", "failed"} : ProviderPays(f, how)
             \/ \E end \in {"settled", "returned"} : ProviderSettles(f, end)
             \/ RefundWebhookRefused(f)
    BY <1>0, <2>4 DEF ProviderPays, ProviderSettles, RefundWebhookRefused, RefundOK, Status
  <2> QED
    BY <1>3, <2>1, <2>2, <2>3, <2>4, EndEffect DEF RefundNext
<1>4. ASSUME NEW b \in Bookings, DevelopmentComplete(b)  PROVE RefundOK'
  BY <1>0, <1>4 DEF DevelopmentComplete, RefundOK, Status
<1>5. CASE UNCHANGED vars
  BY <1>0, <1>5 DEF vars, RefundOK, Status
<1> QED  BY <1>1, <1>2, <1>3, <1>4, <1>5 DEF Next

\* What the refund rows record of the provider stays true: a row ends only by what the
\* provider did, and the provider acts only while a row asks for it.
LEMMA StepRecorded ==
    ASSUME IInv, [Next]_vars
    PROVE  RecordedRefundIsPaid'
<1>0. /\ refund \in [Refunds -> RefundRow]
      /\ paidBack \in [Refunds -> Back]
      /\ RecordedRefundIsPaid
  BY DEF IInv, TypeOK
<1>1. CASE UNCHANGED <<refund, paidBack, unanswered>>
  BY <1>0, <1>1 DEF RecordedRefundIsPaid
<1>2. ASSUME NEW f \in Refunds, RefundNext(f)  PROVE RecordedRefundIsPaid'
  <2>1. CASE \E b \in Bookings, amount \in Amounts : RefundAsk(f, b, amount)
    BY <1>0, <2>1 DEF RefundAsk, RecordedRefundIsPaid
  <2>2. CASE \E how \in {"processed", "pending", "failed"} : ProviderPays(f, how)
    BY <1>0, <2>2 DEF ProviderPays, RecordedRefundIsPaid
  <2>3. CASE \E end \in {"settled", "returned"} : ProviderSettles(f, end)
    BY <1>0, <2>3 DEF ProviderSettles, RecordedRefundIsPaid, PaidOut
  <2>4. CASE RefundAnswer(f)
    <3>1. /\ UNCHANGED <<paidBack, unanswered>>
          /\ \/ /\ refund' = [refund EXCEPT ![f].status = "PROCESSED"]
                /\ paidBack[f] = "processed"
             \/ /\ refund' = [refund EXCEPT ![f].status = "PENDING"]
                /\ paidBack[f] \notin {"no", "processed"}
      BY <2>4 DEF RefundAnswer, Settle
    <3>2. \A g \in Refunds \ {f} : refund'[g].status = refund[g].status
      BY <1>0, <3>1
    <3>3. \/ refund'[f].status = "PROCESSED" /\ paidBack[f] = "processed"
          \/ refund'[f].status = "PENDING" /\ paidBack[f] \notin {"no", "processed"}
      BY <1>0, <3>1 DEF RefundRow
    <3> QED  BY <1>0, <3>1, <3>2, <3>3 DEF RecordedRefundIsPaid, PaidOut
  <2>5. CASE RefundFail(f)
    BY <1>0, <2>5 DEF RefundFail, RecordedRefundIsPaid
  <2>6. CASE RefundCrash(f)
    BY <1>0, <2>6 DEF RefundCrash, RecordedRefundIsPaid
  <2>7. CASE RefundWebhook(f)
    BY <1>0, <2>7 DEF RefundWebhook, Settle, RecordedRefundIsPaid
  <2>8. CASE RefundWebhookRefused(f)
    BY <1>1, <2>8 DEF RefundWebhookRefused
  <2> QED  BY <1>2, <2>1, <2>2, <2>3, <2>4, <2>5, <2>6, <2>7, <2>8 DEF RefundNext
<1>3. ASSUME NEW r \in Requests, OrderNext(r)
      PROVE  UNCHANGED <<refund, paidBack, unanswered>>
  BY <1>3 DEF OrderNext, OrderLookup, OrderInsert, OrderEnd, OrderOpen, OrderFail
<1>4. ASSUME NEW a \in Attempts, AttemptNext(a)
      PROVE  UNCHANGED <<refund, paidBack, unanswered>>
  BY <1>4 DEF AttemptNext, StartAttempt, AttemptMoves, Webhook
<1>5. ASSUME NEW b \in Bookings, DevelopmentComplete(b)
      PROVE  UNCHANGED <<refund, paidBack, unanswered>>
  BY <1>5 DEF DevelopmentComplete
<1> QED  BY <1>1, <1>2, <1>3, <1>4, <1>5 DEF Next, vars

-----------------------------------------------------------------------------
(* Captures                                                                *)

LEMMA StepCaptured ==
    ASSUME IInv, [Next]_vars
    PROVE  AttemptOK' /\ CapturedIsPaid'
<1>0. /\ payment \in [Bookings -> PaymentRow] /\ attempt \in [Attempts -> AttemptRow]
      /\ request \in [Requests -> OrderRequest] /\ RequestOK /\ OrderOK
      /\ AttemptOK /\ CapturedIsPaid /\ RefundOK
  BY DEF IInv, TypeOK
<1>1. ASSUME UNCHANGED <<attempt, strayed>>,
             \A b \in Bookings : payment'[b].status \in Paid /\ ~Development =>
                Status(b) \in Paid /\ payment'[b].ref = payment[b].ref
      PROVE  AttemptOK' /\ CapturedIsPaid'
  BY <1>0, <1>1 DEF AttemptOK, CapturedIsPaid, Status
<1>2. ASSUME NEW r \in Requests, OrderNext(r)  PROVE AttemptOK' /\ CapturedIsPaid'
  <2>1. UNCHANGED <<attempt, strayed>>
    BY <1>2 DEF OrderNext, OrderLookup, OrderInsert, OrderEnd, OrderOpen, OrderFail
  <2>2. \A b \in Bookings :
            payment'[b] = payment[b] \/ payment'[b].status \in {"PENDING", "FAILED"}
    BY <1>0, <1>2 DEF OrderNext, OrderLookup, OrderInsert, OrderEnd, OrderOpen, OrderFail
  <2> QED  BY <1>1, <2>1, <2>2 DEF Paid, Status
<1>3. ASSUME NEW a \in Attempts, AttemptNext(a)  PROVE AttemptOK' /\ CapturedIsPaid'
  <2>1. ASSUME NEW b \in Bookings, StartAttempt(a, b)  PROVE AttemptOK' /\ CapturedIsPaid'
    <3>1. /\ UNCHANGED <<payment, strayed>>
          /\ attempt[a].booking = None
          /\ \A o \in Attempts : attempt'[o].events = attempt[o].events
          /\ \A o \in Attempts \ {a} : attempt'[o].booking = attempt[o].booking
          /\ attempt'[a].booking = b
      BY <1>0, <2>1 DEF StartAttempt, AttemptRow
    <3>2. attempt[a].events = {}
      BY <1>0, <3>1, PaymentAssumption DEF AttemptOK
    <3> QED  BY <1>0, <3>1, <3>2 DEF AttemptOK, CapturedIsPaid, Status
  <2>2. ASSUME NEW type \in AttemptEvent, AttemptMoves(a, type)
        PROVE  AttemptOK' /\ CapturedIsPaid'
    <3>1. /\ UNCHANGED <<payment, strayed>>
          /\ attempt[a].booking # None
          /\ \A o \in Attempts : /\ attempt'[o].booking = attempt[o].booking
                                 /\ attempt[o].events \subseteq attempt'[o].events
          /\ \A o \in Attempts \ {a} : attempt'[o].events = attempt[o].events
      BY <1>0, <2>2 DEF AttemptMoves, AttemptRow
    <3>2. attempt[a].booking \in Bookings
      BY <1>0, <3>1 DEF AttemptRow
    <3> QED  BY <1>0, <3>1, <3>2 DEF AttemptOK, CapturedIsPaid, Status
  <2>3. ASSUME NEW type \in AttemptEvent, Webhook(a, type)
        PROVE  AttemptOK' /\ CapturedIsPaid'
    <3> DEFINE b == attempt[a].booking
    <3>1. /\ b \in Bookings
          /\ \A c \in Bookings \ {b} : payment'[c] = payment[c]
          /\ payment'[b].ref = a
          /\ \/ payment'[b].status = Status(b)
             \/ /\ Status(b) \in {"PENDING", "AUTHORIZED"}
                /\ payment'[b].status = WebhookTarget(type)
      BY <2>3, WebhookEffect
    <3>2. UNCHANGED attempt /\ type \in attempt[a].events
      BY <2>3 DEF Webhook
    <3>3. AttemptOK'
      BY <1>0, <3>1, <3>2 DEF AttemptOK, Status
    <3>4. CASE payment'[b].status # Status(b)
      <4>1. payment'[b].status \in Paid => type = "captured"
        BY <3>1, <3>4 DEF WebhookTarget, AttemptEvent, Paid
      <4>2. strayed \subseteq strayed'
        BY <2>3 DEF Webhook
      <4> QED  BY <1>0, <3>1, <3>2, <3>3, <4>1, <4>2 DEF CapturedIsPaid, Status
    <3>5. CASE payment'[b].status = Status(b) /\ Status(b) \in Paid
      <4>1. WebhookTarget(type) \notin Allowed(Status(b))
        BY <3>5 DEF Allowed, Paid
      <4>2. strayed' = IF payment[b].ref = a THEN strayed ELSE strayed \cup {b}
        BY <2>3, <4>1 DEF Webhook
      <4> QED  BY <1>0, <3>1, <3>2, <3>3, <3>5, <4>2 DEF CapturedIsPaid, Status
    <3>6. CASE payment'[b].status = Status(b) /\ Status(b) \notin Paid
      <4>1. strayed \subseteq strayed'
        BY <2>3 DEF Webhook
      <4> QED  BY <1>0, <3>1, <3>2, <3>3, <3>6, <4>1 DEF CapturedIsPaid, Status
    <3> QED  BY <3>4, <3>5, <3>6
  <2> QED  BY <1>3, <2>1, <2>2, <2>3 DEF AttemptNext
<1>4. ASSUME NEW f \in Refunds, RefundNext(f)  PROVE AttemptOK' /\ CapturedIsPaid'
  <2>1. UNCHANGED <<attempt, strayed>>
    BY <1>4 DEF RefundNext, RefundAsk, ProviderPays, ProviderSettles, RefundAnswer,
                RefundFail, RefundCrash, RefundWebhook, RefundWebhookRefused
  <2>2. CASE UNCHANGED payment
    BY <1>1, <2>1, <2>2 DEF Status
  <2>3. ASSUME NEW x, NEW y, Ends(f, x, y)  PROVE AttemptOK' /\ CapturedIsPaid'
    <3>1. refund[f].booking \in Bookings /\ Status(refund[f].booking) \in Paid
      BY <1>0, <2>3 DEF Ends, RefundOK, Paid
    <3>2. \A b \in Bookings : /\ payment'[b].ref = payment[b].ref
                              /\ b # refund[f].booking => payment'[b] = payment[b]
      BY <1>0, <2>3 DEF Ends, PaymentRow
    <3> QED  BY <1>1, <2>1, <3>1, <3>2 DEF Status
  <2> QED  BY <1>4, <2>2, <2>3, RefundEffect
<1>5. ASSUME NEW b \in Bookings, DevelopmentComplete(b)  PROVE AttemptOK' /\ CapturedIsPaid'
  BY <1>1, <1>5 DEF DevelopmentComplete
<1>6. CASE UNCHANGED vars
  BY <1>1, <1>6 DEF vars, Status
<1> QED  BY <1>2, <1>3, <1>4, <1>5, <1>6 DEF Next

-----------------------------------------------------------------------------
(* Captures that were delivered                                            *)

\* Nothing about attempts and their events changes when no payment but a paid one moves.
LEMMA HooksKept ==
    ASSUME IInv, UNCHANGED attempt,
           \A a \in Attempts, type \in AttemptEvent :
              webhook'[<<a, type>>] = webhook[<<a, type>>],
           \A b \in Bookings : /\ payment'[b].order = payment[b].order
                               /\ payment'[b].status = Status(b) \/ payment'[b].status \in Paid
    PROVE  OpenOK' /\ HooksOK'
<1>1. OpenOK /\ HooksOK
  BY DEF IInv
<1>2. \A b \in Bookings : GivenUp(b) => GivenUp(b)'
  BY DEF GivenUp, AttemptEvent
<1>3. OpenOK'
  BY <1>1, <1>2 DEF OpenOK, Status, Paid
<1>4. HooksOK'
  BY <1>1 DEF HooksOK, Status, AttemptEvent
<1> QED  BY <1>3, <1>4

\* A webhook of an attempt takes the event, or finds the payment past it.
LEMMA HooksDelivered ==
    ASSUME IInv, NEW a \in Attempts, NEW type \in AttemptEvent, Webhook(a, type),
           NEW b, b = attempt[a].booking
    PROVE  OpenOK' /\ HooksOK'
<1> DEFINE taken == WebhookTarget(type) \in Allowed(Status(b))
<1>1. /\ OpenOK /\ HooksOK /\ webhook \in [Hook -> HookStatus]
      /\ payment \in [Bookings -> PaymentRow]
  BY DEF IInv, TypeOK
<1>2. /\ b \in Bookings
      /\ \A c \in Bookings \ {b} : payment'[c] = payment[c]
      /\ payment'[b].order = payment[b].order
  BY WebhookEffect
<1>3. payment'[b].status = IF taken THEN WebhookTarget(type) ELSE Status(b)
  BY <1>1, <1>2 DEF Webhook, PaymentRow, Status
<1>4. PICK mark \in IF taken \/ WebhookTarget(type) = Status(b) THEN {"PROCESSED"}
                    ELSE RefusedMark(<<a, type>>) :
         webhook' = [webhook EXCEPT ![<<a, type>>] = mark]
  BY DEF Webhook
<1>5. /\ UNCHANGED attempt /\ type \in attempt[a].events
      /\ \A o \in Attempts, t \in AttemptEvent :
            webhook'[<<o, t>>] = IF <<o, t>> = <<a, type>> THEN mark ELSE webhook[<<o, t>>]
  BY <1>1, <1>4 DEF Webhook, Hook
<1>6. mark = "PROCESSED" \/ webhook[<<a, type>>] # "PROCESSED"
  BY DEF Webhook, Sent
<1>7. payment[b].order = "open"
  BY <1>1, <1>2 DEF OpenOK
<1>8. \A c \in Bookings : GivenUp(c) => GivenUp(c)'
  BY <1>5, <1>6 DEF GivenUp, AttemptEvent
<1>9. payment'[b].status = "FAILED" => GivenUp(b)'
  <2>1. CASE Status(b) = "FAILED"
    BY <1>1, <1>2, <1>7, <1>8, <2>1 DEF OpenOK
  <2>2. CASE Status(b) # "FAILED" /\ payment'[b].status = "FAILED"
    <3>1. taken /\ type = "failed" /\ mark = "PROCESSED"
      BY <1>3, <1>4, <2>2 DEF WebhookTarget, AttemptEvent
    <3> QED  BY <1>5, <3>1 DEF GivenUp, AttemptEvent
  <2> QED  BY <2>1, <2>2
<1>10. payment'[b].status \in Paid \cup {"PENDING", "AUTHORIZED", "FAILED"}
  BY <1>1, <1>2, <1>3, <1>7 DEF OpenOK, WebhookTarget, AttemptEvent, Paid
<1>11. OpenOK'
  <2> HIDE DEF taken
  <2>1. ASSUME NEW c \in Bookings, payment'[c].order = "open"
        PROVE  /\ payment'[c].status \in Paid \cup {"PENDING", "AUTHORIZED", "FAILED"}
               /\ payment'[c].status = "FAILED" => GivenUp(c)'
    BY <1>1, <1>2, <1>8, <1>9, <1>10, <2>1 DEF OpenOK, Status
  <2>2. \A o \in Attempts : attempt'[o].booking \in Bookings =>
            payment'[attempt'[o].booking].order = "open"
    BY <1>1, <1>2, <1>5 DEF OpenOK
  <2> QED  BY <2>1, <2>2 DEF OpenOK, Status
<1>12. Status(b) \in Paid \cup {"FAILED"} => payment'[b].status = Status(b)
  BY <1>3 DEF Allowed, Paid
<1>13. type = "captured" => payment'[b].status \in Paid \cup {"FAILED"}
  BY <1>1, <1>2, <1>3, <1>7 DEF OpenOK, WebhookTarget, Allowed, Paid
<1>14. HooksOK'
  <2>1. ASSUME NEW o \in Attempts, attempt'[o].booking \in Bookings,
               webhook'[<<o, "captured">>] # "absent"
        PROVE  payment'[attempt'[o].booking].status \in Paid \cup {"FAILED"}
    <3>1. CASE o = a /\ type = "captured"
      BY <1>5, <1>13, <3>1
    <3>2. CASE ~(o = a /\ type = "captured")
      <4>1. webhook[<<o, "captured">>] # "absent" /\ attempt[o].booking \in Bookings
        BY <1>5, <2>1, <3>2 DEF AttemptEvent
      <4>2. Status(attempt[o].booking) \in Paid \cup {"FAILED"}
        BY <1>1, <4>1 DEF HooksOK
      <4> QED  BY <1>2, <1>5, <1>12, <4>1, <4>2 DEF Status
    <3> QED  BY <3>1, <3>2
  <2> HIDE DEF taken
  <2>2. \A o \in Attempts, t \in AttemptEvent :
            webhook'[<<o, t>>] # "absent" => t \in attempt'[o].events
    BY <1>1, <1>5 DEF HooksOK
  <2>3. \A o \in Attempts :
            "captured" \notin attempt'[o].events \/ "failed" \notin attempt'[o].events
    BY <1>1, <1>5 DEF HooksOK
  <2> QED  BY <2>1, <2>2, <2>3 DEF HooksOK, Status
<1> QED  BY <1>11, <1>14

LEMMA StepHooks ==
    ASSUME IInv, [Next]_vars
    PROVE  OpenOK' /\ HooksOK'
<1>0. /\ payment \in [Bookings -> PaymentRow] /\ attempt \in [Attempts -> AttemptRow]
      /\ request \in [Requests -> OrderRequest] /\ RequestOK /\ OrderOK
      /\ OpenOK /\ HooksOK /\ RefundOK /\ webhook \in [Hook -> HookStatus]
  BY DEF IInv, TypeOK
<1>1. ASSUME NEW r \in Requests, OrderNext(r)  PROVE OpenOK' /\ HooksOK'
  <2>1. UNCHANGED <<attempt, webhook>>
    BY <1>1 DEF OrderNext, OrderLookup, OrderInsert, OrderEnd, OrderOpen, OrderFail
  <2>2. \A b \in Bookings :
            \/ payment'[b] = payment[b]
            \/ /\ Status(b) = "absent"
               /\ \/ payment'[b].status = "PENDING" /\ payment'[b].order = "open"
                  \/ payment'[b].status = "FAILED" /\ payment'[b].order = "none"
    BY <1>0, <1>1 DEF OrderNext, OrderLookup, OrderInsert, OrderEnd, OrderOpen, OrderFail,
                      OrderOK, Status
  <2>3. \A b \in Bookings : GivenUp(b) <=> GivenUp(b)'
    BY <2>1 DEF GivenUp
  <2>4. \A b \in Bookings : Status(b) = "absent" => payment[b].order # "open"
    BY <1>0 DEF OpenOK, Paid
  <2>5. OpenOK'
    BY <1>0, <2>1, <2>2, <2>3, <2>4 DEF OpenOK, Status
  <2>6. HooksOK'
    BY <1>0, <2>1, <2>2 DEF HooksOK, Status, Paid
  <2> QED  BY <2>5, <2>6
<1>2. ASSUME NEW a \in Attempts, AttemptNext(a)  PROVE OpenOK' /\ HooksOK'
  <2>1. ASSUME NEW b \in Bookings, StartAttempt(a, b)  PROVE OpenOK' /\ HooksOK'
    <3>1. /\ UNCHANGED <<payment, webhook>>
          /\ attempt[a].booking = None /\ payment[b].order = "open"
          /\ \A o \in Attempts : attempt'[o].events = attempt[o].events
          /\ \A o \in Attempts \ {a} : attempt'[o].booking = attempt[o].booking
          /\ attempt'[a].booking = b
      BY <1>0, <2>1 DEF StartAttempt, AttemptRow
    <3>2. attempt[a].events = {}
      BY <1>0, <3>1, PaymentAssumption DEF IInv, AttemptOK
    <3>3. \A type \in AttemptEvent : webhook[<<a, type>>] = "absent"
      BY <1>0, <3>2 DEF HooksOK
    <3>4. \A c \in Bookings : GivenUp(c) => GivenUp(c)'
      BY <3>1, <3>3 DEF GivenUp, AttemptEvent
    <3>5. OpenOK'
      BY <1>0, <3>1, <3>4 DEF OpenOK, Status
    <3>6. HooksOK'
      BY <1>0, <3>1, <3>3 DEF HooksOK, Status, AttemptEvent
    <3> QED  BY <3>5, <3>6
  <2>2. ASSUME NEW type \in AttemptEvent, AttemptMoves(a, type)  PROVE OpenOK' /\ HooksOK'
    <3>1. /\ UNCHANGED <<payment, webhook>>
          /\ \A o \in Attempts : /\ attempt'[o].booking = attempt[o].booking
                                 /\ attempt[o].events \subseteq attempt'[o].events
          /\ \A o \in Attempts \ {a} : attempt'[o].events = attempt[o].events
          /\ attempt'[a].events = attempt[a].events \cup {type}
          /\ attempt[a].events \cap {"captured", "failed"} = {}
      BY <1>0, <2>2 DEF AttemptMoves, AttemptRow
    <3>2. \A c \in Bookings : GivenUp(c) => GivenUp(c)'
      BY <3>1 DEF GivenUp
    <3>3. OpenOK'
      BY <1>0, <3>1, <3>2 DEF OpenOK, Status
    <3>4. ASSUME NEW o \in Attempts
          PROVE  "captured" \notin attempt'[o].events \/ "failed" \notin attempt'[o].events
      <4>1. CASE o = a
        <5>1. "captured" \notin attempt[a].events /\ "failed" \notin attempt[a].events
          BY <3>1
        <5> QED  BY <3>1, <4>1, <5>1
      <4>2. CASE o # a
        BY <1>0, <3>1, <4>2 DEF HooksOK
      <4> QED  BY <4>1, <4>2
    <3>5. \A o \in Attempts, t \in AttemptEvent :
              webhook'[<<o, t>>] # "absent" => t \in attempt'[o].events
      BY <1>0, <3>1 DEF HooksOK
    <3>6. \A o \in Attempts :
              attempt'[o].booking \in Bookings /\ webhook'[<<o, "captured">>] # "absent" =>
                 payment'[attempt'[o].booking].status \in Paid \cup {"FAILED"}
      BY <1>0, <3>1 DEF HooksOK, Status
    <3>7. HooksOK'
      BY <3>4, <3>5, <3>6 DEF HooksOK, Status
    <3> QED  BY <3>3, <3>7
  <2>3. ASSUME NEW type \in AttemptEvent, Webhook(a, type)  PROVE OpenOK' /\ HooksOK'
    BY <2>3, HooksDelivered
  <2> QED  BY <1>2, <2>1, <2>2, <2>3 DEF AttemptNext
<1>3. ASSUME NEW f \in Refunds, RefundNext(f)  PROVE OpenOK' /\ HooksOK'
  <2>1. UNCHANGED attempt
    BY <1>3 DEF RefundNext, RefundAsk, ProviderPays, ProviderSettles, RefundAnswer,
                RefundFail, RefundCrash, RefundWebhook, RefundWebhookRefused
  <2>2. UNCHANGED webhook \/ \E mark : webhook' = [webhook EXCEPT ![f] = mark]
    BY <1>3 DEF RefundNext, RefundAsk, ProviderPays, ProviderSettles, RefundAnswer,
                RefundFail, RefundCrash, RefundWebhook, RefundWebhookRefused
  <2>3. \A a \in Attempts, type \in AttemptEvent : <<a, type>> # f
    BY HookAssumption DEF AttemptEvent
  <2>4. \A a \in Attempts, type \in AttemptEvent :
            webhook'[<<a, type>>] = webhook[<<a, type>>]
    BY <1>0, <2>2, <2>3 DEF Hook
  <2>5. CASE UNCHANGED payment
    BY <2>1, <2>4, <2>5, HooksKept DEF Status
  <2>6. ASSUME NEW x, NEW y, Ends(f, x, y)  PROVE OpenOK' /\ HooksOK'
    <3>1. \A b \in Bookings : /\ payment'[b].order = payment[b].order
                              /\ payment'[b].status = Status(b) \/ payment'[b].status \in Paid
      BY <1>0, <2>6 DEF Ends, PaymentRow, Status, Paid
    <3> QED  BY <2>1, <2>4, <3>1, HooksKept
  <2> QED  BY <1>3, <2>5, <2>6, RefundEffect
<1>4. ASSUME NEW b \in Bookings, DevelopmentComplete(b)  PROVE OpenOK' /\ HooksOK'
  <2>1. \A c \in Bookings : /\ payment'[c].order = payment[c].order
                            /\ payment'[c].status = Status(c) \/ payment'[c].status \in Paid
    BY <1>0, <1>4 DEF DevelopmentComplete, PaymentRow, Status, Paid
  <2> QED  BY <1>4, <2>1, HooksKept DEF DevelopmentComplete
<1>5. CASE UNCHANGED vars
  BY <1>5, HooksKept DEF vars, Status
<1> QED  BY <1>1, <1>2, <1>3, <1>4, <1>5 DEF Next

-----------------------------------------------------------------------------
(* Sums                                                                    *)

LEMMA TotalNat ==
    ASSUME NEW amount, NEW S, IsFiniteSet(S)
    PROVE  IsFiniteSet(Units(amount, S)) /\ Total(amount, S) \in Nat
<1>1. IsFiniteSet(1..Price)
  BY FS_Interval, PaymentAssumption
<1>2. IsFiniteSet(S \X (1..Price))
  BY <1>1, FS_Product
<1>3. Units(amount, S) \in SUBSET (S \X (1..Price))
  BY DEF Units
<1>4. IsFiniteSet(Units(amount, S))
  BY <1>2, <1>3, FS_Subset
<1> QED  BY <1>4, FS_CardinalityType DEF Total

LEMMA TotalEmpty ==
    ASSUME NEW amount
    PROVE  Total(amount, {}) = 0
<1>1. Units(amount, {}) = {}
  BY DEF Units
<1> QED  BY <1>1, FS_EmptySet DEF Total

\* Equal amounts have equal sums.
LEMMA TotalSame ==
    ASSUME NEW S, NEW amount, NEW other, \A x \in S : amount[x] = other[x]
    PROVE  Total(amount, S) = Total(other, S)
<1>1. Units(amount, S) = Units(other, S)
  BY DEF Units
<1> QED  BY <1>1 DEF Total

LEMMA UnitsOfOne ==
    ASSUME NEW x, NEW n \in Nat
    PROVE  IsFiniteSet({x} \X (1..n)) /\ Cardinality({x} \X (1..n)) = n
<1>1. IsFiniteSet(1..n) /\ Cardinality(1..n) = n
  <2>1. IsFiniteSet(1..n) /\ Cardinality(1..n) = IF 1 > n THEN 0 ELSE n - 1 + 1
    BY FS_Interval
  <2> QED  BY <2>1
<1>2. IsFiniteSet({x}) /\ Cardinality({x}) = 1
  BY FS_Singleton
<1>3. /\ IsFiniteSet({x} \X (1..n))
      /\ Cardinality({x} \X (1..n)) = Cardinality({x}) * Cardinality(1..n)
  BY <1>1, <1>2, FS_Product
<1>4. Cardinality({x} \X (1..n)) = 1 * n
  BY <1>1, <1>2, <1>3, Zenon
<1> QED  BY <1>3, <1>4

\* One more element adds its amount.
LEMMA TotalAdds ==
    ASSUME NEW S, IsFiniteSet(S), NEW x, x \notin S, NEW amount, amount[x] \in 0..Price
    PROVE  Total(amount, S \cup {x}) = Total(amount, S) + amount[x]
<1> DEFINE n == amount[x]
           mine == {x} \X (1..n)
<1>1. Units(amount, S \cup {x}) = Units(amount, S) \cup mine
  BY PaymentAssumption DEF Units
<1>2. Units(amount, S) \cap mine = {}
  BY DEF Units
<1>3. n \in Nat
  BY PaymentAssumption
<1> HIDE DEF n
<1>4. IsFiniteSet(mine) /\ Cardinality(mine) = n
  BY <1>3, UnitsOfOne
<1>5. IsFiniteSet(Units(amount, S)) /\ Cardinality(Units(amount, S)) \in Nat
  BY TotalNat DEF Total
<1> HIDE DEF mine
<1>6. Cardinality(Units(amount, S) \cup mine)
        = Cardinality(Units(amount, S)) + Cardinality(mine) - Cardinality({})
  BY <1>2, <1>4, <1>5, FS_Union
<1>7. Cardinality({}) = 0
  BY FS_EmptySet
<1>8. Cardinality(Units(amount, S) \cup mine) = Cardinality(Units(amount, S)) + n
  BY <1>3, <1>4, <1>5, <1>6, <1>7
<1> QED  BY <1>1, <1>8 DEF Total, n

-----------------------------------------------------------------------------
(* What the steps do to the money                                          *)

\* Of all payments only that of b changes its status, if any does.
Only(b, st) ==
    /\ b \in Bookings
    /\ payment'[b].status = st
    /\ \A c \in Bookings \ {b} : payment'[c].status = Status(c)

Quiet ==
    /\ UNCHANGED <<refund, outbox>>
    /\ \A b \in Bookings : payment'[b].status = Status(b)

Opens(b) ==
    /\ Status(b) \in Unpaid
    /\ \E st \in {"PENDING", "AUTHORIZED"} : Only(b, st)
    /\ UNCHANGED <<refund, outbox>>

GivesUp(b) ==
    /\ Status(b) \in Unpaid
    /\ Only(b, "FAILED")
    /\ Announce(b, "failed", Price)
    /\ UNCHANGED refund

Captures(b) ==
    /\ Status(b) \in Unpaid
    /\ Only(b, "CAPTURED")
    /\ Announce(b, "captured", Price)
    /\ UNCHANGED refund

Asks(f, b, amount) ==
    /\ refund[f].status = "absent"
    /\ b \in Bookings /\ Status(b) \in {"CAPTURED", "PARTIALLY_REFUNDED"}
    /\ amount \in 1..Price /\ amount <= Price - Refunded(b)
    /\ refund' = [refund EXCEPT ![f] = [status |-> "asked", booking |-> b, amount |-> amount]]
    /\ UNCHANGED <<payment, outbox>>

\* The row of refund f gets status x, its payment status y.
Turns(f, x, y) ==
    /\ refund' = [refund EXCEPT ![f].status = x]
    /\ Only(refund[f].booking, y)

Dies(f) ==
    /\ refund[f].status = "asked"
    /\ Turns(f, "gone", Status(refund[f].booking))
    /\ UNCHANGED outbox

Waits(f) ==
    /\ refund[f].status = "asked"
    /\ Turns(f, "PENDING", "REFUND_PENDING")
    /\ UNCHANGED outbox

Fails(f) ==
    /\ refund[f].status = "asked"
    /\ Turns(f, "FAILED", "CAPTURED")
    /\ UNCHANGED outbox

Settles(f) ==
    /\ refund[f].status \in {"asked", "PENDING"}
    /\ Turns(f, "PROCESSED", RefundTarget(Refunded(refund[f].booking) + refund[f].amount))
    /\ Announce(refund[f].booking, "refunded", refund[f].amount)

\* Every step is one of these.
MoneyStep ==
    \/ Quiet
    \/ \E b \in Bookings : Opens(b) \/ GivesUp(b) \/ Captures(b)
    \/ \E f \in Refunds :
          \/ \E b, amount : Asks(f, b, amount)
          \/ Dies(f) \/ Waits(f) \/ Fails(f) \/ Settles(f)

LEMMA OrderMoney ==
    ASSUME IInv, NEW r \in Requests, OrderNext(r)
    PROVE  MoneyStep
<1>0. /\ payment \in [Bookings -> PaymentRow] /\ request \in [Requests -> OrderRequest]
      /\ RequestOK /\ OrderOK
  BY DEF IInv, TypeOK
<1>1. CASE UNCHANGED <<payment, refund, outbox>>
  BY <1>1 DEF MoneyStep, Quiet, Status
<1>2. ASSUME request[r].pc = "inserted", NEW st, NEW order,
             payment' = [payment EXCEPT ![request[r].booking] =
                [status |-> st, key |-> request[r].key, order |-> order, ref |-> None]]
      PROVE  Status(request[r].booking) \in Unpaid /\ Only(request[r].booking, st)
  BY <1>0, <1>2 DEF RequestOK, OrderOK, Only, Status, Unpaid
<1>3. CASE OrderOpen(r)
  <2>1. Status(request[r].booking) \in Unpaid /\ Only(request[r].booking, "PENDING")
    BY <1>2, <1>3 DEF OrderOpen
  <2>2. Opens(request[r].booking)
    BY <1>3, <2>1 DEF OrderOpen, Opens
  <2> QED  BY <2>1, <2>2 DEF MoneyStep, Only
<1>4. CASE OrderFail(r)
  <2>1. Status(request[r].booking) \in Unpaid /\ Only(request[r].booking, "FAILED")
    BY <1>2, <1>4 DEF OrderFail
  <2>2. GivesUp(request[r].booking)
    BY <1>4, <2>1 DEF OrderFail, GivesUp
  <2> QED  BY <2>1, <2>2 DEF MoneyStep, Only
<1> QED  BY <1>1, <1>3, <1>4 DEF OrderNext, OrderLookup, OrderInsert, OrderEnd

LEMMA AttemptMoney ==
    ASSUME IInv, NEW a \in Attempts, AttemptNext(a)
    PROVE  MoneyStep
<1>1. CASE UNCHANGED <<payment, refund, outbox>>
  BY <1>1 DEF MoneyStep, Quiet, Status
<1>2. ASSUME NEW type \in AttemptEvent, Webhook(a, type)  PROVE MoneyStep
  <2> DEFINE b == attempt[a].booking
             taken == WebhookTarget(type) \in Allowed(Status(b))
  <2>1. /\ b \in Bookings
        /\ Only(b, IF taken THEN WebhookTarget(type) ELSE Status(b))
        /\ UNCHANGED refund
        /\ IF taken /\ type \in {"captured", "failed"} THEN Announce(b, type, Price)
           ELSE UNCHANGED outbox
    <3>1. b \in Bookings /\ payment \in [Bookings -> PaymentRow]
      BY <1>2 DEF IInv, TypeOK, AttemptOK, Webhook
    <3>2. payment' = [payment EXCEPT ![b] =
                        [status |-> IF taken THEN WebhookTarget(type) ELSE @.status,
                         key |-> @.key, order |-> @.order, ref |-> a]]
      BY <1>2 DEF Webhook
    <3>3. Only(b, IF taken THEN WebhookTarget(type) ELSE Status(b))
      BY <3>1, <3>2 DEF Only, Status
    <3> QED  BY <1>2, <3>1, <3>3 DEF Webhook
  <2>2. taken => Status(b) \in Unpaid
    BY DEF Allowed, Unpaid
  <2> HIDE DEF b, taken
  <2>3. CASE ~taken
    BY <2>1, <2>3 DEF MoneyStep, Quiet, Only
  <2>4. CASE taken /\ type = "authorized"
    BY <2>1, <2>2, <2>4 DEF MoneyStep, Opens, WebhookTarget
  <2>5. CASE taken /\ type = "captured"
    BY <2>1, <2>2, <2>5 DEF MoneyStep, Captures, WebhookTarget
  <2>6. CASE taken /\ type = "failed"
    BY <2>1, <2>2, <2>6 DEF MoneyStep, GivesUp, WebhookTarget
  <2> QED  BY <2>3, <2>4, <2>5, <2>6 DEF AttemptEvent
<1> QED  BY <1>1, <1>2 DEF AttemptNext, StartAttempt, AttemptMoves

LEMMA RefundMoney ==
    ASSUME IInv, NEW f \in Refunds, RefundNext(f)
    PROVE  MoneyStep
<1>0. /\ payment \in [Bookings -> PaymentRow] /\ refund \in [Refunds -> RefundRow]
      /\ RefundOK
  BY DEF IInv, TypeOK
<1>1. ASSUME NEW b \in Bookings, NEW amount \in Amounts, RefundAsk(f, b, amount)
      PROVE  MoneyStep
  <2>1. Asks(f, b, amount)
    BY <1>1, PaymentAssumption DEF RefundAsk, Refundable, Asks
  <2> QED  BY <2>1 DEF MoneyStep
<1>2. CASE UNCHANGED <<payment, refund, outbox>>
  BY <1>2 DEF MoneyStep, Quiet, Status
<1>3. ASSUME refund[f].status \in {"asked", "PENDING"}, NEW x, NEW y,
             refund' = [refund EXCEPT ![f].status = x],
             payment' = [payment EXCEPT ![refund[f].booking].status = y]
      PROVE  Turns(f, x, y)
  BY <1>0, <1>3 DEF RefundOK, PaymentRow, Turns, Only, Status
<1>4. CASE Settle(f) /\ refund[f].status \in {"asked", "PENDING"}
  <2>1. Settles(f)
    BY <1>3, <1>4 DEF Settle, Settles
  <2> QED  BY <2>1 DEF MoneyStep
<1>5. CASE RefundAnswer(f)
  <2>1. Waits(f) \/ Settle(f)
    BY <1>3, <1>5 DEF RefundAnswer, Waits
  <2> QED  BY <1>4, <1>5, <2>1 DEF MoneyStep, RefundAnswer
<1>6. CASE RefundFail(f)
  <2>1. Fails(f)
    BY <1>3, <1>6 DEF RefundFail, Fails
  <2> QED  BY <2>1 DEF MoneyStep
<1>7. CASE RefundCrash(f)
  <2>1. Dies(f)
    BY <1>0, <1>7 DEF RefundCrash, Dies, Turns, Only, RefundOK, Status
  <2> QED  BY <2>1 DEF MoneyStep
<1>8. CASE RefundWebhook(f)
  BY <1>4, <1>8 DEF RefundWebhook
<1> QED
  BY <1>1, <1>2, <1>5, <1>6, <1>7, <1>8, RefundNext(f)
  DEF RefundNext, ProviderPays, ProviderSettles, RefundWebhookRefused

LEMMA MoneySteps ==
    ASSUME IInv, [Next]_vars
    PROVE  MoneyStep
<1>1. ASSUME NEW b \in Bookings, DevelopmentComplete(b)  PROVE MoneyStep
  <2>1. Captures(b)
    BY <1>1 DEF IInv, TypeOK, PaymentRow, DevelopmentComplete, Captures, Only, Status, Unpaid
  <2> QED  BY <2>1 DEF MoneyStep
<1>2. CASE UNCHANGED vars
  BY <1>2 DEF vars, MoneyStep, Quiet, Status
<1> QED  BY <1>1, <1>2, OrderMoney, AttemptMoney, RefundMoney DEF Next

-----------------------------------------------------------------------------
(* Refunds and the price                                                   *)

\* The refunds of booking b are refunds of a paid payment, the one under way fits into
\* what is left of the price, and the payment's status tells what has been paid back.
Fits(b) ==
    /\ \A f \in Refunds :
          refund[f].booking = b /\ refund[f].status # "absent" =>
                refund[f].amount \in 1..Price /\ Status(b) \in Paid
    /\ \A f \in Refunds :
          refund[f].booking = b /\ refund[f].status \in {"asked", "PENDING"} =>
                Refunded(b) + refund[f].amount <= Price
    /\ Refunded(b) <= Price
    /\ Status(b) = "REFUNDED" <=> Refunded(b) = Price
    /\ Status(b) = "PARTIALLY_REFUNDED" => Refunded(b) # 0
    /\ Status(b) = "REFUND_PENDING" => PendingRefunds(b) # {}

MoneyInv == \A b \in Bookings : Fits(b)

LEMMA RefundedNat ==
    ASSUME NEW b
    PROVE  IsFiniteSet(ProcessedRefunds(b)) /\ Refunded(b) \in Nat
<1>1. ProcessedRefunds(b) \in SUBSET Refunds
  BY DEF ProcessedRefunds
<1>2. IsFiniteSet(ProcessedRefunds(b))
  BY <1>1, PaymentAssumption, FS_Subset
<1> QED  BY <1>2, TotalNat DEF Refunded

\* Without a refund nothing is refunded.
LEMMA NothingRefunded ==
    ASSUME NEW b, ProcessedRefunds(b) = {}
    PROVE  Refunded(b) = 0
BY TotalEmpty DEF Refunded

\* What is refunded changes only when a refund becomes PROCESSED.
LEMMA RefundedSame ==
    ASSUME NEW b, ProcessedRefunds(b)' = ProcessedRefunds(b),
           \A g \in ProcessedRefunds(b) : refund'[g].amount = refund[g].amount
    PROVE  Refunded(b)' = Refunded(b)
<1> DEFINE S == ProcessedRefunds(b)
           new == [g \in Refunds |-> refund'[g].amount]
<1>1. \A g \in S : new[g] = Amount[g]
  BY DEF Amount, ProcessedRefunds
<1>2. Total(new, S) = Total(Amount, S)
  <2> HIDE DEF S, new
  <2> QED  BY <1>1, TotalSame
<1>3. Refunded(b)' = Total(new, S)
  BY DEF Refunded, Amount
<1> QED  BY <1>2, <1>3 DEF Refunded

\* Before and after a row's update that makes or leaves no refund PROCESSED.
LEMMA RefundedKept ==
    ASSUME TypeOK, NEW f \in Refunds, refund[f].status # "PROCESSED", NEW row,
           row.status # "PROCESSED", refund' = [refund EXCEPT ![f] = row]
    PROVE  \A b \in Bookings : Refunded(b)' = Refunded(b)
<1> SUFFICES ASSUME NEW b \in Bookings  PROVE Refunded(b)' = Refunded(b)
  OBVIOUS
<1>1. /\ \A g \in Refunds \ {f} : refund'[g] = refund[g]
      /\ refund'[f] = row
  BY DEF TypeOK
<1>2. ProcessedRefunds(b)' = ProcessedRefunds(b)
  BY <1>1 DEF ProcessedRefunds
<1>3. \A g \in ProcessedRefunds(b) : refund'[g].amount = refund[g].amount
  BY <1>1 DEF ProcessedRefunds
<1> QED  BY <1>2, <1>3, RefundedSame

\* A settled refund adds its amount to its own payment.
LEMMA RefundedGrows ==
    ASSUME TypeOK, NEW f \in Refunds, refund[f].status \in {"asked", "PENDING"},
           refund[f].amount \in 1..Price,
           refund' = [refund EXCEPT ![f].status = "PROCESSED"],
           NEW b \in Bookings
    PROVE  Refunded(b)' = IF b = refund[f].booking THEN Refunded(b) + refund[f].amount
                                                   ELSE Refunded(b)
<1>1. /\ \A g \in Refunds \ {f} : refund'[g] = refund[g]
      /\ refund'[f].status = "PROCESSED" /\ refund'[f].booking = refund[f].booking
      /\ \A g \in Refunds : refund'[g].amount = refund[g].amount
  BY DEF TypeOK, RefundRow
<1>2. CASE b # refund[f].booking
  <2>1. ProcessedRefunds(b)' = ProcessedRefunds(b)
    BY <1>1, <1>2 DEF ProcessedRefunds
  <2> QED  BY <1>1, <1>2, <2>1, RefundedSame DEF ProcessedRefunds
<1>3. CASE b = refund[f].booking
  <2> DEFINE S == ProcessedRefunds(b)
  <2>1. ProcessedRefunds(b)' = S \cup {f} /\ f \notin S
    BY <1>1, <1>3 DEF ProcessedRefunds
  <2>2. Amount' = Amount /\ Amount[f] = refund[f].amount
    BY <1>1 DEF Amount
  <2>3. IsFiniteSet(S)
    BY RefundedNat
  <2> HIDE DEF S
  <2>4. Total(Amount, S \cup {f}) = Total(Amount, S) + Amount[f]
    BY <2>1, <2>2, <2>3, TotalAdds, PaymentAssumption
  <2>5. Refunded(b)' = Total(Amount, S \cup {f})
    BY <2>1, <2>2 DEF Refunded
  <2> QED  BY <1>3, <2>2, <2>4, <2>5 DEF Refunded, S
<1> QED  BY <1>2, <1>3

LEMMA InitMoney == Init => MoneyInv
<1> SUFFICES ASSUME Init, NEW b \in Bookings  PROVE Fits(b)
  BY DEF MoneyInv
<1>1. \A f \in Refunds : refund[f].status = "absent"
  BY DEF Init
<1>2. Status(b) = "absent"
  BY DEF Init, Status
<1>3. Refunded(b) = 0
  BY <1>1, NothingRefunded DEF ProcessedRefunds
<1> QED  BY <1>1, <1>2, <1>3, PaymentAssumption DEF Fits

\* A payment that is not paid has no refunds.
LEMMA UnpaidHasNone ==
    ASSUME MoneyInv, NEW b \in Bookings, Status(b) \notin Paid
    PROVE  /\ Refunded(b) = 0
           /\ \A f \in Refunds : refund[f].booking = b => refund[f].status = "absent"
<1>1. \A f \in Refunds : refund[f].booking = b => refund[f].status = "absent"
  BY DEF MoneyInv, Fits
<1>2. ProcessedRefunds(b) = {}
  BY <1>1 DEF ProcessedRefunds
<1> QED  BY <1>1, <1>2, NothingRefunded

\* A step that leaves a payment's status and its refunds alone.
LEMMA FitsKept ==
    ASSUME NEW b, Fits(b), Status(b)' = Status(b),
           \A g \in Refunds : \/ refund'[g] = refund[g]
                              \/ /\ refund'[g].booking # b
                                 /\ refund[g].status = "absent" \/ refund[g].booking # b
    PROVE  Fits(b)'
<1>1. Refunded(b)' = Refunded(b)
  <2>1. ProcessedRefunds(b)' = ProcessedRefunds(b)
    BY DEF ProcessedRefunds
  <2>2. \A g \in ProcessedRefunds(b) : refund'[g].amount = refund[g].amount
    BY DEF ProcessedRefunds
  <2> QED  BY <2>1, <2>2, RefundedSame
<1>2. PendingRefunds(b)' = PendingRefunds(b)
  BY DEF PendingRefunds
<1> QED  BY <1>1, <1>2 DEF Fits

\* Steps that touch no refund row.
LEMMA MoneyOpens ==
    ASSUME MoneyInv, UNCHANGED refund, NEW b \in Bookings, Status(b) \in Unpaid,
           NEW st \in {"PENDING", "AUTHORIZED", "FAILED", "CAPTURED"}, Only(b, st)
    PROVE  MoneyInv'
<1>1. ASSUME NEW c \in Bookings \ {b}  PROVE Fits(c)'
  BY <1>1, FitsKept DEF MoneyInv, Only, Status
<1>2. Fits(b)'
  <2>1. /\ Refunded(b) = 0
        /\ \A f \in Refunds : refund[f].booking = b => refund[f].status = "absent"
    BY UnpaidHasNone DEF Unpaid, Paid
  <2>2. Refunded(b)' = 0
    BY <2>1, NothingRefunded DEF ProcessedRefunds, Refunded, Amount
  <2>3. Status(b)' = st
    BY DEF Only, Status
  <2> QED  BY <2>1, <2>2, <2>3, PaymentAssumption DEF Fits
<1> QED  BY <1>1, <1>2 DEF MoneyInv

\* A new row, asked for within what is left of the price.
LEMMA MoneyAsks ==
    ASSUME IInv, MoneyInv, NEW f \in Refunds, NEW b, NEW amount, Asks(f, b, amount)
    PROVE  MoneyInv'
<1> DEFINE row == [status |-> "asked", booking |-> b, amount |-> amount]
<1>1. TypeOK /\ b \in Bookings /\ amount \in 1..Price /\ Refunded(b) + amount <= Price
  BY RefundedNat, PaymentAssumption DEF IInv, Asks
<1>2. /\ refund'[f] = row /\ \A g \in Refunds \ {f} : refund'[g] = refund[g]
      /\ refund[f].status = "absent"
  BY <1>1 DEF Asks, TypeOK
<1>3. \A c \in Bookings : Status(c)' = Status(c)
  BY DEF Asks, Status
<1>4. ASSUME NEW c \in Bookings \ {b}  PROVE Fits(c)'
  BY <1>2, <1>3, <1>4, FitsKept DEF MoneyInv
<1>5. Fits(b)'
  <2>1. Refunded(b)' = Refunded(b)
    BY <1>1, <1>2, RefundedKept DEF Asks
  <2>2. PendingRefunds(b)' = PendingRefunds(b)
    BY <1>2 DEF PendingRefunds
  <2>3. Status(b) \in Paid
    BY DEF Asks, Paid
  <2> QED  BY <1>1, <1>2, <1>3, <2>1, <2>2, <2>3 DEF MoneyInv, Fits
<1> QED  BY <1>4, <1>5 DEF MoneyInv

\* The rows after a refund under way has changed its status.
LEMMA TurnsRows ==
    ASSUME IInv, NEW f \in Refunds, refund[f].status \in {"asked", "PENDING"},
           NEW x, NEW y, Turns(f, x, y), NEW b, b = refund[f].booking
    PROVE  /\ TypeOK /\ b \in Bookings /\ Status(b)' = y
           /\ \A c \in Bookings \ {b} : Status(c)' = Status(c)
           /\ \A g \in Refunds \ {f} : refund'[g] = refund[g]
           /\ refund'[f].status = x /\ refund'[f].booking = b
           /\ refund'[f].amount = refund[f].amount
           /\ \A g \in Refunds :
                 refund'[g].booking = b /\ refund'[g].status \in {"asked", "PENDING"} => g = f
BY DEF IInv, TypeOK, RefundOK, RefundRow, Turns, Only, Status

\* The other bookings do not notice.
LEMMA TurnsOthers ==
    ASSUME IInv, MoneyInv, NEW f \in Refunds, refund[f].status \in {"asked", "PENDING"},
           NEW x, NEW y, Turns(f, x, y), NEW b, b = refund[f].booking, Fits(b)'
    PROVE  MoneyInv'
<1>1. ASSUME NEW c \in Bookings \ {b}  PROVE Fits(c)'
  BY <1>1, TurnsRows, FitsKept DEF MoneyInv
<1> QED  BY <1>1 DEF MoneyInv

\* A refund that ends otherwise than processed, or is accepted for later.
LEMMA MoneyUnsettled ==
    ASSUME IInv, MoneyInv, NEW f \in Refunds, Dies(f) \/ Waits(f) \/ Fails(f)
    PROVE  MoneyInv'
<1>1. PICK b : b = refund[f].booking
  OBVIOUS
<1>2. refund[f].status = "asked" /\ Status(b) \in {"CAPTURED", "PARTIALLY_REFUNDED"}
  BY <1>1 DEF IInv, RefundOK, Dies, Waits, Fails
<1>3. PICK x \in {"gone", "PENDING", "FAILED"}, y \in Paid :
        /\ Turns(f, x, y)
        /\ y = "PARTIALLY_REFUNDED" => y = Status(b)
        /\ y # "REFUNDED"
        /\ y = "REFUND_PENDING" => x = "PENDING"
  BY <1>1, <1>2 DEF Dies, Waits, Fails, Paid
<1>4. /\ TypeOK /\ b \in Bookings /\ Status(b)' = y
      /\ \A g \in Refunds \ {f} : refund'[g] = refund[g]
      /\ refund'[f].status = x /\ refund'[f].booking = b
      /\ refund'[f].amount = refund[f].amount
      /\ \A g \in Refunds :
            refund'[g].booking = b /\ refund'[g].status \in {"asked", "PENDING"} => g = f
  BY <1>1, <1>2, <1>3, TurnsRows
<1>5. Refunded(b)' = Refunded(b)
  <2>1. ProcessedRefunds(b)' = ProcessedRefunds(b)
    BY <1>2, <1>3, <1>4 DEF ProcessedRefunds
  <2> QED  BY <1>4, <2>1, RefundedSame DEF ProcessedRefunds
<1>6. Refunded(b) + refund[f].amount <= Price /\ refund[f].amount \in 1..Price
  BY <1>1, <1>2, <1>4 DEF MoneyInv, Fits
<1>7. Fits(b)'
  <2>1. Refunded(b) < Price
    BY <1>6, RefundedNat, PaymentAssumption
  <2>2. y = "PARTIALLY_REFUNDED" => Refunded(b) # 0
    BY <1>3, <1>4 DEF MoneyInv, Fits
  <2>3. x = "PENDING" => f \in PendingRefunds(b)'
    BY <1>4 DEF PendingRefunds
  <2>4. \A g \in Refunds : refund'[g].booking = b /\ refund'[g].status # "absent" =>
            refund'[g].amount \in 1..Price
    BY <1>4, <1>6 DEF MoneyInv, Fits
  <2> QED
    BY <1>3, <1>4, <1>5, <1>6, <2>1, <2>2, <2>3, <2>4, RefundedNat, PaymentAssumption
    DEF Fits
<1> QED  BY <1>1, <1>2, <1>3, <1>7, TurnsOthers

\* A settled refund.
LEMMA MoneySettles ==
    ASSUME IInv, MoneyInv, NEW f \in Refunds, Settles(f), NEW b, b = refund[f].booking
    PROVE  /\ MoneyInv'
           /\ b \in Bookings /\ refund[f].amount \in 1..Price
           /\ Refunded(b) + refund[f].amount <= Price
           /\ Refunded(b)' = Refunded(b) + refund[f].amount
<1>1. PICK y : /\ y = RefundTarget(Refunded(b) + refund[f].amount)
               /\ Turns(f, "PROCESSED", y)
  BY DEF Settles
<1>2. /\ TypeOK /\ b \in Bookings /\ Status(b)' = y
      /\ \A g \in Refunds \ {f} : refund'[g] = refund[g]
      /\ refund'[f].status = "PROCESSED" /\ refund'[f].booking = b
      /\ refund'[f].amount = refund[f].amount
      /\ \A g \in Refunds :
            refund'[g].booking = b /\ refund'[g].status \in {"asked", "PENDING"} => g = f
  BY <1>1, TurnsRows DEF Settles
<1>3. Refunded(b) + refund[f].amount <= Price /\ refund[f].amount \in 1..Price
  BY <1>2 DEF MoneyInv, Fits, Settles
<1>4. Refunded(b)' = Refunded(b) + refund[f].amount
  BY <1>1, <1>2, <1>3, RefundedGrows DEF Turns, Settles
<1>5. Fits(b)'
  <2>1. Refunded(b)' \in 1..Price
    BY <1>3, <1>4, RefundedNat, PaymentAssumption
  <2>2. y = IF Refunded(b)' = Price THEN "REFUNDED" ELSE "PARTIALLY_REFUNDED"
    BY <1>1, <1>4 DEF RefundTarget
  <2>3. \A g \in Refunds : refund'[g].booking = b /\ refund'[g].status # "absent" =>
            refund'[g].amount \in 1..Price
    BY <1>2, <1>3 DEF MoneyInv, Fits
  <2> QED  BY <1>2, <2>1, <2>2, <2>3, PaymentAssumption DEF Fits, Paid
<1>6. MoneyInv'
  BY <1>1, <1>5, TurnsOthers DEF Settles
<1> QED  BY <1>2, <1>3, <1>4, <1>6

LEMMA StepMoney ==
    ASSUME IInv, MoneyInv, [Next]_vars
    PROVE  MoneyInv'
<1>1. MoneyStep
  BY MoneySteps
<1>2. CASE Quiet
  BY <1>2, FitsKept DEF Quiet, MoneyInv, Status
<1>3. ASSUME NEW b \in Bookings, Opens(b) \/ GivesUp(b) \/ Captures(b)  PROVE MoneyInv'
  BY <1>3, MoneyOpens DEF Opens, GivesUp, Captures
<1>4. ASSUME NEW f \in Refunds, NEW b, NEW amount, Asks(f, b, amount)  PROVE MoneyInv'
  BY <1>4, MoneyAsks
<1> QED  BY <1>1, <1>2, <1>3, <1>4, MoneyUnsettled, MoneySettles DEF MoneyStep

-----------------------------------------------------------------------------
(* What a step does to the account of a booking and to what was told       *)

Same(b) ==
    /\ outbox'[b] = outbox[b] /\ Refunded(b)' = Refunded(b)
    /\ \/ payment'[b].status = Status(b)
       \/ Status(b) \in Unpaid /\ payment'[b].status \in Unpaid
       \/ Status(b) \in Paid /\ payment'[b].status \in Paid

Says(b, type, amount) ==
    outbox'[b] = Append(outbox[b], [type |-> type, amount |-> amount])

Refuses(b) ==
    /\ Status(b) \in Unpaid /\ payment'[b].status = "FAILED"
    /\ Refunded(b)' = Refunded(b) /\ Says(b, "failed", Price)

Takes(b) ==
    /\ Status(b) \in Unpaid /\ payment'[b].status = "CAPTURED"
    /\ Refunded(b) = 0 /\ Refunded(b)' = 0 /\ Says(b, "captured", Price)

Returns(b, amount) ==
    /\ Status(b) \in Paid /\ payment'[b].status \in Paid
    /\ Refunded(b) + amount <= Price
    /\ Refunded(b)' = Refunded(b) + amount /\ Says(b, "refunded", amount)

\* Every step of the service is at most one of these, of one booking.
LedgerStep ==
    \/ \A b \in Bookings : Same(b)
    \/ \E b \in Bookings :
          /\ \A c \in Bookings \ {b} : Same(c)
          /\ Refuses(b) \/ Takes(b) \/ \E amount \in 1..Price : Returns(b, amount)

\* Announcing an event of one booking leaves the others untold.
LEMMA AnnounceOne ==
    ASSUME TypeOK, NEW b \in Bookings, NEW type, NEW amount, Announce(b, type, amount)
    PROVE  Says(b, type, amount) /\ \A c \in Bookings \ {b} : outbox'[c] = outbox[c]
BY DEF TypeOK, Announce, Says

LEMMA SumKept ==
    ASSUME NEW b,
           \A g \in Refunds : \/ refund'[g] = refund[g]
                              \/ /\ refund'[g].booking # b \/ refund'[g].status # "PROCESSED"
                                 /\ refund[g].booking # b \/ refund[g].status # "PROCESSED"
    PROVE  Refunded(b)' = Refunded(b)
<1>1. ProcessedRefunds(b)' = ProcessedRefunds(b)
  BY DEF ProcessedRefunds
<1> QED  BY <1>1, RefundedSame DEF ProcessedRefunds

\* Steps without a refund.
LEMMA LedgerPayment ==
    ASSUME IInv, MoneyInv, UNCHANGED refund, NEW b \in Bookings,
           Opens(b) \/ GivesUp(b) \/ Captures(b)
    PROVE  LedgerStep
<1>1. TypeOK /\ \A c \in Bookings : Refunded(c)' = Refunded(c)
  BY SumKept DEF IInv
<1>2. Status(b) \in Unpaid /\ Refunded(b) = 0
  BY UnpaidHasNone DEF Opens, GivesUp, Captures, Unpaid, Paid
<1>3. CASE Opens(b)
  BY <1>1, <1>3 DEF Opens, Only, LedgerStep, Same, Unpaid
<1>4. ASSUME NEW st, Only(b, st), NEW type, Announce(b, type, Price)
      PROVE  /\ Says(b, type, Price) /\ payment'[b].status = st
             /\ \A c \in Bookings \ {b} : Same(c)
  BY <1>1, <1>4, AnnounceOne DEF Only, Same
<1>5. CASE GivesUp(b)
  <2>1. Refuses(b) /\ \A c \in Bookings \ {b} : Same(c)
    BY <1>1, <1>4, <1>5 DEF GivesUp, Refuses
  <2> QED  BY <2>1 DEF LedgerStep
<1>6. CASE Captures(b)
  <2>1. Takes(b) /\ \A c \in Bookings \ {b} : Same(c)
    BY <1>1, <1>2, <1>4, <1>6 DEF Captures, Takes
  <2> QED  BY <2>1 DEF LedgerStep
<1> QED  BY <1>3, <1>5, <1>6

\* A refund that begins, or ends otherwise than processed.
LEMMA LedgerRefund ==
    ASSUME IInv, MoneyInv, NEW f \in Refunds,
           (\E b, amount : Asks(f, b, amount)) \/ Dies(f) \/ Waits(f) \/ Fails(f)
    PROVE  LedgerStep
<1>1. CASE \E b, amount : Asks(f, b, amount)
  <2>1. UNCHANGED <<payment, outbox>>
    BY <1>1 DEF Asks
  <2>2. \A g \in Refunds : \/ refund'[g] = refund[g]
                           \/ refund'[g].status # "PROCESSED" /\ refund[g].status # "PROCESSED"
    BY <1>1 DEF IInv, TypeOK, Asks
  <2> QED  BY <2>1, <2>2, SumKept DEF LedgerStep, Same, Status
<1>2. CASE Dies(f) \/ Waits(f) \/ Fails(f)
  <2>1. PICK b : b = refund[f].booking
    OBVIOUS
  <2>2. refund[f].status = "asked" /\ Status(b) \in Paid
    BY <1>2, <2>1 DEF IInv, RefundOK, Dies, Waits, Fails, Paid
  <2>3. PICK x \in {"gone", "PENDING", "FAILED"}, y \in Paid : Turns(f, x, y)
    BY <1>2, <2>1, <2>2 DEF Dies, Waits, Fails, Paid
  <2>4. /\ b \in Bookings /\ Status(b)' = y
        /\ \A c \in Bookings \ {b} : Status(c)' = Status(c)
        /\ \A g \in Refunds \ {f} : refund'[g] = refund[g]
        /\ refund'[f].status = x
    BY <2>1, <2>2, <2>3, TurnsRows
  <2>5. \A c \in Bookings : Refunded(c)' = Refunded(c)
    BY <2>2, <2>3, <2>4, SumKept
  <2>6. \A c \in Bookings : \/ payment'[c].status = Status(c)
                            \/ Status(c) \in Paid /\ payment'[c].status \in Paid
    BY <2>2, <2>4 DEF Status
  <2>7. UNCHANGED outbox
    BY <1>2 DEF Dies, Waits, Fails
  <2> QED  BY <2>5, <2>6, <2>7 DEF LedgerStep, Same
<1> QED  BY <1>1, <1>2

LEMMA LedgerSettles ==
    ASSUME IInv, MoneyInv, NEW f \in Refunds, Settles(f)
    PROVE  LedgerStep
<1>1. PICK b : b = refund[f].booking
  OBVIOUS
<1>2. PICK amount : amount = refund[f].amount
  OBVIOUS
<1>3. /\ b \in Bookings /\ amount \in 1..Price /\ Refunded(b) + amount <= Price
      /\ Refunded(b)' = Refunded(b) + amount
  BY <1>1, <1>2, MoneySettles
<1>4. PICK y \in Paid : Turns(f, "PROCESSED", y)
  BY DEF Settles, RefundTarget, Paid
<1>5. /\ TypeOK /\ Status(b)' = y
      /\ \A c \in Bookings \ {b} : Status(c)' = Status(c)
      /\ \A g \in Refunds \ {f} : refund'[g] = refund[g]
      /\ refund'[f].booking = b
  BY <1>1, <1>4, TurnsRows DEF Settles
<1>6. \A c \in Bookings \ {b} : Refunded(c)' = Refunded(c)
  BY <1>1, <1>5, SumKept
<1>7. Says(b, "refunded", amount) /\ \A c \in Bookings \ {b} : outbox'[c] = outbox[c]
  BY <1>1, <1>2, <1>3, <1>5, AnnounceOne DEF Settles
<1>8. Returns(b, amount)
  BY <1>1, <1>3, <1>4, <1>5, <1>7 DEF Returns, Settles, MoneyInv, Fits, Status
<1>9. \A c \in Bookings \ {b} : Same(c)
  BY <1>5, <1>6, <1>7 DEF Same, Status
<1> QED  BY <1>3, <1>8, <1>9 DEF LedgerStep

LEMMA LedgerSteps ==
    ASSUME IInv, MoneyInv, [Next]_vars
    PROVE  LedgerStep
<1>1. MoneyStep
  BY MoneySteps
<1>2. CASE Quiet
  BY <1>2, SumKept DEF Quiet, LedgerStep, Same
<1>3. ASSUME NEW b \in Bookings, Opens(b) \/ GivesUp(b) \/ Captures(b)  PROVE LedgerStep
  BY <1>3, LedgerPayment DEF Opens, GivesUp, Captures
<1> QED  BY <1>1, <1>2, <1>3, LedgerRefund, LedgerSettles DEF MoneyStep

-----------------------------------------------------------------------------
(* What the outbox has told                                                *)

\* The amounts of a longer outbox sum up to the new one more.
LEMMA ToldGrows ==
    ASSUME TypeOK, NEW b \in Bookings, outbox[b] # <<>>, NEW amount \in 1..Price,
           Says(b, "refunded", amount)
    PROVE  Total(Told(b), 2..Len(outbox[b]))' = Total(Told(b), 2..Len(outbox[b])) + amount
<1> DEFINE n == Len(outbox[b])
           S == 2..n
           new == [i \in DOMAIN outbox'[b] |-> outbox'[b][i].amount]
<1>1. outbox[b] \in Seq(Event) /\ n \in Nat \ {0}
  BY DEF TypeOK
<1>2. /\ Len(outbox'[b]) = n + 1
      /\ \A i \in 1..n : outbox'[b][i] = outbox[b][i]
      /\ outbox'[b][n + 1].amount = amount
      /\ DOMAIN outbox'[b] = 1..(n + 1) /\ DOMAIN outbox[b] = 1..n
  BY <1>1 DEF Says
<1>3. /\ \A i \in S : new[i] = Told(b)[i]
      /\ new[n + 1] = amount
  BY <1>1, <1>2 DEF Told
<1>4. 2..(n + 1) = S \cup {n + 1} /\ n + 1 \notin S
  BY <1>1
<1>5. IsFiniteSet(S)
  BY <1>1, FS_Interval
<1>6. Total(Told(b), 2..Len(outbox[b]))' = Total(new, 2..(n + 1))
  BY <1>2 DEF Told
<1> HIDE DEF new, S
<1>7. Total(new, S \cup {n + 1}) = Total(new, S) + amount
  <2>1. new[n + 1] \in 0..Price /\ new[n + 1] = amount
    BY <1>3
  <2> HIDE DEF n
  <2> QED  BY <1>4, <1>5, <2>1, TotalAdds
<1>8. Total(new, S) = Total(Told(b), S)
  BY <1>3, TotalSame
<1> QED  BY <1>4, <1>6, <1>7, <1>8 DEF S

LEMMA AppendToNone == \A e : Append(<<>>, e) = <<e>>
OBVIOUS

LEMMA StepTold ==
    ASSUME IInv, MoneyInv, OutboxTellsTheMoney, [Next]_vars
    PROVE  OutboxTellsTheMoney'
<1> DEFINE Tells(b) ==
        /\ Status(b) \in Unpaid => outbox[b] = <<>>
        /\ Status(b) = "FAILED" => outbox[b] = <<[type |-> "failed", amount |-> Price]>>
        /\ Status(b) \in Paid =>
              /\ outbox[b] # <<>> /\ outbox[b][1].type = "captured"
              /\ \A i \in 2..Len(outbox[b]) : outbox[b][i].type = "refunded"
              /\ Total(Told(b), 2..Len(outbox[b])) = Refunded(b)
<1>0. TypeOK /\ \A b \in Bookings : Tells(b) /\ outbox[b] \in Seq(Event)
  BY DEF IInv, TypeOK, OutboxTellsTheMoney
<1>1. ASSUME NEW b \in Bookings, Same(b)  PROVE Tells(b)'
  <2>1. Told(b)' = Told(b) /\ Len(outbox[b])' = Len(outbox[b])
    BY <1>1 DEF Told, Same
  <2> QED  BY <1>0, <1>1, <2>1 DEF Same, Status, Unpaid, Paid
<1>2. ASSUME NEW b \in Bookings, Refuses(b)  PROVE Tells(b)'
  <2>1. outbox[b] = <<>> /\ outbox'[b] = <<[type |-> "failed", amount |-> Price]>>
    BY <1>0, <1>2, AppendToNone DEF Refuses, Says
  <2> QED  BY <1>2, <2>1 DEF Refuses, Status, Unpaid, Paid
<1>3. ASSUME NEW b \in Bookings, Takes(b)  PROVE Tells(b)'
  <2>1. outbox[b] = <<>> /\ outbox'[b] = <<[type |-> "captured", amount |-> Price]>>
    BY <1>0, <1>3, AppendToNone DEF Takes, Says
  <2>2. 2..Len(outbox'[b]) = {} /\ outbox'[b] # <<>> /\ outbox'[b][1].type = "captured"
    BY <2>1
  <2>3. Total(Told(b), 2..Len(outbox[b]))' = 0
    BY <2>2, TotalEmpty
  <2> QED  BY <1>3, <2>2, <2>3 DEF Takes, Status, Unpaid, Paid
<1>4. ASSUME NEW b \in Bookings, NEW amount \in 1..Price, Returns(b, amount)
      PROVE  Tells(b)'
  <2>1. /\ outbox[b] # <<>> /\ outbox[b][1].type = "captured"
        /\ \A i \in 2..Len(outbox[b]) : outbox[b][i].type = "refunded"
        /\ Total(Told(b), 2..Len(outbox[b])) = Refunded(b)
    BY <1>0, <1>4 DEF Returns
  <2>2. /\ outbox'[b] # <<>> /\ outbox'[b][1].type = "captured"
        /\ \A i \in 2..Len(outbox'[b]) : outbox'[b][i].type = "refunded"
    BY <1>0, <1>4, <2>1 DEF Returns, Says
  <2>3. Total(Told(b), 2..Len(outbox[b]))' = Refunded(b)'
    BY <1>0, <1>4, <2>1, ToldGrows DEF Returns
  <2> QED  BY <1>4, <2>2, <2>3 DEF Returns, Status, Unpaid, Paid
<1>5. \A b \in Bookings : Tells(b)'
  BY <1>1, <1>2, <1>3, <1>4, LedgerSteps DEF LedgerStep
<1> QED  BY <1>5 DEF OutboxTellsTheMoney


-----------------------------------------------------------------------------
(* The ledger                                                              *)

Class(st) == CASE st \in Unpaid -> "open"
               [] st = "FAILED" -> "failed"
               [] OTHER -> "captured"

account == [b \in Bookings |-> Account(b)]

LEMMA Classes ==
    /\ \A st \in Unpaid : Class(st) = "open"
    /\ Class("FAILED") = "failed"
    /\ \A st \in Paid : Class(st) = "captured"
BY DEF Class, Unpaid, Paid

\* A booking's account, before and after a step.
LEMMA AccountIs ==
    ASSUME NEW b \in Bookings
    PROVE  /\ account[b] = [state |-> Class(Status(b)), back |-> Refunded(b)]
           /\ account'[b] = [state |-> Class(payment'[b].status), back |-> Refunded(b)']
BY DEF account, Account, Class, Status

LEMMA InitLedger == Init => Accounts!Init
<1> SUFFICES ASSUME Init  PROVE account = [b \in Bookings |-> [state |-> "open", back |-> 0]]
  BY DEF Accounts!Init, account
<1>1. ASSUME NEW b \in Bookings  PROVE account[b] = [state |-> "open", back |-> 0]
  <2>1. Status(b) \in Unpaid
    BY <1>1 DEF Init, Status, Unpaid
  <2>2. Refunded(b) = 0
    BY NothingRefunded DEF Init, ProcessedRefunds
  <2> QED  BY <1>1, <2>1, <2>2, AccountIs, Classes
<1> QED  BY <1>1 DEF account

\* Each step takes the price of one booking, gives one up, pays one back within the
\* price, or leaves every account as it is.
LEMMA StepLedger ==
    ASSUME IInv, MoneyInv, [Next]_vars
    PROVE  [Accounts!Next]_account
<1>1. ASSUME NEW b \in Bookings, Same(b)  PROVE account'[b] = account[b]
  BY <1>1, AccountIs, Classes DEF Same
<1>2. CASE \A b \in Bookings : Same(b)
  <2>1. account' = account
    BY <1>1, <1>2 DEF account
  <2> QED  BY <2>1
<1>3. ASSUME NEW b \in Bookings, \A c \in Bookings \ {b} : Same(c),
             NEW new, account'[b] = new
      PROVE  account' = [account EXCEPT ![b] = new]
  BY <1>1, <1>3 DEF account
<1>4. ASSUME NEW b \in Bookings, \A c \in Bookings \ {b} : Same(c), Refuses(b)
      PROVE  Accounts!GiveUp(b)
  <2> DEFINE new == [state |-> "failed", back |-> Refunded(b)]
  <2>1. account[b] = [state |-> "open", back |-> Refunded(b)] /\ account'[b] = new
    BY <1>4, AccountIs, Classes DEF Refuses
  <2>2. account' = [account EXCEPT ![b] = new]
    BY <1>3, <1>4, <2>1
  <2>3. [account[b] EXCEPT !.state = "failed"] = new
    BY <2>1
  <2>4. account' = [account EXCEPT ![b].state = "failed"]
    BY <2>2, <2>3, Zenon
  <2> QED  BY <2>1, <2>2, <2>4 DEF Accounts!GiveUp, account
<1>5. ASSUME NEW b \in Bookings, \A c \in Bookings \ {b} : Same(c), Takes(b)
      PROVE  Accounts!Capture(b)
  <2> DEFINE new == [state |-> "captured", back |-> Refunded(b)]
  <2>1. "CAPTURED" \in Paid
    BY DEF Paid
  <2>2. account[b] = [state |-> "open", back |-> Refunded(b)] /\ account'[b] = new
    BY <1>5, <2>1, AccountIs, Classes DEF Takes
  <2>3. account' = [account EXCEPT ![b] = new]
    BY <1>3, <1>5, <2>2
  <2>4. [account[b] EXCEPT !.state = "captured"] = new
    BY <2>2
  <2>5. account' = [account EXCEPT ![b].state = "captured"]
    BY <2>3, <2>4, Zenon
  <2> QED  BY <2>2, <2>3, <2>5 DEF Accounts!Capture, account
<1>6. ASSUME NEW b \in Bookings, \A c \in Bookings \ {b} : Same(c),
             NEW amount \in 1..Price, Returns(b, amount)
      PROVE  Accounts!PayBack(b, amount)
  <2> DEFINE new == [state |-> "captured", back |-> Refunded(b) + amount]
  <2>1. /\ account[b] = [state |-> "captured", back |-> Refunded(b)]
        /\ account'[b] = new
    BY <1>6, AccountIs, Classes DEF Returns
  <2>2. account' = [account EXCEPT ![b] = new]
    BY <1>3, <1>6, <2>1
  <2>3. Refunded(b) + amount <= Price
    BY <1>6 DEF Returns
  <2>4. [account[b] EXCEPT !.back = account[b].back + amount] = new
    BY <2>1
  <2>5. account' = [account EXCEPT ![b].back = account[b].back + amount]
    BY <2>2, <2>4, Zenon
  <2> QED  BY <2>1, <2>2, <2>3, <2>5 DEF Accounts!PayBack, account
<1> QED  BY <1>2, <1>4, <1>5, <1>6, LedgerSteps DEF LedgerStep, Accounts!Next


-----------------------------------------------------------------------------
(* Theorems                                                                *)

\* What a running request has in hand and the properties it protects hold together, in
\* every reachable state.
THEOREM PaymentInductive == Spec => []IInv
<1>1. IInv /\ [Next]_vars => IInv'
  BY StepType, StepOrder, StepRefund, StepCaptured, StepRecorded, StepHooks DEF IInv
<1> QED  BY InitInv, <1>1, PTL DEF Spec

\* Rows, requests, webhooks and outbox of payment-service stay well formed.
THEOREM PaymentTypeCorrect == Spec => []TypeOK
<1>1. IInv => TypeOK
  BY DEF IInv
<1> QED  BY PaymentInductive, <1>1, PTL

\* payment-service counts a payment as captured only when the provider captured it, and
\* names that capture in a refund unless a refused webhook replaced the reference.
THEOREM CapturesArePaid == Spec => []CapturedIsPaid
<1>1. IInv => CapturedIsPaid
  BY DEF IInv
<1> QED  BY PaymentInductive, <1>1, PTL

\* A capture whose event was delivered is recorded, unless another attempt's failure was
\* recorded first.
THEOREM CapturesAreRecorded == Spec => []CaptureIsRecorded
<1>1. IInv => CaptureIsRecorded
  <2> SUFFICES ASSUME IInv, NEW b \in Bookings, NEW a \in Attempts,
                      attempt[a].booking = b, webhook[<<a, "captured">>] # "absent"
               PROVE  \/ Status(b) \in Paid
                      \/ /\ Status(b) = "FAILED"
                         /\ \E o \in Attempts \ {a} :
                               /\ attempt[o].booking = b
                               /\ webhook[<<o, "failed">>] = "PROCESSED"
    BY DEF CaptureIsRecorded
  <2>1. /\ Status(b) \in Paid \cup {"FAILED"} /\ payment[b].order = "open"
        /\ "captured" \in attempt[a].events
    BY DEF IInv, HooksOK, OpenOK, AttemptEvent
  <2>2. CASE Status(b) = "FAILED"
    <3>1. PICK o \in Attempts : attempt[o].booking = b /\ webhook[<<o, "failed">>] = "PROCESSED"
      BY <2>1, <2>2 DEF IInv, OpenOK, GivenUp
    <3>2. o # a
      BY <2>1, <3>1 DEF IInv, HooksOK, AttemptEvent
    <3> QED  BY <2>2, <3>1, <3>2
  <2> QED  BY <2>1, <2>2
<1> QED  BY PaymentInductive, <1>1, PTL

\* No refund row says processed before the provider paid, or pending without an answer other
\* than processed; none denies what the provider took on unless the answer was lost.
THEOREM RefundsArePaid == Spec => []RecordedRefundIsPaid
<1>1. IInv => RecordedRefundIsPaid
  BY DEF IInv
<1> QED  BY PaymentInductive, <1>1, PTL

\* create_order writes a booking's key and order once, however its requests interleave.
THEOREM OrdersAreFinal == Spec => OrderIsNeverReplaced
<1> DEFINE Once ==
      \A b \in Bookings :
         /\ Status(b) # "absent" =>
                payment'[b].key = payment[b].key /\ payment'[b].order = payment[b].order
         /\ Status(b) = "absent" /\ payment'[b].key # None =>
                \A c \in Bookings : payment[c].key # payment'[b].key
<1>1. ASSUME IInv, [Next]_vars  PROVE Once
  <2>0. /\ payment \in [Bookings -> PaymentRow] /\ request \in [Requests -> OrderRequest]
        /\ RequestOK /\ OrderOK
    BY <1>1 DEF IInv, TypeOK
  <2>1. CASE KeepsOrders
    BY <2>0, <2>1 DEF KeepsOrders, OrderOK
  <2>2. ASSUME NEW r \in Requests, OrderNext(r)  PROVE Once
    <3>1. CASE UNCHANGED payment
      BY <2>0, <3>1 DEF OrderOK
    <3>2. CASE OrderOpen(r) \/ OrderFail(r)
      BY <2>0, <3>2 DEF OrderOpen, OrderFail, OrderOK, Status
    <3> QED  BY <2>2, <3>1, <3>2 DEF OrderNext, OrderLookup, OrderInsert, OrderEnd
  <2> QED  BY <1>1, <2>1, <2>2, OtherSteps
<1>2. ASSUME IInv, [Next]_vars  PROVE [Once]_vars
  BY <1>1, <1>2
<1> QED  BY PaymentInductive, <1>2, PTL DEF Spec, OrderIsNeverReplaced

\* Refund rows, payment status and price stay in step.
THEOREM MoneyInductive == Spec => [](IInv /\ MoneyInv)
<1>1. IInv /\ MoneyInv /\ [Next]_vars => MoneyInv'
  BY StepMoney
<1> QED  BY PaymentInductive, InitMoney, <1>1, PTL DEF Spec

\* Whichever way each refund ended, the payment's status tells what was paid back: the
\* whole price exactly when it is REFUNDED, and a pending refund never beyond the price.
THEOREM RefundsAddUp == Spec => []StatusTellsTheRefunds
<1>1. ASSUME IInv, MoneyInv  PROVE StatusTellsTheRefunds
  <2> SUFFICES ASSUME NEW b \in Bookings
               PROVE  /\ Status(b) = "REFUNDED" <=> Refunded(b) = Price
                      /\ Status(b) = "PARTIALLY_REFUNDED" => Refunded(b) \in 1..(Price - 1)
                      /\ Status(b) = "REFUND_PENDING" <=> PendingRefunds(b) # {}
                      /\ \A f, g \in PendingRefunds(b) :
                            f = g /\ Refunded(b) + refund[f].amount <= Price
    BY DEF StatusTellsTheRefunds
  <2>1. Fits(b) /\ RefundOK
    BY <1>1 DEF MoneyInv, IInv
  <2>2. Status(b) = "PARTIALLY_REFUNDED" => Refunded(b) \in 1..(Price - 1)
    BY <2>1, RefundedNat, PaymentAssumption DEF Fits
  <2>3. Status(b) = "REFUND_PENDING" <=> PendingRefunds(b) # {}
    BY <2>1 DEF Fits, RefundOK, PendingRefunds
  <2>4. \A f, g \in PendingRefunds(b) : f = g /\ Refunded(b) + refund[f].amount <= Price
    BY <2>1 DEF Fits, RefundOK, PendingRefunds
  <2> QED  BY <2>1, <2>2, <2>3, <2>4 DEF Fits
<1> QED  BY MoneyInductive, <1>1, PTL

\* What the outbox has announced of a payment is its story: nothing, one failure, or one
\* capture and refunds that sum up to the processed ones.
THEOREM OutboxTellsTheStory == Spec => []OutboxTellsTheMoney
<1>1. Init => OutboxTellsTheMoney
  BY DEF Init, OutboxTellsTheMoney, Status, Unpaid, Paid
<1>2. IInv /\ MoneyInv /\ OutboxTellsTheMoney /\ [Next]_vars => OutboxTellsTheMoney'
  BY StepTold
<1> QED  BY MoneyInductive, <1>1, <1>2, PTL DEF Spec

\* Orders, webhooks, refunds, lost answers and crashes together take the price of a
\* booking at most once and pay back within it.
THEOREM LedgerImplemented == Spec => ImplementsLedger
<1>1. IInv /\ MoneyInv /\ [Next]_vars => [Accounts!Next]_account
  BY StepLedger
<1> QED  BY InitLedger, MoneyInductive, <1>1, PTL DEF Spec, ImplementsLedger, Accounts!Spec, account

\* No step takes a refund back, and what is FAILED or REFUNDED stays that, whichever
\* webhook or answer comes late.
MovesOn ==
    [][\A b \in Bookings :
         /\ Refunded(b)' >= Refunded(b)
         /\ Status(b) \in {"FAILED", "REFUNDED"} => payment'[b].status = Status(b)]_vars

\* No request, webhook, answer or failure of a refund makes a payment younger.
THEOREM MoneyMovesOn == Spec => MovesOn
<1> DEFINE Older ==
      \A b \in Bookings :
         /\ Refunded(b)' >= Refunded(b)
         /\ Status(b) \in {"FAILED", "REFUNDED"} => payment'[b].status = Status(b)
<1>1. ASSUME IInv, MoneyInv, MoneyInv', [Next]_vars  PROVE Older
  <2> SUFFICES ASSUME NEW b \in Bookings
               PROVE  /\ Refunded(b)' >= Refunded(b)
                      /\ Status(b) \in {"FAILED", "REFUNDED"} =>
                             payment'[b].status = Status(b)
    OBVIOUS
  <2>1. Same(b) \/ Refuses(b) \/ Takes(b) \/ \E amount \in 1..Price : Returns(b, amount)
    BY <1>1, LedgerSteps DEF LedgerStep
  <2>2. Refunded(b) \in Nat /\ Refunded(b)' \in Nat /\ Price \in Nat
    BY <2>1, RefundedNat, PaymentAssumption DEF Same, Refuses, Takes, Returns
  <2>3. /\ Refunded(b) <= Price /\ (Status(b) = "REFUNDED" => Refunded(b) = Price)
        /\ Refunded(b)' <= Price /\ (Refunded(b)' = Price => payment'[b].status = "REFUNDED")
    BY <1>1 DEF MoneyInv, Fits, Status
  <2>4. "FAILED" \notin Unpaid \cup Paid /\ "REFUNDED" \notin Unpaid
    BY DEF Unpaid, Paid
  <2>5. Refunded(b)' >= Refunded(b)
    BY <2>1, <2>2 DEF Same, Refuses, Takes, Returns
  <2>6. ASSUME Status(b) = "FAILED"  PROVE payment'[b].status = "FAILED"
    BY <2>1, <2>4, <2>6 DEF Same, Refuses, Takes, Returns
  <2>7. ASSUME Status(b) = "REFUNDED"  PROVE payment'[b].status = "REFUNDED"
    BY <2>2, <2>3, <2>5, <2>7
  <2> QED  BY <2>5, <2>6, <2>7
<1>2. ASSUME IInv, MoneyInv, MoneyInv', [Next]_vars  PROVE [Older]_vars
  BY <1>1, <1>2
<1> QED  BY MoneyInductive, <1>2, PTL DEF Spec, MovesOn

=============================================================================

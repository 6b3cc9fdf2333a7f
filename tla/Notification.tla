---------------------------- MODULE Notification ----------------------------
(***************************************************************************)
(* notification-service behind the outboxes of the other services: one     *)
(* consumer process, whose handlers run at the same time as its retry      *)
(* loop.                                                                   *)
(*                                                                         *)
(* A handler stores the notifications of an event and the event's id in    *)
(* one transaction and then delivers them from the objects it has in its   *)
(* session: SELECT FOR UPDATE locks the row but does not refresh them, so  *)
(* they are PENDING and unattempted whatever the row says.  The retry loop *)
(* reads the row.                                                          *)
(***************************************************************************)
EXTENDS Outbox

CONSTANTS
    Channels,     \* "email" and "whatsapp"
    Handlers,     \* bound: messages that are handled at the same time (prefetch_count)
    MaxAttempts   \* max_delivery_attempts

\* The types that the consumer binds its queue to, of those that a service publishes.
EventTypes == {"booking.confirmed.v1", "booking.cancelled.v1", "booking.rescheduled.v1",
               "payment.captured.v1", "payment.refunded.v1", "feedback.submitted.v1",
               "interview.interviewer_no_show.v1", "interview.candidate_no_show.v1"}

ASSUME NotificationAssumption ==
    /\ MaxAttempts \in Nat \ {0}
    /\ "loop" \notin Handlers
    /\ IsFiniteSet(Handlers)
    /\ Types \subseteq EventTypes

VARIABLES
    note,        \* table notifications
    processed,   \* table processed_events
    letters,     \* table dead_letter_records: those of whole events, by event
    exhausted,   \* table dead_letter_records: the notifications given up
    rejected,    \* the broker's dead-letter queue
    worker,      \* the handlers and the retry loop
    accepted,    \* external: how often the provider took each message, 2 for more than once
    excused,     \* history: notifications of which the code could not know that they were sent
    unreachable  \* history: events given up because user-service had no address of the candidate

serviceVars ==
    <<note, processed, letters, exhausted, rejected, worker, accepted, excused, unreachable>>

notificationVars == <<outboxVars, serviceVars>>

-----------------------------------------------------------------------------
(* Templates and payloads.                                                 *)

\* The fields that the template of an event type asks for.
Needs(type) ==
    CASE type = "booking.confirmed.v1" -> {"recipient_name", "scheduled_start"}
      [] type \in {"booking.cancelled.v1", "booking.rescheduled.v1"} -> {"scheduled_start"}
      [] type \in {"payment.captured.v1", "payment.refunded.v1"} -> {"amount_rupees", "booking_id"}
      [] type = "interview.interviewer_no_show.v1" -> {}
      [] type \in {"interview.candidate_no_show.v1", "feedback.submitted.v1"} -> {"session_id"}

BookingPayload == {"booking_id", "candidate_id", "scheduled_start", "amount_paise"}

PaymentPayload == {"payment_id", "booking_id", "amount_paise"}

InterviewPayload == {"session_id", "booking_id", "candidate_id"}

\* The payload that the producing service writes into its outbox.
Carries(type) ==
    CASE type \in {"booking.confirmed.v1", "booking.cancelled.v1", "booking.rescheduled.v1"} ->
           BookingPayload
      [] type \in {"payment.captured.v1", "payment.refunded.v1"} -> PaymentPayload
      [] OTHER -> InterviewPayload

\* consume derives the rupees.
Context(type) ==
    Carries(type) \cup (IF "amount_paise" \in Carries(type) THEN {"amount_rupees"} ELSE {})

\* No payload has an address: without a candidate to look up there is no recipient, and with
\* one there is what user-service knows of the candidate.
HasRecipient(type) == "candidate_id" \in Carries(type)

Renders(type) == Needs(type) \subseteq Context(type)

-----------------------------------------------------------------------------

Note == Event \X Channels

Final == {"sent", "dead_lettered"}

Waits(n) == note[n].status = "retry_scheduled" /\ ~ note[n].due

Due == {n \in Note : note[n].status \in {"pending", "retry_scheduled"} /\ ~ Waits(n)}

Workers == Handlers \cup {"loop"}

\* What a handler or the retry loop has in hand: the event, whether its records are stored,
\* the notifications to deliver, the row locks of the loop's read, and the notification it
\* has locked with the provider's answer.
Worker == [event : Event \cup {0}, stored : BOOLEAN, todo : SUBSET Note, locks : SUBSET Note,
           at : Note \cup {<<>>}, answer : {"none", "sent", "failed"}]

Free == [event |-> 0, stored |-> FALSE, todo |-> {}, locks |-> {}, at |-> <<>>, answer |-> "none"]

NotificationTypeOK ==
    /\ TypeOK
    /\ note \in [Note -> [status : Final \cup {"none", "pending", "retry_scheduled"},
                          attempts : 0 .. MaxAttempts, due : BOOLEAN]]
    /\ processed \subseteq arrived
    /\ letters \in [Event -> 0 .. 2]
    /\ exhausted \subseteq Note
    /\ rejected \subseteq arrived
    /\ worker \in [Workers -> Worker]
    /\ accepted \in [Note -> 0 .. 2]
    /\ excused \subseteq Note
    /\ unreachable \subseteq arrived

NotificationInit ==
    /\ OutboxInit
    /\ note = [n \in Note |-> [status |-> "none", attempts |-> 0, due |-> FALSE]]
    /\ processed = {}
    /\ letters = [e \in Event |-> 0]
    /\ exhausted = {}
    /\ rejected = {}
    /\ worker = [w \in Workers |-> Free]
    /\ accepted = [n \in Note |-> 0]
    /\ excused = {}
    /\ unreachable = {}

upstream == <<outbox, published, pub, bound, arrived, unheard>>

producer == <<upstream, faults>>

records == <<note, processed, letters, exhausted, unreachable>>

InHand(e) == {h \in Handlers : worker[h].event = e}

\* What was sent and not recorded is forgotten when its worker fails.
Forgotten(W) == {n \in Note : accepted[n] > 0 /\ \E w \in W : worker[w].at = n}

Less(e) == [queue EXCEPT ![e] = @ - 1]

-----------------------------------------------------------------------------
(* handle and consume                                                      *)

\* A message is handed to a handler; an event that was processed is acknowledged.
Take(h, e) ==
    /\ worker[h] = Free
    /\ queue[e] > 0
    /\ queue' = Less(e)
    /\ worker' = IF e \in processed THEN worker ELSE [worker EXCEPT ![h].event = e]
    /\ UNCHANGED <<producer, records, rejected, accepted, excused>>

\* user-service cannot be reached: the message goes back.
Requeue(h) ==
    LET e == worker[h].event
    IN  /\ e # 0 /\ ~ worker[h].stored /\ HasRecipient(outbox[e])
        /\ queue[e] < MaxCopies
        /\ queue' = [queue EXCEPT ![e] = @ + 1]
        /\ worker' = [worker EXCEPT ![h] = Free]
        /\ Fault
        /\ UNCHANGED <<upstream, records, rejected, accepted, excused>>

\* Any other exception, such as a database error or a candidate whom user-service does not
\* know, rejects the message into the dead-letter queue.
Reject(h) ==
    LET e == worker[h].event
    IN  /\ e # 0
        /\ rejected' = rejected \cup {e}
        /\ worker' = [worker EXCEPT ![h] = Free]
        /\ excused' = excused \cup Forgotten({h})
        /\ UNCHANGED <<producer, queue, records, accepted>>

\* Why nobody can be told of event e: the payload names no candidate or does not fill the
\* template, or user-service has neither an e-mail address nor a telephone number of the
\* candidate, both of which are optional there.
NobodyToTell(e) ==
    \/ ~ (HasRecipient(outbox[e]) /\ Renders(outbox[e])) /\ UNCHANGED unreachable
    \/ HasRecipient(outbox[e]) /\ unreachable' = unreachable \cup {e}

\* Mutant: the dead letter is committed without the event's id.
DeadLetterAlone(h) ==
    LET e == worker[h].event
    IN  /\ e # 0 /\ ~ worker[h].stored
        /\ NobodyToTell(e)
        /\ letters' = [letters EXCEPT ![e] = IF @ = 2 THEN 2 ELSE @ + 1]
        /\ worker' = [worker EXCEPT ![h] = Free]
        /\ UNCHANGED <<producer, queue, note, processed, exhausted, rejected, accepted, excused>>

\* The recipient is missing or the template does not render: one commit writes the
\* dead letter and the event's id.  If the id is there already the commit raises (Reject).
DeadLetter(h) ==
    LET e == worker[h].event
    IN  /\ e # 0 /\ ~ worker[h].stored
        /\ NobodyToTell(e)
        /\ e \notin processed
        /\ letters' = [letters EXCEPT ![e] = IF @ = 2 THEN 2 ELSE @ + 1]
        /\ processed' = processed \cup {e}
        /\ worker' = [worker EXCEPT ![h] = Free]
        /\ UNCHANGED <<producer, queue, note, exhausted, rejected, accepted, excused>>

\* One commit writes the notifications and the event's id, one for each channel of which
\* user-service gave an address (of none it is DeadLetter).  If another handler was first, the commit fails, is rolled back, and the
\* message is acknowledged.
Store(h) ==
    LET e == worker[h].event
    IN  /\ e # 0 /\ ~ worker[h].stored
        /\ HasRecipient(outbox[e]) /\ Renders(outbox[e])
        /\ IF e \in processed
           THEN /\ worker' = [worker EXCEPT ![h] = Free]
                /\ UNCHANGED <<note, processed>>
           ELSE \E some \in (SUBSET Channels) \ {{}} :
                  /\ note' = [n \in Note |-> IF n \in {e} \X some
                                THEN [status |-> "pending", attempts |-> 0, due |-> FALSE]
                                ELSE note[n]]
                  /\ processed' = processed \cup {e}
                  /\ worker' = [worker EXCEPT ![h].stored = TRUE, ![h].todo = {e} \X some]
        /\ UNCHANGED <<producer, queue, letters, exhausted, rejected, accepted, excused, unreachable>>

-----------------------------------------------------------------------------
(* deliver                                                                 *)

LockedBut(w) == UNION {worker[v].locks : v \in Workers \ {w}}

\* Mutant: the loop does not look at the row again before it sends.
SkipsNothing(w, n) == FALSE

\* The early returns of deliver: the loop sees the row, a handler its own pending copy.
Skips(w, n) ==
    w = "loop" /\ (note[n].status \in Final \/ Waits(n))

\* The handler's copy says PENDING, the row does not.
Stale(w, n) == w # "loop" /\ note[n].status # "pending"

\* The provider answers, answers with an error, or its answer is lost.  An e-mail with a
\* known Idempotency-Key is not sent again; WhatsApp takes it as a new message.
Accept(n) ==
    accepted' = [accepted EXCEPT ![n] =
        IF n[2] = "email" \/ @ = 2 THEN IF @ = 0 THEN 1 ELSE @ ELSE @ + 1]

\* The row is locked, the provider called.
Send(w, n) ==
    /\ worker[w].at = <<>> /\ n \in worker[w].todo
    /\ n \notin LockedBut(w)
    /\ ~ Skips(w, n)
    /\ \E answer \in {"sent", "failed"}, taken \in BOOLEAN :
         /\ answer = "sent" => taken
         /\ IF taken THEN Accept(n) ELSE UNCHANGED accepted
         /\ excused' = IF Stale(w, n) \/ (taken /\ answer = "failed")
                       THEN excused \cup {n} ELSE excused
         /\ worker' = [worker EXCEPT ![w].at = n, ![w].answer = answer,
                                     ![w].locks = @ \cup {n}]
    /\ UNCHANGED <<producer, queue, records, rejected>>

\* The attempts as the worker counts them: a handler's copy starts at none.
Attempts(w, n) == (IF w = "loop" THEN note[n].attempts ELSE 0) + 1

\* The row after an attempt.
Recorded(w, n) ==
    [status |-> IF worker[w].answer = "sent" THEN "sent"
                ELSE IF Attempts(w, n) >= MaxAttempts THEN "dead_lettered"
                ELSE "retry_scheduled",
     attempts |-> Attempts(w, n), due |-> FALSE]

\* The worker has no more to deliver: a handler acknowledges, the loop sleeps.
After(w, todo) == IF todo = {} THEN Free
                  ELSE [worker[w] EXCEPT !.todo = todo, !.locks = {}, !.at = <<>>, !.answer = "none"]

\* The commit of an attempt; it drops every lock of the transaction.
Record(w) ==
    LET n == worker[w].at
    IN  /\ n # <<>>
        /\ note' = [note EXCEPT ![n] = Recorded(w, n)]
        /\ exhausted' = IF note'[n].status = "dead_lettered" THEN exhausted \cup {n} ELSE exhausted
        /\ worker' = [worker EXCEPT ![w] = After(w, worker[w].todo \ {n})]
        /\ UNCHANGED <<producer, queue, processed, letters, rejected, accepted, excused, unreachable>>

-----------------------------------------------------------------------------
(* retry_loop and retry_due                                                *)

\* Mutant: only notifications that failed before are selected.
SelectFailed ==
    LET found == {n \in Due \ LockedBut("loop") : note[n].status = "retry_scheduled"}
    IN  /\ worker["loop"] = Free
        /\ found # {}
        /\ worker' = [worker EXCEPT !["loop"].todo = found, !["loop"].locks = found]
        /\ UNCHANGED <<producer, queue, records, rejected, accepted, excused>>

\* The ids of the due notifications are read, their rows locked up to the first commit.
SelectDue ==
    LET found == Due \ LockedBut("loop")
    IN  /\ worker["loop"] = Free
        /\ found # {}
        /\ worker' = [worker EXCEPT !["loop"].todo = found, !["loop"].locks = found]
        /\ UNCHANGED <<producer, queue, records, rejected, accepted, excused>>

\* deliver returns at once; the session ends after the last one.
Skip(n) ==
    /\ worker["loop"].at = <<>> /\ n \in worker["loop"].todo
    /\ n \notin LockedBut("loop")
    /\ Skips("loop", n)
    /\ worker' = [worker EXCEPT !["loop"] =
          IF worker["loop"].todo = {n} THEN Free ELSE [worker["loop"] EXCEPT !.todo = @ \ {n}]]
    /\ UNCHANGED <<producer, queue, records, rejected, accepted, excused>>

\* The delay of a retry is over.  The loop's batch keeps the time at which it was read.
Tick(n) ==
    /\ Waits(n)
    /\ n \notin worker["loop"].todo
    /\ note' = [note EXCEPT ![n].due = TRUE]
    /\ UNCHANGED <<producer, queue, processed, letters, exhausted, rejected, worker, accepted,
                   excused, unreachable>>

-----------------------------------------------------------------------------
(* Faults.                                                                 *)

\* The process dies: the unacknowledged messages go back.
Crash ==
    /\ \E w \in Workers : worker[w] # Free
    /\ \A e \in Event : queue[e] + Cardinality(InHand(e)) <= MaxCopies
    /\ queue' = [e \in Event |-> queue[e] + Cardinality(InHand(e))]
    /\ excused' = excused \cup Forgotten(Workers)
    /\ worker' = [w \in Workers |-> Free]
    /\ Fault
    /\ UNCHANGED <<upstream, records, rejected, accepted>>

\* The connection to the broker breaks while a handler works: the message is delivered again.
Redeliver(h) ==
    LET e == worker[h].event
    IN  /\ e # 0 /\ queue[e] < MaxCopies
        /\ queue' = [queue EXCEPT ![e] = @ + 1]
        /\ Fault
        /\ UNCHANGED <<upstream, serviceVars>>

\* A database error in the loop ends its batch.
LoopFails ==
    /\ worker["loop"] # Free
    /\ excused' = excused \cup Forgotten({"loop"})
    /\ worker' = [worker EXCEPT !["loop"] = Free]
    /\ Fault
    /\ UNCHANGED <<upstream, queue, records, rejected, accepted>>

-----------------------------------------------------------------------------

NotificationNext ==
    \/ OutboxNext /\ UNCHANGED serviceVars
    \/ \E h \in Handlers :
         \/ \E e \in Event : Take(h, e)
         \/ Requeue(h) \/ Reject(h) \/ DeadLetter(h) \/ Store(h) \/ Redeliver(h)
    \/ \E w \in Workers : (\E n \in Note : Send(w, n)) \/ Record(w)
    \/ SelectDue \/ LoopFails \/ Crash
    \/ \E n \in Note : Skip(n) \/ Tick(n)

NotificationSpec == NotificationInit /\ [][NotificationNext]_notificationVars

\* Fairness.  Publishers, consumer and loop run for ever, the broker hands out what it has,
\* and time passes.  Nothing is assumed of the providers, and faults end (MaxFaults).
NotificationFairSpec ==
    /\ NotificationSpec
    /\ \A p \in Publishers : PublisherFairness(p)
    /\ \A h \in Handlers : WF_notificationVars((\E e \in Event : Take(h, e))
          \/ DeadLetter(h) \/ Store(h) \/ (\E n \in Note : Send(h, n)) \/ Record(h))
    /\ WF_notificationVars(SelectDue \/ (\E n \in Note : Send("loop", n) \/ Skip(n))
          \/ Record("loop"))
    /\ WF_notificationVars(\E n \in Note : Tick(n))

-----------------------------------------------------------------------------
(* Properties.                                                             *)

\* A message that reached the queue stays there or with a handler until its event is
\* processed, or rejected into the dead-letter queue, through crashes and redeliveries.
NothingLost ==
    \A e \in arrived \ unheard :
        queue[e] > 0 \/ InHand(e) # {} \/ e \in processed \cup rejected

\* Some channel has a notification of the event.
Told(e) == \E c \in Channels : note[<<e, c>>].status # "none"

\* However often an event arrives and however its handlers overlap, it is processed once:
\* it has notifications, or one dead letter, never both.
OneOutcome ==
    \A e \in Event :
        /\ letters[e] <= 1
        /\ ~ (Told(e) /\ letters[e] = 1)
        /\ e \in processed <=> Told(e) \/ letters[e] = 1

\* The provider takes a message twice only when the code could not know of the first time:
\* the answer was lost, the worker failed before its commit, or the retry loop had delivered
\* what a handler still held as pending.
TwiceOnlyExcused == \A n \in Note : accepted[n] > 1 => n \in excused

\* A notification that says sent was taken by the provider, one that was taken and does not
\* say so is being recorded or excused, and one that was given up has its dead letter.
StatusTellsTheSending ==
    \A n \in Note :
        /\ note[n].status = "sent" => accepted[n] > 0
        /\ accepted[n] > 0 /\ note[n].status # "sent" =>
              n \in excused \/ \E w \in Workers : worker[w].at = n /\ worker[w].answer = "sent"
        /\ note[n].status = "dead_lettered" => n \in exhausted

\* A final status is overwritten only by a handler with a stale copy of the notification.
FinalUnlessStale ==
    [][\A n \in Note : note[n].status \in Final /\ note'[n].status # note[n].status =>
          n \in excused /\ \E h \in Handlers : worker[h].at = n]_notificationVars

\* Of the events that the services publish, these end as dead letters: confirmations (their
\* payload has no name for the greeting), payment events (theirs has no candidate), and those
\* whose candidate user-service knows no address of.
OnlyTheseGoUntold ==
    \A e \in Event : letters[e] > 0 =>
        e \in unreachable \/
        outbox[e] \in {"booking.confirmed.v1", "payment.captured.v1", "payment.refunded.v1"}

\* What the service's README says of its producers: a payload names a recipient and has the
\* fields that the template requires, so that an event is given up only for want of an address.
PayloadsSuffice == \A e \in Event : letters[e] > 0 => e \in unreachable

\* Every event of an outbox is in the end processed or rejected, unless the exchange took it
\* before the consumer ever bound its queue.
EveryEventEnds ==
    \A e \in Event : e \in Written ~> e \in processed \cup rejected \cup unheard

\* The notifications of an event are in the end all sent or given up, also after crashes at
\* any step and when a handler with a stale copy takes a final status back.
EveryNotificationEnds ==
    \A e \in Event :
        Told(e) ~> \A c \in Channels : note[<<e, c>>].status \in Final \cup {"none"}
=============================================================================

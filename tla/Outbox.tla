------------------------------- MODULE Outbox -------------------------------
(***************************************************************************)
(* The transactional outbox, the same in every service, and the broker     *)
(* behind it.                                                              *)
(*                                                                         *)
(* A business transaction writes an event into the outbox table.  A worker *)
(* reads a batch of unpublished rows, locks them, publishes them one by    *)
(* one and commits after each.  The first commit releases the locks of the *)
(* whole batch, and a rollout runs the old and the new worker together.    *)
(*                                                                         *)
(* The number of an event is its occurred_at: it is taken before the       *)
(* transaction commits, so the rows may appear in any order.               *)
(***************************************************************************)
EXTENDS Integers, FiniteSets

CONSTANTS
    MaxEvents,     \* bound: events
    MaxCopies,     \* bound: copies of one event in the queue
    MaxFaults,     \* bound: faults that send a worker back
    BatchSize,     \* rows read at once (100 in the code)
    Types,         \* the types of events in the instance
    MaxPerType,    \* bound: events of one type
    Publishers     \* workers that run at the same time

ASSUME OutboxAssumption ==
    /\ MaxEvents \in Nat \ {0}
    /\ MaxCopies \in Nat \ {0}
    /\ MaxFaults \in Nat
    /\ BatchSize \in Nat \ {0}
    /\ MaxPerType \in Nat \ {0}
    /\ "none" \notin Types

VARIABLES
    outbox,     \* table outbox_events: the type of each event, "none" before it is there
    published,  \* the rows whose published_at is set
    pub,        \* the publishers
    bound,      \* the consumer has declared and bound its queue
    queue,      \* the queue: the copies of each event that wait in it
    arrived,    \* history: the events that the exchange has taken
    faults,     \* bound: the faults so far
    unheard     \* history: the events the exchange took while no queue was bound

outboxVars == <<outbox, published, pub, bound, queue, arrived, unheard, faults>>

Event == 1 .. MaxEvents

Written == {e \in Event : outbox[e] # "none"}

\* One call of publish_pending: the rest of the batch, the rows that the read could take,
\* whether the locks of the read still stand, and what publish said of the row in work.
Publisher == [batch : SUBSET Event, seen : SUBSET Event, locks : BOOLEAN,
              at : Event \cup {0}, said : {"nothing", "done", "error"}]

Idle == [batch |-> {}, seen |-> {}, locks |-> FALSE, at |-> 0, said |-> "nothing"]

TypeOK ==
    /\ outbox \in [Event -> Types \cup {"none"}]
    /\ published \subseteq Written
    /\ pub \in [Publishers -> Publisher]
    /\ bound \in BOOLEAN
    /\ queue \in [Event -> 0 .. MaxCopies]
    /\ unheard \subseteq arrived
    /\ arrived \subseteq Written
    /\ faults \in 0 .. MaxFaults

OutboxInit ==
    /\ outbox = [e \in Event |-> "none"]
    /\ published = {}
    /\ pub = [p \in Publishers |-> Idle]
    /\ bound = FALSE
    /\ queue = [e \in Event |-> 0]
    /\ arrived = {}
    /\ unheard = {}
    /\ faults = 0

-----------------------------------------------------------------------------

Fault == faults < MaxFaults /\ faults' = faults + 1

\* A business transaction commits the row of its event.
Write(e, type) ==
    /\ outbox[e] = "none"
    /\ Cardinality({f \in Event : outbox[f] = type}) < MaxPerType
    /\ outbox' = [outbox EXCEPT ![e] = type]
    /\ UNCHANGED <<published, pub, bound, queue, arrived, unheard, faults>>

\* The consumer starts for the first time; its queue is durable.
Bind ==
    /\ ~ bound
    /\ bound' = TRUE
    /\ UNCHANGED <<outbox, published, pub, queue, arrived, unheard, faults>>

-----------------------------------------------------------------------------
(* publish_pending                                                         *)

LockedBy(p) == IF pub[p].locks THEN pub[p].batch ELSE {}

LockedByOthers(p) == UNION {LockedBy(q) : q \in Publishers \ {p}}

Oldest(S) == {e \in S : Cardinality({f \in S : f < e}) < BatchSize}

\* SKIP LOCKED: rows that another publisher holds are left out.
Select(p) ==
    LET free == (Written \ published) \ LockedByOthers(p)
    IN  /\ pub[p] = Idle
        /\ free # {}
        /\ pub' = [pub EXCEPT ![p] = [Idle EXCEPT !.batch = Oldest(free), !.seen = free,
                                                  !.locks = TRUE]]
        /\ UNCHANGED <<outbox, published, bound, queue, arrived, unheard, faults>>

IsFirst(e, S) == e \in S /\ \A f \in S : e <= f

\* The exchange takes the message: without a queue it is dropped, and confirmed all the same.
Arrive(e) ==
    /\ arrived' = arrived \cup {e}
    /\ IF bound
       THEN /\ queue[e] < MaxCopies
            /\ queue' = [queue EXCEPT ![e] = @ + 1]
            /\ UNCHANGED unheard
       ELSE /\ unheard' = unheard \cup {e}
            /\ UNCHANGED queue

\* publish: the broker confirms, or the connection breaks before or after it took the message.
Publish(p) ==
    /\ pub[p].at = 0
    /\ \E e \in pub[p].batch, said \in {"done", "error"} :
         /\ IsFirst(e, pub[p].batch)
         /\ pub' = [pub EXCEPT ![p].at = e, ![p].said = said]
         /\ Arrive(e) \/ (said = "error" /\ UNCHANGED <<queue, arrived, unheard>>)
         /\ IF said = "error" THEN Fault ELSE UNCHANGED faults
    /\ UNCHANGED <<outbox, published, bound>>

\* Mutant: the row is marked before anybody looks whether publish failed.
CommitAlways(p) ==
    LET e == pub[p].at
    IN  /\ e # 0
        /\ e \notin LockedByOthers(p)
        /\ published' = published \cup {e}
        /\ pub' = [pub EXCEPT ![p] =
               IF pub[p].batch = {e} THEN Idle
               ELSE [pub[p] EXCEPT !.batch = @ \ {e}, !.locks = FALSE, !.at = 0, !.said = "nothing"]]
        /\ UNCHANGED <<outbox, bound, queue, arrived, unheard, faults>>

\* The commit waits for a lock of another publisher on the row.  It drops this publisher's
\* locks; a failure ends the batch.
Commit(p) ==
    LET e == pub[p].at
    IN  /\ e # 0
        /\ e \notin LockedByOthers(p)
        /\ published' = IF pub[p].said = "done" THEN published \cup {e} ELSE published
        /\ pub' = [pub EXCEPT ![p] =
               IF pub[p].said = "error" \/ pub[p].batch = {e} THEN Idle
               ELSE [pub[p] EXCEPT !.batch = @ \ {e}, !.locks = FALSE, !.at = 0, !.said = "nothing"]]
        /\ UNCHANGED <<outbox, bound, queue, arrived, unheard, faults>>

\* The worker dies, or the database fails it: nothing but the broker remembers.
Abandon(p) ==
    /\ pub[p] # Idle
    /\ pub' = [pub EXCEPT ![p] = Idle]
    /\ Fault
    /\ UNCHANGED <<outbox, published, bound, queue, arrived, unheard>>

-----------------------------------------------------------------------------

OutboxNext ==
    \/ \E e \in Event, type \in Types : Write(e, type)
    \/ Bind
    \/ \E p \in Publishers : Select(p) \/ Publish(p) \/ Commit(p) \/ Abandon(p)

\* Fairness.  The worker loops for ever: in each of its states it has one step to take.
PublisherFairness(p) ==
    WF_outboxVars(Select(p) \/ (Publish(p) /\ pub'[p].said = "done") \/ Commit(p))

-----------------------------------------------------------------------------
(* Properties.                                                             *)

\* An event of the outbox is not marked published before the exchange has taken it, however
\* the publishers overlap, fail and restart.
PublishedArrived == published \subseteq arrived

\* A publisher does not hand the exchange a newer event first: it overtakes an older one
\* only if the batch was read before that row was committed or while it was locked.
InOrder ==
    [][\A p \in Publishers, e \in arrived' \ arrived : pub[p].at = 0 /\ pub'[p].at = e =>
          \A f \in pub[p].seen \ arrived : e <= f]_outboxVars
=============================================================================

------------------------- MODULE NotificationProofs -------------------------
(***************************************************************************)
(* Theorems about Outbox and Notification for every number of events,      *)
(* publishers, handlers, attempts, copies and faults.                      *)
(***************************************************************************)
EXTENDS Notification, FiniteSetTheorems, TLAPS

-----------------------------------------------------------------------------
(* Sets of events.                                                         *)

LEMMA EventsFinite ==
    ASSUME NEW S \in SUBSET Event
    PROVE  IsFiniteSet(S) /\ Cardinality(S) \in Nat
<1>1. MaxEvents \in Int /\ 1 \in Int
  BY OutboxAssumption
<1>2. IsFiniteSet(Event)
  BY <1>1, FS_Interval DEF Event
<1>3. IsFiniteSet(S)
  BY <1>2, FS_Subset
<1> QED  BY <1>3, FS_CardinalityType

\* A batch leaves out only rows that are newer than all it takes.
LEMMA OldestFirst ==
    ASSUME NEW S \in SUBSET Event, NEW e \in Oldest(S), NEW f \in S \ Oldest(S)
    PROVE  e <= f
<1> SUFFICES ASSUME f < e PROVE FALSE
  BY DEF Event, Oldest
<1> DEFINE A == {g \in S : g < f}
           B == {g \in S : g < e}
<1>0. e \in S /\ f \in S /\ \A g \in S : g \in Int
  BY DEF Event, Oldest
<1>1. A \subseteq B /\ B \subseteq Event
  BY <1>0
<1>2. Cardinality(A) <= Cardinality(B) /\ Cardinality(A) \in Nat /\ Cardinality(B) \in Nat
  BY <1>1, EventsFinite, FS_Subset
<1>3. Cardinality(B) < BatchSize /\ ~ (Cardinality(A) < BatchSize)
  BY DEF Oldest
<1> QED  BY <1>2, <1>3, OutboxAssumption

-----------------------------------------------------------------------------
(* The outbox.                                                             *)

\* What publisher p has in hand: rows that it read; those that it has left behind are out or
\* newer; the row in work is the oldest, and out if the broker confirmed it.
PublisherFits(p) ==
    LET b == pub[p]
    IN  /\ b.batch \subseteq b.seen /\ b.seen \subseteq Written
        /\ b.at # 0 => /\ b.at \in b.batch
                       /\ \A f \in b.batch : b.at <= f
                       /\ b.said # "nothing"
                       /\ b.said = "done" => b.at \in arrived
        /\ \A f \in b.seen \ b.batch : f \in arrived \/ \A g \in b.batch : g <= f

OutboxInv ==
    /\ TypeOK
    /\ PublishedArrived
    /\ \A p \in Publishers : PublisherFits(p)

LEMMA IdlePublisher ==
    /\ Idle \in Publisher /\ Idle.batch = {} /\ Idle.seen = {} /\ Idle.at = 0
BY DEF Idle, Publisher

LEMMA OutboxInitInv == OutboxInit => OutboxInv
<1> SUFFICES ASSUME OutboxInit PROVE OutboxInv
  OBVIOUS
<1>1. 0 \in 0 .. MaxCopies /\ 0 \in 0 .. MaxFaults
  BY OutboxAssumption
<1>2. TypeOK
  BY <1>1, IdlePublisher DEF OutboxInit, TypeOK, Written
<1> QED  BY <1>2, IdlePublisher DEF OutboxInit, OutboxInv, PublishedArrived, PublisherFits

\* A step of publisher p that leaves the outbox alone.
LEMMA PublisherStep ==
    ASSUME OutboxInv, NEW p \in Publishers, NEW b \in Publisher,
           pub' = [pub EXCEPT ![p] = b],
           UNCHANGED <<outbox, bound>>,
           arrived \subseteq arrived', arrived' \subseteq Written, unheard' \subseteq arrived',
           published' \subseteq arrived',
           queue' \in [Event -> 0 .. MaxCopies], faults' \in 0 .. MaxFaults,
           b.batch \subseteq b.seen, b.seen \subseteq Written,
           b.at # 0 => /\ b.at \in b.batch
                       /\ \A f \in b.batch : b.at <= f
                       /\ b.said # "nothing"
                       /\ b.said = "done" => b.at \in arrived',
           \A f \in b.seen \ b.batch : f \in arrived' \/ \A g \in b.batch : g <= f
    PROVE  OutboxInv'
<1>1. pub' \in [Publishers -> Publisher] /\ pub'[p] = b
      /\ \A o \in Publishers \ {p} : pub'[o] = pub[o]
  BY DEF OutboxInv, TypeOK
<1>2. Written' = Written
  BY DEF Written
<1>3. TypeOK'
  BY <1>1, <1>2 DEF OutboxInv, TypeOK
<1>4. PublisherFits(p)'
  BY <1>1, <1>2 DEF PublisherFits
<1>5. ASSUME NEW o \in Publishers \ {p}  PROVE PublisherFits(o)'
  <2>1. PublisherFits(o) /\ pub'[o] = pub[o]
    BY <1>1 DEF OutboxInv
  <2> QED  BY <1>2, <2>1 DEF PublisherFits
<1> QED  BY <1>3, <1>4, <1>5 DEF OutboxInv, PublishedArrived

LEMMA OutboxSteps == OutboxInv /\ OutboxNext => OutboxInv'
<1> SUFFICES ASSUME OutboxInv, OutboxNext PROVE OutboxInv'
  OBVIOUS
<1> USE OutboxAssumption
<1>1. ASSUME NEW e \in Event, NEW type \in Types, Write(e, type)  PROVE OutboxInv'
  <2>1. Written \subseteq Written'
    BY <1>1 DEF Write, Written, OutboxInv, TypeOK
  <2>2. TypeOK'
    BY <1>1, <2>1 DEF Write, OutboxInv, TypeOK
  <2> QED  BY <1>1, <2>1, <2>2 DEF Write, OutboxInv, PublishedArrived, PublisherFits
<1>2. CASE Bind
  BY <1>2 DEF Bind, OutboxInv, TypeOK, PublishedArrived, PublisherFits, Written
<1>3. ASSUME NEW p \in Publishers, Select(p)  PROVE OutboxInv'
  <2> DEFINE free == (Written \ published) \ LockedByOthers(p)
             b == [Idle EXCEPT !.batch = Oldest(free), !.seen = free, !.locks = TRUE]
  <2>1. free \subseteq Written /\ Written \subseteq Event /\ Oldest(free) \subseteq free
    BY DEF Written, Oldest
  <2>2. b \in Publisher /\ b.batch = Oldest(free) /\ b.seen = free /\ b.at = 0
    <3> HIDE DEF free
    <3> QED  BY <2>1 DEF Publisher, Idle
  <2>3. \A f \in free \ Oldest(free) : \A g \in Oldest(free) : g <= f
    BY <2>1, OldestFirst
  <2>4. /\ pub' = [pub EXCEPT ![p] = b]
        /\ UNCHANGED <<outbox, published, bound, queue, arrived, unheard, faults>>
    BY <1>3 DEF Select
  <2>5. published \subseteq arrived /\ arrived \subseteq Written /\ unheard \subseteq arrived
        /\ queue \in [Event -> 0 .. MaxCopies] /\ faults \in 0 .. MaxFaults
    BY DEF OutboxInv, TypeOK, PublishedArrived
  <2> HIDE DEF b, free
  <2> QED  BY <2>1, <2>2, <2>3, <2>4, <2>5, PublisherStep
<1>4. ASSUME NEW p \in Publishers, Publish(p)  PROVE OutboxInv'
  <2>1. PICK e \in pub[p].batch, said \in {"done", "error"} :
          /\ IsFirst(e, pub[p].batch)
          /\ pub' = [pub EXCEPT ![p].at = e, ![p].said = said]
          /\ Arrive(e) \/ (said = "error" /\ UNCHANGED <<queue, arrived, unheard>>)
          /\ IF said = "error" THEN Fault ELSE UNCHANGED faults
          /\ UNCHANGED <<outbox, published, bound>>
    BY <1>4 DEF Publish
  <2> DEFINE b == [pub[p] EXCEPT !.at = e, !.said = said]
  <2>2. pub[p] \in Publisher /\ PublisherFits(p) /\ Written \subseteq Event
    BY DEF OutboxInv, TypeOK, Written
  <2>3. e \in Written /\ e \in Event
    BY <2>1, <2>2 DEF PublisherFits
  <2>4. b \in Publisher /\ b.batch = pub[p].batch /\ b.seen = pub[p].seen /\ b.at = e /\ b.said = said
    BY <2>2, <2>3 DEF Publisher
  <2>5. pub' = [pub EXCEPT ![p] = b]
    BY <2>1 DEF OutboxInv, TypeOK
  <2>6. /\ arrived \subseteq arrived' /\ arrived' \subseteq Written
        /\ unheard' \subseteq arrived'
        /\ said = "done" => e \in arrived'
        /\ queue' \in [Event -> 0 .. MaxCopies]
    BY <2>1, <2>3 DEF Arrive, OutboxInv, TypeOK
  <2>7. faults' \in 0 .. MaxFaults
    BY <2>1 DEF Fault, OutboxInv, TypeOK
  <2>8. published' \subseteq arrived'
    BY <2>1, <2>6 DEF OutboxInv, PublishedArrived
  <2>9. /\ \A f \in b.batch : b.at <= f
        /\ b.batch \subseteq b.seen /\ b.seen \subseteq Written
        /\ \A f \in b.seen \ b.batch : f \in arrived' \/ \A g \in b.batch : g <= f
    BY <2>1, <2>2, <2>4, <2>6 DEF IsFirst, PublisherFits
  <2> HIDE DEF b
  <2> QED  BY <2>1, <2>4, <2>5, <2>6, <2>7, <2>8, <2>9, PublisherStep
<1>5. ASSUME NEW p \in Publishers, Commit(p)  PROVE OutboxInv'
  <2> DEFINE e == pub[p].at
             done == pub[p].said = "error" \/ pub[p].batch = {e}
             c == [pub[p] EXCEPT !.batch = @ \ {e}, !.locks = FALSE, !.at = 0, !.said = "nothing"]
             b == IF done THEN Idle ELSE c
  <2>1. /\ pub[p] \in Publisher /\ PublisherFits(p) /\ Written \subseteq Event
        /\ published \subseteq arrived /\ arrived \subseteq Written /\ unheard \subseteq arrived
        /\ queue \in [Event -> 0 .. MaxCopies] /\ faults \in 0 .. MaxFaults
    BY DEF OutboxInv, TypeOK, Written, PublishedArrived
  <2>2. /\ e # 0
        /\ published' = IF pub[p].said = "done" THEN published \cup {e} ELSE published
        /\ UNCHANGED <<outbox, bound, queue, arrived, unheard, faults>>
    BY <1>5 DEF Commit
  <2>3. pub' = [pub EXCEPT ![p] = b]
    BY <1>5 DEF Commit
  <2>4. published' \subseteq arrived'
    BY <2>1, <2>2 DEF PublisherFits
  <2>5. c \in Publisher /\ c.batch = pub[p].batch \ {e} /\ c.seen = pub[p].seen /\ c.at = 0
    BY <2>1 DEF Publisher
  <2>6. /\ b \in Publisher /\ b.at = 0 /\ b.batch \subseteq b.seen /\ b.seen \subseteq Written
        /\ ~ done => b = c
        /\ done => b.seen = {}
    <3> HIDE DEF c, done
    <3> QED  BY <2>1, <2>5, IdlePublisher DEF PublisherFits
  <2>7. ~ done => e \in arrived
    BY <2>1, <2>2 DEF PublisherFits, Publisher
  <2>8. \A f \in b.seen \ b.batch : f \in arrived' \/ \A g \in b.batch : g <= f
    <3>1. CASE done
      <4> HIDE DEF b, done
      <4> QED  BY <2>6, <3>1
    <3>2. CASE ~ done
      <4>1. \A f \in c.seen \ c.batch : f \in arrived \/ \A g \in c.batch : g <= f
        <5> HIDE DEF c, e
        <5> QED  BY <2>1, <2>5, <2>7, <3>2 DEF PublisherFits
      <4> HIDE DEF b, c, done
      <4> QED  BY <2>2, <2>6, <3>2, <4>1
    <3> QED  BY <3>1, <3>2
  <2> HIDE DEF b, c, done, e
  <2> QED  BY <2>1, <2>2, <2>3, <2>4, <2>6, <2>8, PublisherStep
<1>6. ASSUME NEW p \in Publishers, Abandon(p)  PROVE OutboxInv'
  <2>1. /\ published \subseteq arrived /\ arrived \subseteq Written /\ unheard \subseteq arrived
        /\ queue \in [Event -> 0 .. MaxCopies] /\ faults \in 0 .. MaxFaults
    BY DEF OutboxInv, TypeOK, PublishedArrived
  <2>2. /\ pub' = [pub EXCEPT ![p] = Idle]
        /\ UNCHANGED <<outbox, published, bound, queue, arrived, unheard>>
        /\ faults' \in 0 .. MaxFaults
    BY <1>6, <2>1 DEF Abandon, Fault
  <2> QED  BY <2>1, <2>2, IdlePublisher, PublisherStep
<1> QED  BY <1>1, <1>2, <1>3, <1>4, <1>5, <1>6 DEF OutboxNext

\* What the outbox promises does not depend on the queue's other end.
LEMMA QueueStep ==
    ASSUME OutboxInv, UNCHANGED upstream,
           queue' \in [Event -> 0 .. MaxCopies], faults' \in 0 .. MaxFaults
    PROVE  OutboxInv'
<1>1. Written' = Written
  BY DEF upstream, Written
<1>2. TypeOK'
  BY <1>1 DEF upstream, OutboxInv, TypeOK
<1> QED  BY <1>1, <1>2 DEF upstream, OutboxInv, PublishedArrived, PublisherFits

-----------------------------------------------------------------------------
(* The service.                                                            *)

\* What worker w has in hand.
WorkerFits(w) ==
    LET b == worker[w]
    IN  /\ \A n \in b.todo \cup b.locks : note[n].status # "none"
        /\ b.at # <<>> => b.at \in b.todo /\ b.at \in b.locks
        /\ b.at # <<>> /\ b.answer = "sent" => accepted[b.at] > 0
        /\ b.event # 0 => b.event \in arrived
        /\ b.todo # {} /\ w # "loop" => b.stored
        /\ b.stored => b.event \in processed
        \* The loop has seen that the row is not final, a handler that it is its own copy.
        /\ w = "loop" /\ b.at # <<>> => note[b.at].status \notin Final
        /\ w # "loop" /\ b.at # <<>> => b.at \in excused \/ note[b.at].status = "pending"

\* No two workers hold one row.
LocksApart ==
    \A w \in Workers : \A v \in Workers \ {w} : worker[w].locks \cap worker[v].locks = {}

\* Row n of the notifications, and what the provider knows of it.
RowFits(n) ==
    /\ note[n].status # "none" => n[1] \in processed
    /\ note[n].status = "none" => accepted[n] = 0
    /\ note[n].status \in {"pending", "retry_scheduled"} => note[n].attempts < MaxAttempts
    /\ note[n].status = "pending" => ~ note[n].due

QueueFits == \A e \in Event : queue[e] > 0 => e \in arrived

NInv ==
    /\ OutboxInv /\ NotificationTypeOK
    /\ \A w \in Workers : WorkerFits(w)
    /\ LocksApart
    /\ \A n \in Note : RowFits(n)
    /\ QueueFits
    /\ NothingLost /\ OneOutcome /\ TwiceOnlyExcused /\ StatusTellsTheSending
    /\ OnlyTheseGoUntold

LEMMA NoteIsNotEmpty == <<>> \notin Note
BY DEF Note

LEMMA FreeWorker ==
    /\ Free \in Worker /\ Free.event = 0 /\ ~ Free.stored /\ Free.todo = {} /\ Free.locks = {}
    /\ Free.at = <<>>
BY DEF Free, Worker

LEMMA FreeFits ==
    ASSUME NEW w \in Workers, worker'[w] = Free
    PROVE  WorkerFits(w)'
BY FreeWorker DEF WorkerFits

LEMMA InitNInv == NotificationInit => NInv
<1> SUFFICES ASSUME NotificationInit PROVE NInv
  OBVIOUS
<1> USE DEF NotificationInit
<1>1. OutboxInv
  BY OutboxInitInv
<1>2. 0 \in 0 .. MaxAttempts /\ MaxAttempts > 0
  BY NotificationAssumption
<1>3. NotificationTypeOK
  BY <1>1, <1>2, FreeWorker DEF NotificationTypeOK, OutboxInv
<1>4. /\ \A w \in Workers : WorkerFits(w)
      /\ LocksApart
  BY FreeWorker DEF WorkerFits, LocksApart
<1>5. \A n \in Note : RowFits(n)
  BY DEF RowFits
<1>6. QueueFits /\ NothingLost
  BY DEF QueueFits, NothingLost, OutboxInit
<1>7. OneOutcome
  <2>1. \A e \in Event, c \in Channels : note[<<e, c>>].status = "none"
    BY DEF Note
  <2>2. \A e \in Event : letters[e] = 0 /\ e \notin processed
    OBVIOUS
  <2> HIDE DEF NotificationInit
  <2>3. \A e \in Event : ~ Told(e)
    BY <2>1 DEF Told
  <2> QED  BY <2>2, <2>3 DEF OneOutcome
<1>8. TwiceOnlyExcused /\ StatusTellsTheSending /\ OnlyTheseGoUntold
  BY DEF TwiceOnlyExcused, StatusTellsTheSending, OnlyTheseGoUntold
<1> QED  BY <1>1, <1>3, <1>4, <1>5, <1>6, <1>7, <1>8 DEF NInv

\* A worker that a step leaves alone still fits, if its rows are left alone.
LEMMA WorkerKeeps ==
    ASSUME NInv, NEW v \in Workers, worker'[v] = worker[v],
           \A n \in Note : note[n].status # "none" => note'[n].status # "none",
           \A n \in Note : accepted[n] > 0 => accepted'[n] > 0,
           arrived \subseteq arrived', processed \subseteq processed', excused \subseteq excused',
           worker[v].at # <<>> => note'[worker[v].at].status = note[worker[v].at].status
    PROVE  WorkerFits(v)'
<1>1. WorkerFits(v) /\ worker[v] \in Worker
  BY DEF NInv, NotificationTypeOK
<1>2. worker[v].todo \subseteq Note /\ worker[v].locks \subseteq Note
  BY <1>1 DEF Worker
<1> QED  BY <1>1, <1>2 DEF WorkerFits

\* A step that leaves the tables and the provider alone.
LEMMA HandStep ==
    ASSUME NInv, UNCHANGED <<upstream, records, accepted>>,
           worker' \in [Workers -> Worker],
           queue' \in [Event -> 0 .. MaxCopies], faults' \in 0 .. MaxFaults,
           rejected' \subseteq arrived, excused \subseteq excused', excused' \subseteq Note,
           \A e \in Event : queue'[e] > 0 => e \in arrived,
           \A w \in Workers : WorkerFits(w)',
           LocksApart', NothingLost',
           \A n \in Note : \A w \in Workers :
              worker[w].at = n /\ worker[w].answer = "sent" /\ accepted[n] > 0 =>
                 \/ n \in excused'
                 \/ worker'[w].at = n /\ worker'[w].answer = "sent"
    PROVE  NInv'
<1>1. OutboxInv'
  BY QueueStep DEF NInv
<1>2. NotificationTypeOK'
  BY <1>1 DEF NInv, NotificationTypeOK, OutboxInv, records, upstream
<1>3. (\A n \in Note : RowFits(n))'
  BY DEF NInv, RowFits, records
<1>4. QueueFits' /\ OneOutcome' /\ TwiceOnlyExcused' /\ OnlyTheseGoUntold'
  BY DEF NInv, QueueFits, OneOutcome, Told, TwiceOnlyExcused, OnlyTheseGoUntold, records,
     upstream
<1>5. StatusTellsTheSending'
  BY DEF NInv, StatusTellsTheSending, records
<1> QED  BY <1>1, <1>2, <1>3, <1>4, <1>5 DEF NInv

\* Workers fail or finish.
LEMMA FreeStep ==
    ASSUME NInv, NEW W \in SUBSET Workers,
           worker' = [w \in Workers |-> IF w \in W THEN Free ELSE worker[w]],
           UNCHANGED <<upstream, records, accepted>>,
           queue' \in [Event -> 0 .. MaxCopies], faults' \in 0 .. MaxFaults,
           rejected \subseteq rejected', rejected' \subseteq arrived,
           excused \cup Forgotten(W) \subseteq excused', excused' \subseteq Note,
           \A e \in Event : queue'[e] > 0 => e \in arrived,
           \A e \in Event : queue[e] > 0 => queue'[e] > 0,
           \A h \in W \cap Handlers : worker[h].event # 0 =>
               \/ queue'[worker[h].event] > 0
               \/ worker[h].event \in processed \cup rejected'
    PROVE  NInv'
<1>1. worker' \in [Workers -> Worker]
  BY FreeWorker DEF NInv, NotificationTypeOK
<1>2. ASSUME NEW w \in Workers  PROVE WorkerFits(w)'
  <2>1. CASE w \in W
    BY <2>1, FreeFits
  <2>2. CASE w \notin W
    BY <2>2, WorkerKeeps DEF records, upstream
  <2> QED  BY <2>1, <2>2
<1>3. LocksApart'
  BY FreeWorker DEF NInv, LocksApart
<1>4. NothingLost'
  <2> SUFFICES ASSUME NEW e \in arrived \ unheard
               PROVE  (queue[e] > 0 \/ InHand(e) # {} \/ e \in processed \cup rejected)'
    BY DEF NothingLost, upstream
  <2>1. e \in Event /\ e # 0
    BY DEF NInv, OutboxInv, TypeOK, Written, Event
  <2>2. queue[e] > 0 \/ InHand(e) # {} \/ e \in processed \cup rejected
    BY DEF NInv, NothingLost
  <2>3. CASE InHand(e) # {}
    <3>1. PICK h \in Handlers : worker[h].event = e
      BY <2>3 DEF InHand
    <3>2. CASE h \in W
      BY <2>1, <3>1, <3>2 DEF records
    <3>3. CASE h \notin W
      <4>1. worker'[h].event = e
        BY <3>1, <3>3 DEF Workers
      <4> QED  BY <4>1 DEF InHand
    <3> QED  BY <3>2, <3>3
  <2> QED  BY <2>1, <2>2, <2>3 DEF records
<1>5. \A n \in Note : \A w \in Workers :
         worker[w].at = n /\ worker[w].answer = "sent" /\ accepted[n] > 0 =>
            n \in excused' \/ (worker'[w].at = n /\ worker'[w].answer = "sent")
  BY DEF Forgotten
<1> QED  BY <1>1, <1>2, <1>3, <1>4, <1>5, HandStep

-----------------------------------------------------------------------------
(* One lemma for every kind of step.                                       *)

LEMMA QueueFacts ==
    ASSUME NInv
    PROVE  /\ queue \in [Event -> 0 .. MaxCopies] /\ faults \in 0 .. MaxFaults
           /\ MaxCopies \in Nat /\ MaxFaults \in Nat
           /\ arrived \subseteq Event
           /\ rejected \subseteq arrived /\ excused \subseteq Note
           /\ worker \in [Workers -> Worker]
           /\ \A e \in Event : queue[e] > 0 => e \in arrived
           /\ \A h \in Handlers : h \in Workers /\ h # "loop"
           /\ \A w \in Workers : worker[w].event # 0 => worker[w].event \in arrived
BY OutboxAssumption, NotificationAssumption
   DEF NInv, OutboxInv, TypeOK, NotificationTypeOK, QueueFits, WorkerFits, Written, Workers

LEMMA TakeStep ==
    ASSUME NInv, NEW h \in Handlers, NEW e \in Event, Take(h, e)
    PROVE  NInv'
<1> USE QueueFacts
<1>1. /\ worker[h] = Free /\ queue[e] > 0 /\ queue' = [queue EXCEPT ![e] = @ - 1]
      /\ worker' = IF e \in processed THEN worker ELSE [worker EXCEPT ![h].event = e]
      /\ UNCHANGED <<upstream, records, accepted, faults, rejected, excused>>
  BY DEF Take, Less, producer
<1>2. /\ queue' \in [Event -> 0 .. MaxCopies]
      /\ \A g \in Event : queue'[g] > 0 => queue[g] > 0
      /\ \A g \in Event : g # e => queue'[g] = queue[g]
  BY <1>1
<1> DEFINE b == [Free EXCEPT !.event = e]
<1>3. /\ b \in Worker /\ b.event = e /\ ~ b.stored /\ b.todo = {} /\ b.locks = {} /\ b.at = <<>>
  BY DEF Free, Worker
<1>4. worker' = IF e \in processed THEN worker ELSE [worker EXCEPT ![h] = b]
  BY <1>1
<1> HIDE DEF b
<1>5. /\ worker' \in [Workers -> Worker]
      /\ \A w \in Workers : w # h \/ e \in processed => worker'[w] = worker[w]
      /\ e \notin processed => worker'[h] = b
  BY <1>3, <1>4
<1>6. ASSUME NEW w \in Workers  PROVE WorkerFits(w)'
  <2>1. CASE w # h \/ e \in processed
    BY <1>1, <1>5, <2>1, WorkerKeeps DEF records, upstream
  <2>2. CASE w = h /\ e \notin processed
    <3>1. worker'[w] = b
      BY <1>5, <2>2
    <3>2. e \in arrived'
      BY <1>1 DEF upstream
    <3> QED  BY <1>3, <3>1, <3>2 DEF WorkerFits
  <2> QED  BY <2>1, <2>2
<1>7. LocksApart'
  BY <1>1, <1>3, <1>5, FreeWorker DEF NInv, LocksApart
<1>8. NothingLost'
  <2> SUFFICES ASSUME NEW g \in arrived \ unheard
               PROVE  (queue[g] > 0 \/ InHand(g) # {} \/ g \in processed \cup rejected)'
    BY <1>1 DEF NothingLost, upstream
  <2>1. g \in Event /\ g # 0
    BY DEF Event
  <2>2. queue[g] > 0 \/ InHand(g) # {} \/ g \in processed \cup rejected
    BY DEF NInv, NothingLost
  <2>3. CASE g = e
    BY <1>1, <1>3, <1>5, <2>3 DEF InHand, records
  <2>4. CASE g # e
    <3>1. \A o \in InHand(g) : worker'[o].event = g
      BY <1>1, <1>5, <2>1, FreeWorker DEF InHand
    <3>2. InHand(g) # {} => InHand(g)' # {}
      BY <3>1 DEF InHand
    <3>3. processed' = processed /\ rejected' = rejected /\ queue'[g] = queue[g]
      BY <1>1, <1>2, <2>1, <2>4 DEF records
    <3> QED  BY <2>2, <3>2, <3>3
  <2> QED  BY <2>3, <2>4
<1>9. \A n \in Note : \A w \in Workers :
         worker[w].at = n /\ worker[w].answer = "sent" /\ accepted[n] > 0 =>
            n \in excused' \/ (worker'[w].at = n /\ worker'[w].answer = "sent")
  BY <1>1, <1>5, FreeWorker, NoteIsNotEmpty
<1> QED  BY <1>1, <1>2, <1>5, <1>6, <1>7, <1>8, <1>9, HandStep

\* One worker fails or finishes.
LEMMA FreeOne ==
    ASSUME NInv, NEW w \in Workers, worker' = [worker EXCEPT ![w] = Free],
           UNCHANGED <<upstream, records, accepted>>,
           queue' \in [Event -> 0 .. MaxCopies], faults' \in 0 .. MaxFaults,
           rejected \subseteq rejected', rejected' \subseteq arrived,
           \/ excused' = excused \cup Forgotten({w})
           \/ excused' = excused /\ ~ worker[w].stored /\ w # "loop",
           \A e \in Event : queue'[e] > 0 => e \in arrived,
           \A e \in Event : queue[e] > 0 => queue'[e] > 0,
           w # "loop" /\ worker[w].event # 0 =>
               \/ queue'[worker[w].event] > 0
               \/ worker[w].event \in processed \cup rejected'
    PROVE  NInv'
<1> DEFINE W == {w}
<1>1. worker' = [v \in Workers |-> IF v \in W THEN Free ELSE worker[v]]
  BY DEF NInv, NotificationTypeOK
<1>2. W \in SUBSET Workers /\ \A v \in W : v = w
  OBVIOUS
<1>3. WorkerFits(w)
  BY DEF NInv
<1>4. ~ worker[w].stored /\ w # "loop" => Forgotten(W) = {}
  BY <1>3, NoteIsNotEmpty DEF Forgotten, WorkerFits
<1>5. excused \cup Forgotten(W) \subseteq excused' /\ excused' \subseteq Note
  BY <1>4, QueueFacts DEF Forgotten
<1>6. \A h \in W \cap Handlers : worker[h].event # 0 =>
         \/ queue'[worker[h].event] > 0
         \/ worker[h].event \in processed \cup rejected'
  BY <1>2, NotificationAssumption
<1> HIDE DEF W
<1> QED  BY <1>1, <1>2, <1>5, <1>6, FreeStep

LEMMA HandlerEnds ==
    ASSUME NInv, NEW h \in Handlers, Requeue(h) \/ Reject(h)
    PROVE  NInv'
<1> DEFINE e == worker[h].event
<1>0. h \in Workers /\ h # "loop" /\ queue \in [Event -> 0 .. MaxCopies] /\ MaxCopies \in Nat
      /\ faults \in 0 .. MaxFaults /\ MaxFaults \in Nat
      /\ rejected \subseteq arrived /\ \A g \in Event : queue[g] > 0 => g \in arrived
  BY QueueFacts
<1>1. e # 0 /\ e \in arrived /\ e \in Event
  BY QueueFacts DEF Requeue, Reject
<1>2. CASE Requeue(h)
  <2>1. /\ ~ worker[h].stored /\ queue[e] < MaxCopies /\ queue' = [queue EXCEPT ![e] = @ + 1]
        /\ worker' = [worker EXCEPT ![h] = Free] /\ faults < MaxFaults /\ faults' = faults + 1
        /\ UNCHANGED <<upstream, records, accepted, rejected, excused>>
    BY <1>2 DEF Requeue, Fault
  <2> HIDE DEF e
  <2>2. /\ queue' \in [Event -> 0 .. MaxCopies] /\ faults' \in 0 .. MaxFaults
        /\ queue'[e] > 0 /\ \A g \in Event : g # e => queue'[g] = queue[g]
    BY <1>0, <1>1, <2>1
  <2>3. /\ \A g \in Event : queue'[g] > 0 => g \in arrived
        /\ \A g \in Event : queue[g] > 0 => queue'[g] > 0
        /\ rejected \subseteq rejected' /\ rejected' \subseteq arrived
    BY <1>0, <1>1, <2>1, <2>2
  <2> QED  BY <1>0, <1>1, <2>1, <2>2, <2>3, FreeOne DEF e
<1>3. CASE Reject(h)
  <2>1. /\ rejected' = rejected \cup {e} /\ worker' = [worker EXCEPT ![h] = Free]
        /\ excused' = excused \cup Forgotten({h})
        /\ UNCHANGED <<upstream, records, accepted, queue, faults>>
    BY <1>3 DEF Reject, producer
  <2>2. rejected \subseteq rejected' /\ rejected' \subseteq arrived /\ e \in rejected'
    BY <1>0, <1>1, <2>1
  <2> QED  BY <1>0, <2>1, <2>2, FreeOne
<1> QED  BY <1>2, <1>3

LEMMA FaultSteps ==
    ASSUME NInv,
           Crash \/ LoopFails \/ \E h \in Handlers : Redeliver(h)
    PROVE  NInv'
<1> USE QueueFacts
<1>1. CASE Crash
  <2>1. /\ worker' = [w \in Workers |-> Free] /\ faults < MaxFaults /\ faults' = faults + 1
        /\ queue' = [e \in Event |-> queue[e] + Cardinality(InHand(e))]
        /\ \A e \in Event : queue[e] + Cardinality(InHand(e)) <= MaxCopies
        /\ excused' = excused \cup Forgotten(Workers)
        /\ UNCHANGED <<upstream, records, accepted, rejected>>
    BY <1>1 DEF Crash, Fault
  <2>2. \A e \in Event : Cardinality(InHand(e)) \in Nat /\ (InHand(e) # {} => Cardinality(InHand(e)) > 0)
    <3> TAKE e \in Event
    <3>1. IsFiniteSet(InHand(e))
      BY NotificationAssumption, FS_Subset DEF InHand
    <3> QED  BY <3>1, FS_CardinalityType, FS_EmptySet
  <2>3. \A e \in Event : queue[e] \in 0 .. MaxCopies
    OBVIOUS
  <2>4. \A e \in Event : queue'[e] > 0 <=> queue[e] > 0 \/ InHand(e) # {}
    <3> TAKE e \in Event
    <3>1. queue'[e] = queue[e] + Cardinality(InHand(e))
      BY <2>1
    <3>2. InHand(e) = {} => Cardinality(InHand(e)) = 0
      BY FS_EmptySet
    <3> QED  BY <2>1, <2>2, <2>3, <3>1, <3>2
  <2>5. \A e \in Event : InHand(e) # {} => e \in arrived
    BY DEF InHand, Event
  <2>6. queue' \in [Event -> 0 .. MaxCopies]
    <3> DEFINE Q == 0 .. MaxCopies
    <3>1. \A e \in Event : queue[e] + Cardinality(InHand(e)) \in Q
      BY <2>1, <2>2, <2>3
    <3> HIDE DEF Q
    <3>2. queue' \in [Event -> Q]
      BY <2>1, <3>1
    <3> QED  BY <3>2 DEF Q
  <2>7. \A h \in Handlers : worker[h].event # 0 =>
           worker[h].event \in Event /\ h \in InHand(worker[h].event)
    BY DEF InHand
  <2>8. worker' = [w \in Workers |-> IF w \in Workers THEN Free ELSE worker[w]]
    BY <2>1
  <2>9. /\ excused \cup Forgotten(Workers) \subseteq excused' /\ excused' \subseteq Note
        /\ faults' \in 0 .. MaxFaults
        /\ rejected \subseteq rejected' /\ rejected' \subseteq arrived
    BY <2>1 DEF Forgotten
  <2>10. /\ \A e \in Event : queue'[e] > 0 => e \in arrived
         /\ \A e \in Event : queue[e] > 0 => queue'[e] > 0
         /\ \A h \in Workers \cap Handlers : worker[h].event # 0 => queue'[worker[h].event] > 0
    <3>1. \A e \in Event : queue[e] > 0 => e \in arrived
      OBVIOUS
    <3> HIDE QueueFacts
    <3>2. \A h \in Handlers : worker[h].event # 0 => InHand(worker[h].event) # {}
      BY <2>7
    <3> QED  BY <2>4, <2>5, <2>7, <3>1, <3>2
  <2> QED  BY <2>1, <2>6, <2>8, <2>9, <2>10, FreeStep
<1>2. CASE LoopFails
  <2>1. /\ worker' = [worker EXCEPT !["loop"] = Free] /\ faults < MaxFaults /\ faults' = faults + 1
        /\ excused' = excused \cup Forgotten({"loop"})
        /\ UNCHANGED <<upstream, records, accepted, rejected, queue>>
    BY <1>2 DEF LoopFails, Fault
  <2>2. "loop" \in Workers /\ faults' \in 0 .. MaxFaults
    BY <2>1 DEF Workers
  <2> QED  BY <2>1, <2>2, FreeOne
<1>3. ASSUME NEW h \in Handlers, Redeliver(h)  PROVE NInv'
  <2> DEFINE e == worker[h].event
             W == {}
  <2>1. /\ e # 0 /\ queue[e] < MaxCopies /\ queue' = [queue EXCEPT ![e] = @ + 1]
        /\ faults < MaxFaults /\ faults' = faults + 1
        /\ UNCHANGED <<upstream, records, accepted, rejected, excused, worker>>
    BY <1>3 DEF Redeliver, Fault, serviceVars, records
  <2>2. /\ e \in arrived /\ e \in Event
    BY <2>1
  <2> HIDE DEF e
  <2>3. /\ queue' \in [Event -> 0 .. MaxCopies] /\ faults' \in 0 .. MaxFaults
        /\ queue'[e] > 0 /\ \A g \in Event : g # e => queue'[g] = queue[g]
    BY <2>1, <2>2
  <2>4. worker' = [v \in Workers |-> IF v \in W THEN Free ELSE worker[v]] /\ W \in SUBSET Workers
    BY <2>1
  <2>5. excused \cup Forgotten(W) \subseteq excused' /\ excused' \subseteq Note
    BY <2>1 DEF Forgotten
  <2>6. /\ \A g \in Event : queue'[g] > 0 => g \in arrived
        /\ \A g \in Event : queue[g] > 0 => queue'[g] > 0
        /\ rejected \subseteq rejected' /\ rejected' \subseteq arrived
        /\ \A o \in W : FALSE
    BY <2>1, <2>2, <2>3
  <2> HIDE DEF W
  <2> QED  BY <2>1, <2>3, <2>4, <2>5, <2>6, FreeStep
<1> QED  BY <1>1, <1>2, <1>3

-----------------------------------------------------------------------------

\* A step of worker w that respects the rows the others have in hand.
LEMMA OneWorker ==
    ASSUME NInv, NEW w \in Workers, NEW b \in Worker, worker' = [worker EXCEPT ![w] = b],
           arrived' = arrived, processed \subseteq processed', excused \subseteq excused',
           \A n \in Note : note[n].status # "none" => note'[n].status # "none",
           \A n \in Note : accepted[n] > 0 => accepted'[n] > 0,
           \A v \in Workers \ {w} : worker[v].at # <<>> =>
              note'[worker[v].at].status = note[worker[v].at].status,
           worker'[w] = b => WorkerFits(w)',
           b.locks \cap LockedBut(w) = {}
    PROVE  /\ worker' \in [Workers -> Worker] /\ LocksApart'
           /\ \A v \in Workers : WorkerFits(v)'
           /\ \A v \in Workers \ {w} : worker'[v] = worker[v]
           /\ worker'[w] = b
<1>1. /\ worker' \in [Workers -> Worker] /\ worker'[w] = b
      /\ \A v \in Workers \ {w} : worker'[v] = worker[v]
  BY DEF NInv, NotificationTypeOK
<1>2. ASSUME NEW v \in Workers  PROVE WorkerFits(v)'
  <2>1. CASE v = w
    BY <1>1, <2>1
  <2>2. CASE v # w
    BY <1>1, <2>2, WorkerKeeps
  <2> QED  BY <2>1, <2>2
<1>3. \A v \in Workers \ {w} : b.locks \cap worker[v].locks = {}
  BY DEF LockedBut
<1>4. LocksApart'
  BY <1>1, <1>3 DEF NInv, LocksApart
<1> QED  BY <1>1, <1>2, <1>4

\* No message is lost by a step that lets go only of events it has processed.
LEMMA StillThere ==
    ASSUME NInv, UNCHANGED <<upstream, queue, rejected>>, processed \subseteq processed',
           \A h \in Handlers : worker[h].event # 0 =>
              worker'[h].event = worker[h].event \/ worker[h].event \in processed'
    PROVE  NothingLost'
<1> SUFFICES ASSUME NEW e \in arrived \ unheard
             PROVE  (queue[e] > 0 \/ InHand(e) # {} \/ e \in processed \cup rejected)'
  BY DEF NothingLost, upstream
<1>1. e # 0
  BY QueueFacts DEF Event
<1>2. queue[e] > 0 \/ InHand(e) # {} \/ e \in processed \cup rejected
  BY DEF NInv, NothingLost
<1>3. CASE InHand(e) # {}
  <2>1. PICK h \in Handlers : worker[h].event = e
    BY <1>3 DEF InHand
  <2>2. CASE worker'[h].event = e
    BY <2>2 DEF InHand
  <2>3. CASE e \in processed'
    BY <2>3
  <2> QED  BY <1>1, <2>1, <2>2, <2>3
<1> QED  BY <1>2, <1>3

LEMMA LoopSteps ==
    ASSUME NInv,
           SelectDue \/ \E n \in Note : Skip(n)
    PROVE  NInv'
<1>0. /\ "loop" \in Workers /\ \A h \in Handlers : h \in Workers /\ h # "loop"
      /\ worker["loop"] \in Worker /\ WorkerFits("loop")
  BY QueueFacts DEF Workers, NInv
<1>1. ASSUME NEW b \in Worker, worker' = [worker EXCEPT !["loop"] = b],
             UNCHANGED <<producer, queue, records, rejected, accepted, excused>>,
             b.at = <<>>, worker["loop"].at = <<>>, b.event = 0 \/ b.event = worker["loop"].event,
             b.stored => worker["loop"].stored /\ b.event = worker["loop"].event,
             \A n \in b.todo \cup b.locks : note[n].status # "none",
             b.locks \cap LockedBut("loop") = {}
      PROVE  NInv'
  <2>1. UNCHANGED <<upstream, records, accepted>> /\ arrived' = arrived
        /\ processed' = processed /\ note' = note
    BY <1>1 DEF producer, records, upstream
  <2>2. worker'["loop"] = b => WorkerFits("loop")'
    <3> SUFFICES ASSUME worker'["loop"] = b PROVE WorkerFits("loop")'
      OBVIOUS
    <3> QED  BY <1>0, <1>1, <2>1 DEF WorkerFits
  <2>3. /\ worker' \in [Workers -> Worker] /\ LocksApart'
        /\ \A v \in Workers : WorkerFits(v)'
        /\ \A v \in Workers \ {"loop"} : worker'[v] = worker[v]
    BY <1>0, <1>1, <2>1, <2>2, OneWorker
  <2>4. NothingLost'
    BY <1>0, <1>1, <2>1, <2>3, StillThere
  <2>5. \A n \in Note : \A w \in Workers :
           worker[w].at = n /\ worker[w].answer = "sent" /\ accepted[n] > 0 =>
              n \in excused' \/ (worker'[w].at = n /\ worker'[w].answer = "sent")
    BY <1>1, <2>3, NoteIsNotEmpty
  <2>6. /\ queue' \in [Event -> 0 .. MaxCopies] /\ faults' \in 0 .. MaxFaults
        /\ rejected' \subseteq arrived /\ excused \subseteq excused' /\ excused' \subseteq Note
        /\ \A e \in Event : queue'[e] > 0 => e \in arrived
    BY <1>1, QueueFacts DEF producer
  <2> QED  BY <2>1, <2>3, <2>4, <2>5, <2>6, HandStep
<1>2. CASE SelectDue
  <2> DEFINE found == Due \ LockedBut("loop")
             b == [[Free EXCEPT !.todo = found] EXCEPT !.locks = found]
  <2>1. /\ worker["loop"] = Free
        /\ worker' = [worker EXCEPT !["loop"].todo = found, !["loop"].locks = found]
        /\ UNCHANGED <<producer, queue, records, rejected, accepted, excused>>
    BY <1>2 DEF SelectDue
  <2>2. found \subseteq Note /\ (\A n \in found : note[n].status # "none")
        /\ found \cap LockedBut("loop") = {}
    BY DEF Due
  <2> HIDE DEF found
  <2>3. b \in Worker /\ b.todo = found /\ b.locks = found /\ b.at = <<>> /\ b.event = 0 /\ ~ b.stored
    BY <2>2 DEF Free, Worker
  <2>4. worker' = [worker EXCEPT !["loop"] = b]
    BY <1>0, <2>1, QueueFacts
  <2> HIDE DEF b
  <2> QED  BY <1>1, <2>1, <2>2, <2>3, <2>4, FreeWorker
<1>3. ASSUME NEW n \in Note, Skip(n)  PROVE NInv'
  <2> DEFINE c == [worker["loop"] EXCEPT !.todo = @ \ {n}]
             b == IF worker["loop"].todo = {n} THEN Free ELSE c
  <2>1. /\ worker["loop"].at = <<>>
        /\ worker' = [worker EXCEPT !["loop"] = b]
        /\ UNCHANGED <<producer, queue, records, rejected, accepted, excused>>
    BY <1>3 DEF Skip
  <2>2. /\ c \in Worker /\ c.at = <<>> /\ c.event = worker["loop"].event
        /\ c.stored = worker["loop"].stored /\ c.locks = worker["loop"].locks
        /\ c.todo = worker["loop"].todo \ {n}
    BY <1>0, <2>1 DEF Worker
  <2>3. worker["loop"].locks \cap LockedBut("loop") = {}
    BY <1>0 DEF NInv, LocksApart, LockedBut
  <2> HIDE DEF c
  <2>4. b = Free \/ b = c
    OBVIOUS
  <2> HIDE DEF b
  <2>5. \A m \in c.todo \cup c.locks : note[m].status # "none"
    BY <1>0, <2>2 DEF WorkerFits
  <2>6. CASE b = Free
    BY <1>1, <2>1, <2>6, FreeWorker
  <2>7. CASE b = c
    BY <1>1, <2>1, <2>2, <2>3, <2>5, <2>7
  <2> QED  BY <2>4, <2>6, <2>7
<1> QED  BY <1>2, <1>3

\* The only types whose payload does not do for their template.
LEMMA Untold ==
    ASSUME NEW t \in EventTypes, ~ (HasRecipient(t) /\ Renders(t))
    PROVE  t \in {"booking.confirmed.v1", "payment.captured.v1", "payment.refunded.v1"}
<1>1. CASE t = "booking.cancelled.v1"
  BY <1>1 DEF HasRecipient, Renders, Needs, Context, Carries, BookingPayload
<1>2. CASE t = "booking.rescheduled.v1"
  BY <1>2 DEF HasRecipient, Renders, Needs, Context, Carries, BookingPayload
<1>3. CASE t = "feedback.submitted.v1"
  BY <1>3 DEF HasRecipient, Renders, Needs, Context, Carries, InterviewPayload
<1>4. CASE t = "interview.interviewer_no_show.v1"
  BY <1>4 DEF HasRecipient, Renders, Needs, Context, Carries, InterviewPayload
<1>5. CASE t = "interview.candidate_no_show.v1"
  BY <1>5 DEF HasRecipient, Renders, Needs, Context, Carries, InterviewPayload
<1> QED  BY <1>1, <1>2, <1>3, <1>4, <1>5 DEF EventTypes

LEMMA DeadLetterStep ==
    ASSUME NInv, NEW h \in Handlers, DeadLetter(h)
    PROVE  NInv'
<1> DEFINE e == worker[h].event
<1>0. /\ h \in Workers /\ h # "loop" /\ worker[h] \in Worker
      /\ queue \in [Event -> 0 .. MaxCopies] /\ faults \in 0 .. MaxFaults
      /\ letters \in [Event -> 0 .. 2] /\ processed \subseteq arrived /\ arrived \subseteq Event
  BY QueueFacts DEF NInv, NotificationTypeOK
<1>1. /\ e # 0 /\ ~ worker[h].stored /\ e \notin processed
      /\ letters' = [letters EXCEPT ![e] = IF @ = 2 THEN 2 ELSE @ + 1]
      /\ processed' = processed \cup {e} /\ worker' = [worker EXCEPT ![h] = Free]
      /\ \/ ~ (HasRecipient(outbox[e]) /\ Renders(outbox[e])) /\ unreachable' = unreachable
         \/ unreachable' = unreachable \cup {e}
      /\ UNCHANGED <<upstream, faults, queue, note, exhausted, rejected, accepted, excused>>
  BY DEF DeadLetter, NobodyToTell, producer
<1>2. e \in arrived /\ e \in Event /\ outbox[e] \in EventTypes
  BY <1>0, <1>1, QueueFacts, NotificationAssumption DEF NInv, OutboxInv, TypeOK, Written
<1>3. letters[e] = 0 /\ ~ Told(e)
  BY <1>0, <1>1, <1>2 DEF NInv, OneOutcome
<1>4. /\ letters' \in [Event -> 0 .. 2] /\ letters'[e] = 1
      /\ \A g \in Event : g # e => letters'[g] = letters[g]
  BY <1>0, <1>1, <1>2, <1>3
<1>5. arrived' = arrived /\ outbox' = outbox
  BY <1>1 DEF upstream
<1>6. worker'[h] = Free => WorkerFits(h)'
  BY <1>0, FreeFits
<1>7. /\ worker' \in [Workers -> Worker] /\ LocksApart'
      /\ \A v \in Workers : WorkerFits(v)'
      /\ \A v \in Workers \ {h} : worker'[v] = worker[v]
  <2>1. Free.locks \cap LockedBut(h) = {}
    BY FreeWorker
  <2> QED  BY <1>0, <1>1, <1>5, <1>6, <2>1, OneWorker, FreeWorker
<1>8. OutboxInv'
  BY <1>0, <1>1, QueueStep DEF NInv
<1>9. NotificationTypeOK'
  BY <1>0, <1>1, <1>2, <1>4, <1>5, <1>7, <1>8 DEF NInv, NotificationTypeOK, OutboxInv
<1>10. (\A n \in Note : RowFits(n))' /\ QueueFits'
  BY <1>1, <1>5 DEF NInv, RowFits, QueueFits
<1>11. NothingLost'
  BY <1>0, <1>1, <1>7, StillThere, QueueFacts
<1>12. OneOutcome'
  <2>1. \A g \in Event : Told(g)' <=> Told(g)
    BY <1>1 DEF Told
  <2> QED  BY <1>1, <1>3, <1>4, <2>1 DEF NInv, OneOutcome
<1>13. TwiceOnlyExcused'
  BY <1>1 DEF NInv, TwiceOnlyExcused
<1>14. StatusTellsTheSending'
  <2>1. WorkerFits(h)
    BY <1>0 DEF NInv
  <2>2. worker[h].at = <<>>
    BY <1>0, <1>1, <2>1 DEF WorkerFits
  <2> QED  BY <1>0, <1>1, <1>7, <2>2, NoteIsNotEmpty DEF NInv, StatusTellsTheSending
<1>15. OnlyTheseGoUntold'
  BY <1>1, <1>2, <1>4, <1>5, Untold DEF NInv, OnlyTheseGoUntold
<1> QED  BY <1>7, <1>8, <1>9, <1>10, <1>11, <1>12, <1>13, <1>14, <1>15 DEF NInv

LEMMA StoreStep ==
    ASSUME NInv, NEW h \in Handlers, Store(h)
    PROVE  NInv'
<1> DEFINE e == worker[h].event
<1>0. /\ h \in Workers /\ h # "loop" /\ worker[h] \in Worker /\ WorkerFits(h)
      /\ queue \in [Event -> 0 .. MaxCopies] /\ faults \in 0 .. MaxFaults
      /\ processed \subseteq arrived /\ arrived \subseteq Event /\ rejected \subseteq arrived
      /\ \A g \in Event : queue[g] > 0 => g \in arrived
  BY QueueFacts DEF NInv, NotificationTypeOK
<1>1. e # 0 /\ ~ worker[h].stored /\ worker[h].at = <<>> /\ e \in arrived /\ e \in Event
      /\ UNCHANGED <<upstream, faults, queue, letters, exhausted, rejected, accepted, excused,
                     unreachable>>
  BY <1>0 DEF Store, WorkerFits, producer
<1>2. CASE e \in processed
  <2>1. worker' = [worker EXCEPT ![h] = Free] /\ UNCHANGED <<note, processed>>
    BY <1>2 DEF Store
  <2>2. UNCHANGED <<upstream, records, accepted>>
    BY <1>1, <2>1 DEF records
  <2> QED  BY <1>0, <1>1, <1>2, <2>1, <2>2, FreeOne
<1>3. CASE e \notin processed
  <2>1. PICK some \in (SUBSET Channels) \ {{}} :
          /\ note' = [n \in Note |-> IF n \in {e} \X some
                         THEN [status |-> "pending", attempts |-> 0, due |-> FALSE]
                         ELSE note[n]]
          /\ processed' = processed \cup {e}
          /\ worker' = [worker EXCEPT ![h].stored = TRUE, ![h].todo = {e} \X some]
    BY <1>3 DEF Store
  <2> DEFINE T == {e} \X some
             b == [[worker[h] EXCEPT !.stored = TRUE] EXCEPT !.todo = T]
  <2>2. T \subseteq Note /\ \A n \in T : n[1] = e
    BY <1>1 DEF Note
  <2>3. \A n \in T : note[n].status = "none" /\ accepted[n] = 0
    BY <1>3, <2>2 DEF NInv, RowFits
  <2>4. note' = [n \in Note |-> IF n \in T
                   THEN [status |-> "pending", attempts |-> 0, due |-> FALSE]
                   ELSE note[n]]
    BY <2>1
  <2>5. PICK c \in some : c \in Channels
    <3>1. some # {} /\ some \subseteq Channels
      BY <2>1
    <3> QED  BY <3>1
  <2>6. <<e, c>> \in T
    BY <2>5
  <2> HIDE DEF T
  <2>7. /\ b \in Worker /\ b.todo = T /\ b.stored /\ b.event = e /\ b.at = <<>>
        /\ b.locks = worker[h].locks
    BY <1>0, <1>1, <2>2 DEF Worker
  <2>8. worker' = [worker EXCEPT ![h] = b]
    BY <1>0, <2>1, QueueFacts DEF T
  <2> HIDE DEF b, e
  <2>9. /\ \A n \in T : note'[n] = [status |-> "pending", attempts |-> 0, due |-> FALSE]
        /\ \A n \in Note \ T : note'[n] = note[n]
    BY <2>2, <2>4
  <2>10. arrived' = arrived /\ outbox' = outbox
    BY <1>1 DEF upstream
  <2>11. worker'[h] = b => WorkerFits(h)'
    <3> SUFFICES ASSUME worker'[h] = b PROVE WorkerFits(h)'
      OBVIOUS
    <3>1. \A n \in b.todo \cup b.locks : note'[n].status # "none"
      <4>1. worker[h].locks \subseteq Note
        BY <1>0 DEF Worker
      <4> QED  BY <1>0, <2>2, <2>7, <2>9, <4>1 DEF WorkerFits
    <3> QED  BY <1>0, <1>1, <2>1, <2>7, <2>10, <3>1 DEF WorkerFits, e
  <2>12. \A v \in Workers \ {h} : worker[v].at # <<>> =>
            note'[worker[v].at].status = note[worker[v].at].status
    <3> SUFFICES ASSUME NEW v \in Workers \ {h}, worker[v].at # <<>>
                 PROVE  note'[worker[v].at] = note[worker[v].at]
      OBVIOUS
    <3>1. WorkerFits(v) /\ worker[v] \in Worker
      BY QueueFacts DEF NInv
    <3>2. worker[v].at \in Note /\ note[worker[v].at].status # "none"
      BY <3>1 DEF WorkerFits, Worker
    <3> QED  BY <2>3, <2>9, <3>2
  <2>13. /\ worker' \in [Workers -> Worker] /\ LocksApart'
         /\ \A v \in Workers : WorkerFits(v)'
         /\ \A v \in Workers \ {h} : worker'[v] = worker[v]
         /\ worker'[h] = b
    <3>1. b.locks \cap LockedBut(h) = {}
      BY <1>0, <2>7 DEF NInv, LocksApart, LockedBut
    <3>2. \A n \in Note : note[n].status # "none" => note'[n].status # "none"
      BY <2>9
    <3> QED  BY <1>0, <1>1, <2>1, <2>7, <2>8, <2>10, <2>11, <2>12, <3>1, <3>2, OneWorker
  <2>14. OutboxInv'
    BY <1>0, <1>1, QueueStep DEF NInv
  <2>15. NotificationTypeOK'
    <3>1. MaxAttempts \in Nat
      BY NotificationAssumption
    <3>2. note' \in [Note -> [status : Final \cup {"none", "pending", "retry_scheduled"},
                             attempts : 0 .. MaxAttempts, due : BOOLEAN]]
      BY <2>2, <2>4, <3>1 DEF NInv, NotificationTypeOK
    <3>3. processed' \subseteq arrived'
      BY <1>0, <1>1, <2>1, <2>10 DEF e
    <3> QED  BY <1>1, <2>10, <2>13, <2>14, <3>2, <3>3 DEF NInv, NotificationTypeOK, OutboxInv
  <2>16. (\A n \in Note : RowFits(n))'
    <3> SUFFICES ASSUME NEW n \in Note PROVE RowFits(n)'
      OBVIOUS
    <3>1. CASE n \in T
      <4>1. 0 < MaxAttempts
        BY NotificationAssumption
      <4> QED  BY <2>1, <2>2, <2>9, <3>1, <4>1 DEF RowFits, e
    <3>2. CASE n \notin T
      BY <1>1, <2>1, <2>9, <3>2 DEF NInv, RowFits
    <3> QED  BY <3>1, <3>2
  <2>17. QueueFits'
    BY <1>1, <2>10 DEF NInv, QueueFits
  <2>18. NothingLost'
    BY <1>0, <1>1, <2>1, <2>7, <2>13, StillThere, QueueFacts DEF e
  <2>19. OneOutcome'
    <3> SUFFICES ASSUME NEW g \in Event
                 PROVE  /\ letters[g] <= 1
                        /\ ~ (Told(g)' /\ letters[g] = 1)
                        /\ g \in processed' <=> Told(g)' \/ letters[g] = 1
      BY <1>1 DEF OneOutcome
    <3>1. /\ letters[g] <= 1
          /\ ~ (Told(g) /\ letters[g] = 1)
          /\ g \in processed <=> Told(g) \/ letters[g] = 1
      BY DEF NInv, OneOutcome
    <3>2. CASE g = e
      <4>1. Told(g)'
        BY <2>5, <2>6, <2>9, <3>2 DEF Told
      <4> QED  BY <1>3, <2>1, <3>1, <3>2, <4>1 DEF e
    <3>3. CASE g # e
      <4>1. \A d \in Channels : <<g, d>> \in Note /\ <<g, d>> \notin T
        BY <2>2, <3>3 DEF Note
      <4>2. Told(g)' <=> Told(g)
        BY <2>9, <4>1 DEF Told
      <4> QED  BY <2>1, <3>1, <3>3, <4>2 DEF e
    <3> QED  BY <3>2, <3>3
  <2>20. TwiceOnlyExcused' /\ OnlyTheseGoUntold'
    BY <1>1, <2>10 DEF NInv, TwiceOnlyExcused, OnlyTheseGoUntold
  <2>21. StatusTellsTheSending'
    <3> SUFFICES ASSUME NEW n \in Note
                 PROVE  /\ note'[n].status = "sent" => accepted[n] > 0
                        /\ accepted[n] > 0 /\ note'[n].status # "sent" =>
                              \/ n \in excused
                              \/ \E w \in Workers : worker'[w].at = n /\ worker'[w].answer = "sent"
                        /\ note'[n].status = "dead_lettered" => n \in exhausted
      BY <1>1 DEF StatusTellsTheSending
    <3>1. CASE n \in T
      BY <2>3, <2>9, <3>1
    <3>2. CASE n \notin T
      <4>1. \A w \in Workers : worker[w].at = n => w # h
        BY <1>1, NoteIsNotEmpty
      <4> QED  BY <2>9, <2>13, <3>2, <4>1 DEF NInv, StatusTellsTheSending
    <3> QED  BY <3>1, <3>2
  <2> QED  BY <2>13, <2>14, <2>15, <2>16, <2>17, <2>18, <2>19, <2>20, <2>21 DEF NInv
<1> QED  BY <1>2, <1>3

LEMMA SendStep ==
    ASSUME NInv, NEW w \in Workers, NEW n \in Note, Send(w, n)
    PROVE  NInv'
<1>0. /\ worker[w] \in Worker /\ WorkerFits(w) /\ worker[w].at = <<>> /\ n \in worker[w].todo
      /\ n \notin LockedBut(w) /\ ~ Skips(w, n)
      /\ note[n].status # "none" /\ accepted \in [Note -> 0 .. 2] /\ excused \subseteq Note
      /\ queue \in [Event -> 0 .. MaxCopies] /\ faults \in 0 .. MaxFaults
      /\ UNCHANGED <<upstream, faults, queue, records, rejected>>
  BY QueueFacts DEF Send, NInv, NotificationTypeOK, WorkerFits, producer
<1>1. PICK answer \in {"sent", "failed"}, taken \in BOOLEAN :
         /\ answer = "sent" => taken
         /\ IF taken THEN Accept(n) ELSE UNCHANGED accepted
         /\ excused' = IF Stale(w, n) \/ (taken /\ answer = "failed")
                       THEN excused \cup {n} ELSE excused
         /\ worker' = [worker EXCEPT ![w].at = n, ![w].answer = answer,
                                     ![w].locks = @ \cup {n}]
  BY DEF Send
<1> DEFINE b == [[[worker[w] EXCEPT !.at = n] EXCEPT !.answer = answer] EXCEPT !.locks = @ \cup {n}]
<1>2. /\ b \in Worker /\ b.at = n /\ b.answer = answer /\ b.locks = worker[w].locks \cup {n}
      /\ b.todo = worker[w].todo /\ b.event = worker[w].event /\ b.stored = worker[w].stored
  BY <1>0 DEF Worker
<1>3. worker' = [worker EXCEPT ![w] = b]
  BY <1>1, QueueFacts
<1> HIDE DEF b
<1>4. /\ accepted' \in [Note -> 0 .. 2]
      /\ \A m \in Note : m # n => accepted'[m] = accepted[m]
      /\ accepted[n] > 0 => accepted'[n] > 0
      /\ answer = "sent" => accepted'[n] > 0
      /\ accepted'[n] > 1 => accepted[n] > 0
  <2>1. accepted[n] \in 0 .. 2
    BY <1>0
  <2>2. CASE taken
    <3> DEFINE x == IF n[2] = "email" \/ accepted[n] = 2
                    THEN IF accepted[n] = 0 THEN 1 ELSE accepted[n] ELSE accepted[n] + 1
    <3>1. accepted' = [accepted EXCEPT ![n] = x]
      BY <1>1, <2>2 DEF Accept
    <3>2. x \in 0 .. 2 /\ x > 0 /\ (x > 1 => accepted[n] > 0)
      BY <2>1
    <3> HIDE DEF x
    <3> QED  BY <1>0, <3>1, <3>2
  <2>3. CASE ~ taken
    <3>1. accepted' = accepted /\ answer # "sent"
      BY <1>1, <2>3
    <3>2. accepted[n] > 1 => accepted[n] > 0
      BY <2>1
    <3> QED  BY <1>0, <3>1, <3>2
  <2> QED  BY <2>2, <2>3
<1>5. /\ excused \subseteq excused' /\ excused' \subseteq Note
      /\ Stale(w, n) => n \in excused'
      /\ accepted'[n] = accepted[n] \/ answer = "sent" \/ n \in excused'
  BY <1>0, <1>1
<1>6. arrived' = arrived /\ outbox' = outbox /\ note' = note /\ processed' = processed
      /\ letters' = letters /\ exhausted' = exhausted /\ unreachable' = unreachable
  BY <1>0 DEF upstream, records
<1>7. \A m \in Note : accepted[m] > 0 => accepted'[m] > 0
  BY <1>4
\* The row is not final, or the handler's copy of it is stale.
<1>8. w = "loop" => note[n].status \notin Final
  BY <1>0 DEF Skips
<1>9. w # "loop" => note[n].status = "pending" \/ n \in excused'
  BY <1>5 DEF Stale
<1>10. worker'[w] = b => WorkerFits(w)'
  <2> SUFFICES ASSUME worker'[w] = b PROVE WorkerFits(w)'
    OBVIOUS
  <2>1. \A m \in b.todo \cup b.locks : note[m].status # "none"
    BY <1>0, <1>2 DEF WorkerFits
  <2>2. b.at # <<>> => b.at \in b.todo /\ b.at \in b.locks
    BY <1>0, <1>2
  <2>3. b.event # 0 => b.event \in arrived
    BY <1>0, <1>2 DEF WorkerFits
  <2>4. /\ b.todo # {} /\ w # "loop" => b.stored
        /\ b.stored => b.event \in processed
    BY <1>0, <1>2 DEF WorkerFits
  <2>5. b.answer = "sent" => accepted'[b.at] > 0
    BY <1>2, <1>4
  <2>6. /\ w = "loop" => note[b.at].status \notin Final
        /\ w # "loop" => b.at \in excused' \/ note[b.at].status = "pending"
    BY <1>2, <1>8, <1>9
  <2> QED  BY <1>6, <2>1, <2>2, <2>3, <2>4, <2>5, <2>6 DEF WorkerFits
<1>11. /\ worker' \in [Workers -> Worker] /\ LocksApart'
       /\ \A v \in Workers : WorkerFits(v)'
       /\ \A v \in Workers \ {w} : worker'[v] = worker[v]
       /\ worker'[w] = b
  <2>1. b.locks \cap LockedBut(w) = {}
    BY <1>0, <1>2 DEF NInv, LocksApart, LockedBut
  <2> QED  BY <1>2, <1>3, <1>5, <1>6, <1>7, <1>10, <2>1, OneWorker
<1>12. OutboxInv'
  BY <1>0, QueueStep DEF NInv
<1>13. NotificationTypeOK'
  BY <1>0, <1>4, <1>5, <1>6, <1>11, <1>12 DEF NInv, NotificationTypeOK, OutboxInv
<1>14. (\A m \in Note : RowFits(m))' /\ QueueFits'
  BY <1>0, <1>4, <1>6 DEF NInv, RowFits, QueueFits
<1>15. NothingLost'
  BY <1>0, <1>2, <1>6, <1>11, StillThere, QueueFacts
<1>16. OneOutcome' /\ OnlyTheseGoUntold'
  BY <1>6 DEF NInv, OneOutcome, Told, OnlyTheseGoUntold
\* What was accepted before and is neither excused nor recorded is in another worker's hand.
<1>17. accepted[n] > 0 => n \in excused'
  <2> SUFFICES ASSUME accepted[n] > 0, n \notin excused' PROVE FALSE
    OBVIOUS
  <2>1. note[n].status # "sent"
    BY <1>8, <1>9 DEF Final
  <2>2. PICK v \in Workers : worker[v].at = n
    BY <1>5, <2>1 DEF NInv, StatusTellsTheSending
  <2>3. n # <<>>
    BY NoteIsNotEmpty
  <2>4. n \in worker[v].locks
    BY <2>2, <2>3 DEF NInv, WorkerFits
  <2>5. v # w
    BY <1>0, <2>2, <2>3
  <2> QED  BY <1>0, <2>4, <2>5 DEF LockedBut
<1>18. TwiceOnlyExcused'
  BY <1>4, <1>5, <1>17 DEF NInv, TwiceOnlyExcused
<1>19. StatusTellsTheSending'
  <2> SUFFICES ASSUME NEW m \in Note
               PROVE  /\ note[m].status = "sent" => accepted'[m] > 0
                      /\ accepted'[m] > 0 /\ note[m].status # "sent" =>
                            \/ m \in excused'
                            \/ \E v \in Workers : worker'[v].at = m /\ worker'[v].answer = "sent"
                      /\ note[m].status = "dead_lettered" => m \in exhausted
    BY <1>6 DEF StatusTellsTheSending
  <2>1. CASE m = n
    BY <1>2, <1>4, <1>5, <1>11, <1>17, <2>1 DEF NInv, StatusTellsTheSending
  <2>2. CASE m # n
    <3>1. \A v \in Workers : worker[v].at = m => v # w
      BY <1>0, NoteIsNotEmpty
    <3> QED  BY <1>4, <1>5, <1>11, <2>2, <3>1 DEF NInv, StatusTellsTheSending
  <2> QED  BY <2>1, <2>2
<1> QED  BY <1>11, <1>12, <1>13, <1>14, <1>15, <1>16, <1>18, <1>19 DEF NInv

LEMMA RecordStep ==
    ASSUME NInv, NEW w \in Workers, Record(w)
    PROVE  NInv'
<1> DEFINE n == worker[w].at
           r == Recorded(w, n)
           b == After(w, worker[w].todo \ {n})
<1>0. /\ worker[w] \in Worker /\ WorkerFits(w) /\ n # <<>>
      /\ n \in Note /\ n \in worker[w].todo /\ n \in worker[w].locks
      /\ note[n].status # "none" /\ n[1] \in processed
      /\ accepted \in [Note -> 0 .. 2] /\ exhausted \subseteq Note
      /\ queue \in [Event -> 0 .. MaxCopies] /\ faults \in 0 .. MaxFaults
  <2>1. worker[w] \in Worker /\ WorkerFits(w) /\ n # <<>>
    BY QueueFacts DEF Record, NInv
  <2>2. n \in Note /\ n \in worker[w].todo /\ n \in worker[w].locks /\ note[n].status # "none"
    BY <2>1 DEF WorkerFits, Worker
  <2> QED  BY <2>1, <2>2, QueueFacts DEF NInv, NotificationTypeOK, RowFits
<1>1. /\ note' = [note EXCEPT ![n] = r]
      /\ exhausted' = IF note'[n].status = "dead_lettered" THEN exhausted \cup {n} ELSE exhausted
      /\ worker' = [worker EXCEPT ![w] = b]
      /\ UNCHANGED <<upstream, faults, queue, processed, letters, rejected, accepted, excused,
                     unreachable>>
  BY DEF Record, producer
<1>2. /\ b \in Worker /\ b.at = <<>> /\ b.todo \subseteq worker[w].todo /\ b.locks = {}
      /\ b.stored => worker[w].stored /\ b.event = worker[w].event
      /\ b.event = worker[w].event \/ (b.event = 0 /\ worker[w].todo = {n})
      /\ b.todo # {} => b.stored = worker[w].stored
  <2> DEFINE t == worker[w].todo \ {n}
             c == [worker[w] EXCEPT !.todo = t, !.locks = {}, !.at = <<>>, !.answer = "none"]
  <2>1. b = IF t = {} THEN Free ELSE c
    BY DEF After
  <2>2. /\ c \in Worker /\ c.at = <<>> /\ c.todo = t /\ c.locks = {}
        /\ c.stored = worker[w].stored /\ c.event = worker[w].event
    <3>1. t \in SUBSET Note
      BY <1>0 DEF Worker
    <3> HIDE DEF t
    <3> QED  BY <1>0, <3>1 DEF Worker
  <2>3. t \subseteq worker[w].todo /\ (t = {} => worker[w].todo = {n})
    BY <1>0
  <2> HIDE DEF b, c, t
  <2>4. CASE t = {}
    BY <2>1, <2>3, <2>4, FreeWorker
  <2>5. CASE t # {}
    BY <2>1, <2>2, <2>3, <2>5
  <2> QED  BY <2>4, <2>5
\* The row as the worker counted it.
<1>3. /\ w = "loop" => note[n].status \notin Final
      /\ w # "loop" => n \in excused \/ note[n].status = "pending"
      /\ worker[w].answer = "sent" => accepted[n] > 0
  BY <1>0 DEF WorkerFits
<1>4. Attempts(w, n) \in 1 .. MaxAttempts
  <2>1. MaxAttempts \in Nat /\ MaxAttempts > 0
    BY NotificationAssumption
  <2>2. /\ note[n].attempts \in 0 .. MaxAttempts
        /\ note[n].status \in Final \cup {"none", "pending", "retry_scheduled"}
    BY <1>0 DEF NInv, NotificationTypeOK
  <2>3. w = "loop" => note[n].attempts < MaxAttempts
    BY <1>0, <1>3, <2>2 DEF NInv, RowFits
  <2> QED  BY <2>1, <2>2, <2>3 DEF Attempts
<1>5. /\ r \in [status : Final \cup {"none", "pending", "retry_scheduled"},
                attempts : 0 .. MaxAttempts, due : BOOLEAN]
      /\ r.status \in {"sent", "dead_lettered", "retry_scheduled"}
      /\ r.status = "retry_scheduled" => r.attempts < MaxAttempts
      /\ r.status = "sent" <=> worker[w].answer = "sent"
  <2> DEFINE k == Attempts(w, n)
             q == IF worker[w].answer = "sent" THEN "sent"
                  ELSE IF k >= MaxAttempts THEN "dead_lettered" ELSE "retry_scheduled"
  <2>1. r = [status |-> q, attempts |-> k, due |-> FALSE]
    BY DEF Recorded
  <2>2. k \in 0 .. MaxAttempts /\ k \in Int /\ MaxAttempts \in Int
    BY <1>4, NotificationAssumption
  <2> HIDE DEF k
  <2>3. q \in {"sent", "dead_lettered", "retry_scheduled"} /\ (q = "retry_scheduled" => k < MaxAttempts)
        /\ (q = "sent" <=> worker[w].answer = "sent")
    BY <2>2
  <2> HIDE DEF q, r
  <2> QED  BY <2>1, <2>2, <2>3 DEF Final
<1> HIDE DEF r, b
<1>6. /\ note' \in [Note -> [status : Final \cup {"none", "pending", "retry_scheduled"},
                            attempts : 0 .. MaxAttempts, due : BOOLEAN]]
      /\ note'[n] = r /\ \A m \in Note : m # n => note'[m] = note[m]
  <2> DEFINE R == [status : Final \cup {"none", "pending", "retry_scheduled"},
                   attempts : 0 .. MaxAttempts, due : BOOLEAN]
  <2>1. note \in [Note -> R] /\ r \in R
    BY <1>5 DEF NInv, NotificationTypeOK
  <2> HIDE DEF R, n
  <2>2. note' \in [Note -> R] /\ note'[n] = r /\ \A m \in Note : m # n => note'[m] = note[m]
    BY <1>0, <1>1, <2>1
  <2> QED  BY <2>2 DEF R
<1>7. \A m \in Note : note[m].status # "none" => note'[m].status # "none"
  BY <1>5, <1>6
<1>8. arrived' = arrived /\ outbox' = outbox
  BY <1>1 DEF upstream
<1>9. worker'[w] = b => WorkerFits(w)'
  <2> SUFFICES ASSUME worker'[w] = b PROVE WorkerFits(w)'
    OBVIOUS
  <2>1. \A m \in b.todo \cup b.locks : note'[m].status # "none"
    BY <1>0, <1>2, <1>7 DEF WorkerFits, Worker
  <2>2. b.event # 0 => b.event \in arrived
    BY <1>0, <1>2 DEF WorkerFits
  <2>3. /\ b.todo # {} /\ w # "loop" => b.stored
        /\ b.stored => b.event \in processed
    BY <1>0, <1>2 DEF WorkerFits
  <2> QED  BY <1>1, <1>2, <1>8, <2>1, <2>2, <2>3 DEF WorkerFits
\* No other worker is at the row: it is locked.
<1>10. \A v \in Workers \ {w} : worker[v].at # n
  BY <1>0 DEF NInv, WorkerFits, LocksApart
<1>11. /\ worker' \in [Workers -> Worker] /\ LocksApart'
       /\ \A v \in Workers : WorkerFits(v)'
       /\ \A v \in Workers \ {w} : worker'[v] = worker[v]
       /\ worker'[w] = b
  <2>1. \A v \in Workers \ {w} : worker[v].at # <<>> =>
            note'[worker[v].at].status = note[worker[v].at].status
    <3> SUFFICES ASSUME NEW v \in Workers \ {w}, worker[v].at # <<>>
                 PROVE  note'[worker[v].at] = note[worker[v].at]
      OBVIOUS
    <3>1. worker[v].at \in Note
      BY QueueFacts DEF Worker
    <3> QED  BY <1>6, <1>10, <3>1
  <2>2. b.locks \cap LockedBut(w) = {}
    BY <1>2
  <2> QED  BY <1>1, <1>2, <1>7, <1>8, <1>9, <2>1, <2>2, OneWorker
<1>12. OutboxInv'
  BY <1>0, <1>1, QueueStep DEF NInv
<1>13. exhausted \subseteq exhausted' /\ exhausted' \subseteq Note
       /\ (note'[n].status = "dead_lettered" => n \in exhausted')
  BY <1>0, <1>1
<1>14. NotificationTypeOK'
  BY <1>1, <1>6, <1>8, <1>11, <1>12, <1>13 DEF NInv, NotificationTypeOK, OutboxInv
<1>15. (\A m \in Note : RowFits(m))'
  <2> SUFFICES ASSUME NEW m \in Note PROVE RowFits(m)'
    OBVIOUS
  <2>1. CASE m = n
    BY <1>0, <1>1, <1>5, <1>6, <2>1 DEF RowFits
  <2>2. CASE m # n
    BY <1>1, <1>6, <2>2 DEF NInv, RowFits
  <2> QED  BY <2>1, <2>2
<1>16. QueueFits' /\ OnlyTheseGoUntold'
  BY <1>1, <1>8 DEF NInv, QueueFits, OnlyTheseGoUntold
<1>17. NothingLost'
  <2>1. \A h \in Handlers : worker[h].event # 0 =>
           worker'[h].event = worker[h].event \/ worker[h].event \in processed'
    <3> SUFFICES ASSUME NEW h \in Handlers, worker[h].event # 0, worker'[h].event # worker[h].event
                 PROVE  worker[h].event \in processed'
      OBVIOUS
    <3>1. h = w /\ w # "loop"
      BY <1>11, QueueFacts
    <3>2. worker[w].stored
      BY <1>0, <3>1 DEF WorkerFits
    <3> QED  BY <1>0, <1>1, <3>1, <3>2 DEF WorkerFits
  <2> QED  BY <1>1, <2>1, StillThere
<1>18. OneOutcome'
  <2>1. \A g \in Event : Told(g)' <=> Told(g)
    <3> SUFFICES ASSUME NEW g \in Event, NEW c \in Channels
                 PROVE  note'[<<g, c>>].status # "none" <=> note[<<g, c>>].status # "none"
      BY DEF Told
    <3>1. <<g, c>> \in Note
      BY DEF Note
    <3> HIDE DEF n
    <3> QED  BY <1>0, <1>5, <1>6, <3>1
  <2> QED  BY <1>1, <2>1 DEF NInv, OneOutcome
<1>19. TwiceOnlyExcused'
  BY <1>1 DEF NInv, TwiceOnlyExcused
<1>20. StatusTellsTheSending'
  <2> SUFFICES ASSUME NEW m \in Note
               PROVE  /\ note'[m].status = "sent" => accepted[m] > 0
                      /\ accepted[m] > 0 /\ note'[m].status # "sent" =>
                            \/ m \in excused
                            \/ \E v \in Workers : worker'[v].at = m /\ worker'[v].answer = "sent"
                      /\ note'[m].status = "dead_lettered" => m \in exhausted'
    BY <1>1 DEF StatusTellsTheSending
  <2>1. CASE m = n
    <3>1. note'[n].status = "sent" => accepted[n] > 0
      BY <1>3, <1>5, <1>6
    <3>2. ASSUME accepted[n] > 0, note'[n].status # "sent", n \notin excused  PROVE FALSE
      <4>1. worker[w].answer # "sent" /\ note[n].status # "sent"
        BY <1>3, <1>5, <1>6, <3>2 DEF Final
      <4>2. PICK v \in Workers : worker[v].at = n /\ worker[v].answer = "sent"
        BY <1>0, <3>2, <4>1 DEF NInv, StatusTellsTheSending
      <4> QED  BY <1>10, <4>1, <4>2
    <3> QED  BY <1>13, <2>1, <3>1, <3>2
  <2>2. CASE m # n
    <3>1. \A v \in Workers : worker[v].at = m => v # w
      BY <2>2
    <3> QED  BY <1>6, <1>11, <1>13, <2>2, <3>1 DEF NInv, StatusTellsTheSending
  <2> QED  BY <2>1, <2>2
<1> QED  BY <1>11, <1>12, <1>14, <1>15, <1>16, <1>17, <1>18, <1>19, <1>20 DEF NInv

LEMMA TickStep ==
    ASSUME NInv, NEW n \in Note, Tick(n)
    PROVE  NInv'
<1>1. /\ note[n].status = "retry_scheduled" /\ note' = [note EXCEPT ![n].due = TRUE]
      /\ UNCHANGED <<upstream, faults, queue, processed, letters, exhausted, rejected, worker, unreachable,
                     accepted, excused>>
  BY DEF Tick, Waits, producer
<1>2. /\ note' \in [Note -> [status : Final \cup {"none", "pending", "retry_scheduled"},
                            attempts : 0 .. MaxAttempts, due : BOOLEAN]]
      /\ \A m \in Note : note'[m].status = note[m].status /\ note'[m].attempts = note[m].attempts
      /\ \A m \in Note : note'[m].due # note[m].due => note[m].status = "retry_scheduled"
  BY <1>1 DEF NInv, NotificationTypeOK
<1>3. \A m \in Note : note'[m].status = note[m].status
  BY <1>2
<1>4. OutboxInv'
  BY <1>1, QueueFacts, QueueStep DEF NInv
<1>5. arrived' = arrived /\ outbox' = outbox
  BY <1>1 DEF upstream
<1>6. NotificationTypeOK'
  BY <1>1, <1>2, <1>4, <1>5 DEF NInv, NotificationTypeOK, OutboxInv
<1>7. \A w \in Workers : WorkerFits(w)'
  <2> TAKE w \in Workers
  <2>1. worker[w].at # <<>> => note'[worker[w].at].status = note[worker[w].at].status
    <3>1. worker[w] \in Worker
      BY QueueFacts
    <3>2. worker[w].at \in Note \cup {<<>>}
      BY <3>1 DEF Worker
    <3> QED  BY <1>3, <3>2
  <2> QED  BY <1>1, <1>2, <1>5, <2>1, WorkerKeeps
<1>8. (\A m \in Note : RowFits(m))'
  <2> SUFFICES ASSUME NEW m \in Note PROVE RowFits(m)'
    OBVIOUS
  <2>1. note[m].due \in BOOLEAN /\ note'[m].due \in BOOLEAN
    BY <1>2 DEF NInv, NotificationTypeOK
  <2> QED  BY <1>1, <1>2, <2>1 DEF NInv, RowFits
<1>9. LocksApart' /\ QueueFits' /\ OnlyTheseGoUntold' /\ TwiceOnlyExcused'
  BY <1>1, <1>5 DEF NInv, LocksApart, QueueFits, OnlyTheseGoUntold, TwiceOnlyExcused
<1>10. NothingLost'
  BY <1>1, StillThere
<1>11. OneOutcome'
  <2>1. \A g \in Event, c \in Channels : <<g, c>> \in Note
    BY DEF Note
  <2>2. \A g \in Event : Told(g)' <=> Told(g)
    BY <1>3, <2>1 DEF Told
  <2> QED  BY <1>1, <2>2 DEF NInv, OneOutcome
<1>12. StatusTellsTheSending'
  BY <1>1, <1>2 DEF NInv, StatusTellsTheSending
<1> QED  BY <1>4, <1>6, <1>7, <1>8, <1>9, <1>10, <1>11, <1>12 DEF NInv

\* What a step of the publishers does to the other end of the broker.
LEMMA Upstream ==
    ASSUME NInv, OutboxNext
    PROVE  /\ arrived \subseteq arrived' /\ unheard \subseteq unheard'
           /\ \A e \in Event : queue'[e] > 0 => queue[e] > 0 \/ e \in arrived'
           /\ \A e \in Event : queue[e] > 0 => queue'[e] > 0
           /\ \A e \in arrived' \ arrived : queue'[e] > 0 \/ e \in unheard'
           /\ \A e \in Event : outbox[e] # "none" => outbox'[e] = outbox[e]
<1> USE QueueFacts
<1>1. ASSUME NEW e \in Event, NEW type \in Types, Write(e, type)
      PROVE  /\ UNCHANGED <<queue, arrived, unheard>>
             /\ \A g \in Event : outbox[g] # "none" => outbox'[g] = outbox[g]
  BY <1>1 DEF Write, NInv, OutboxInv, TypeOK
<1>2. ASSUME NEW p \in Publishers, Select(p) \/ Commit(p) \/ Abandon(p)
      PROVE  UNCHANGED <<queue, arrived, unheard, outbox>>
  BY <1>2 DEF Select, Commit, Abandon
<1>3. CASE Bind
  BY <1>3 DEF Bind
<1>4. ASSUME NEW p \in Publishers, Publish(p)
      PROVE  /\ outbox' = outbox
             /\ UNCHANGED <<queue, arrived, unheard>> \/ \E e \in Event : Arrive(e)
  <2>1. pub[p].batch \subseteq Event
    BY DEF NInv, OutboxInv, TypeOK, Publisher
  <2> QED  BY <1>4, <2>1 DEF Publish
<1>5. ASSUME NEW e \in Event, Arrive(e)
      PROVE  /\ arrived \subseteq arrived' /\ unheard \subseteq unheard'
             /\ \A g \in Event : queue'[g] > 0 => queue[g] > 0 \/ g \in arrived'
             /\ \A g \in Event : queue[g] > 0 => queue'[g] > 0
             /\ \A g \in arrived' \ arrived : queue'[g] > 0 \/ g \in unheard'
  <2>1. queue[e] \in 0 .. MaxCopies
    OBVIOUS
  <2>2. CASE bound
    <3>1. /\ queue' = [queue EXCEPT ![e] = @ + 1] /\ arrived' = arrived \cup {e}
          /\ unheard' = unheard
      BY <1>5, <2>2 DEF Arrive
    <3>2. queue'[e] > 0 /\ \A g \in Event : g # e => queue'[g] = queue[g]
      BY <2>1, <3>1
    <3> QED  BY <3>1, <3>2
  <2>3. CASE ~ bound
    BY <1>5, <2>3 DEF Arrive
  <2> QED  BY <2>2, <2>3
<1> QED  BY <1>1, <1>2, <1>3, <1>4, <1>5 DEF OutboxNext

LEMMA UpstreamStep ==
    ASSUME NInv, OutboxNext, UNCHANGED serviceVars
    PROVE  NInv'
<1>1. OutboxInv'
  BY OutboxSteps DEF NInv
<1>2. /\ note' = note /\ processed' = processed /\ letters' = letters /\ exhausted' = exhausted
      /\ rejected' = rejected /\ worker' = worker /\ accepted' = accepted /\ excused' = excused
      /\ unreachable' = unreachable
  BY DEF serviceVars
<1>3. arrived \subseteq arrived'
  BY Upstream
<1>4. NotificationTypeOK'
  BY <1>1, <1>2, <1>3 DEF NInv, NotificationTypeOK, OutboxInv
<1>5. \A w \in Workers : WorkerFits(w)'
  BY <1>2, <1>3, WorkerKeeps
<1>6. LocksApart' /\ (\A n \in Note : RowFits(n))'
  BY <1>2 DEF NInv, LocksApart, RowFits
<1>7. QueueFits'
  BY <1>3, Upstream DEF NInv, QueueFits
<1>8. NothingLost'
  <2> SUFFICES ASSUME NEW e \in arrived' \ unheard'
               PROVE  queue'[e] > 0 \/ InHand(e)' # {} \/ e \in processed \cup rejected
    BY <1>2 DEF NothingLost
  <2>1. e \in Event
    BY <1>1 DEF OutboxInv, TypeOK, Written
  <2>2. CASE e \in arrived
    <3>1. queue[e] > 0 \/ InHand(e) # {} \/ e \in processed \cup rejected
      BY <2>2, Upstream DEF NInv, NothingLost
    <3>2. InHand(e)' = InHand(e)
      BY <1>2 DEF InHand
    <3> QED  BY <2>1, <3>1, <3>2, Upstream
  <2>3. CASE e \notin arrived
    BY <2>1, <2>3, Upstream
  <2> QED  BY <2>2, <2>3
<1>9. OneOutcome' /\ TwiceOnlyExcused' /\ StatusTellsTheSending'
  BY <1>2 DEF NInv, OneOutcome, Told, TwiceOnlyExcused, StatusTellsTheSending
<1>10. OnlyTheseGoUntold'
  <2> SUFFICES ASSUME NEW e \in Event, letters[e] > 0, e \notin unreachable
               PROVE  outbox'[e] \in {"booking.confirmed.v1", "payment.captured.v1",
                                      "payment.refunded.v1"}
    BY <1>2 DEF OnlyTheseGoUntold
  <2>1. outbox[e] \in {"booking.confirmed.v1", "payment.captured.v1", "payment.refunded.v1"}
    BY DEF NInv, OnlyTheseGoUntold
  <2>2. outbox[e] # "none"
    BY <2>1
  <2> QED  BY <2>1, <2>2, Upstream
<1> QED  BY <1>1, <1>4, <1>5, <1>6, <1>7, <1>8, <1>9, <1>10 DEF NInv

LEMMA StutterStep ==
    ASSUME NInv, UNCHANGED notificationVars
    PROVE  NInv'
<1>1. UNCHANGED <<upstream, records, accepted, queue, rejected, excused, worker, faults>>
  BY DEF notificationVars, outboxVars, serviceVars, upstream, records
<1>2. \A w \in Workers : WorkerFits(w)'
  BY <1>1, WorkerKeeps DEF upstream, records
<1>3. LocksApart' /\ NothingLost'
  BY <1>1 DEF NInv, LocksApart, NothingLost, InHand, upstream, records
<1> QED  BY <1>1, <1>2, <1>3, HandStep, QueueFacts

LEMMA StepNInv == NInv /\ [NotificationNext]_notificationVars => NInv'
<1> SUFFICES ASSUME NInv, [NotificationNext]_notificationVars PROVE NInv'
  OBVIOUS
<1>1. CASE OutboxNext /\ UNCHANGED serviceVars
  BY <1>1, UpstreamStep
<1>2. ASSUME NEW h \in Handlers, NEW e \in Event, Take(h, e)  PROVE NInv'
  BY <1>2, TakeStep
<1>3. ASSUME NEW h \in Handlers, Requeue(h) \/ Reject(h) \/ DeadLetter(h) \/ Store(h) \/ Redeliver(h)
      PROVE  NInv'
  BY <1>3, HandlerEnds, DeadLetterStep, StoreStep, FaultSteps
<1>4. ASSUME NEW w \in Workers, (\E n \in Note : Send(w, n)) \/ Record(w)  PROVE NInv'
  BY <1>4, SendStep, RecordStep
<1>5. CASE SelectDue \/ LoopFails \/ Crash
  BY <1>5, LoopSteps, FaultSteps
<1>6. ASSUME NEW n \in Note, Skip(n) \/ Tick(n)  PROVE NInv'
  BY <1>6, LoopSteps, TickStep
<1>7. CASE UNCHANGED notificationVars
  BY <1>7, StutterStep
<1> QED  BY <1>1, <1>2, <1>3, <1>4, <1>5, <1>6, <1>7 DEF NotificationNext

-----------------------------------------------------------------------------
(* What a step may not do.                                                 *)

LEMMA OrderStep ==
    ASSUME OutboxInv, OutboxNext, NEW p \in Publishers, NEW e \in arrived' \ arrived,
           pub[p].at = 0, pub'[p].at = e, NEW f \in pub[p].seen \ arrived
    PROVE  e <= f
<1>1. pub \in [Publishers -> Publisher] /\ arrived \subseteq Written /\ Written \subseteq Event
  BY DEF OutboxInv, TypeOK, Written
<1>2. PICK q \in Publishers : Publish(q)
  BY DEF OutboxNext, Write, Bind, Select, Commit, Abandon
<1>3. PICK g \in pub[q].batch, said \in {"done", "error"} :
         /\ IsFirst(g, pub[q].batch)
         /\ pub' = [pub EXCEPT ![q].at = g, ![q].said = said]
         /\ Arrive(g) \/ UNCHANGED arrived
  BY <1>2 DEF Publish
<1>4. e = g /\ e \in Event /\ e # 0
  BY <1>1, <1>3 DEF Arrive, Publisher, Event
<1>5. q = p
  BY <1>1, <1>3, <1>4
<1>6. PublisherFits(p)
  BY DEF OutboxInv
<1>7. e \in pub[p].batch /\ \A x \in pub[p].batch : e <= x
  BY <1>3, <1>4, <1>5 DEF IsFirst
<1>8. CASE f \in pub[p].batch
  BY <1>7, <1>8
<1>9. CASE f \notin pub[p].batch
  BY <1>6, <1>7, <1>9 DEF PublisherFits
<1> QED  BY <1>8, <1>9

LEMMA FinalStep ==
    ASSUME NInv, NotificationNext, NEW n \in Note,
           note[n].status \in Final, note'[n].status # note[n].status
    PROVE  n \in excused /\ \E h \in Handlers : worker[h].at = n
<1>1. ASSUME NEW h \in Handlers, Store(h)  PROVE FALSE
  <2>1. worker[h].event \in processed => UNCHANGED note
    BY <1>1 DEF Store
  <2>2. n[1] \in processed /\ note \in [Note -> [status : Final \cup {"none", "pending", "retry_scheduled"},
                              attempts : 0 .. MaxAttempts, due : BOOLEAN]]
    BY DEF NInv, RowFits, Final, NotificationTypeOK
  <2>3. CASE worker[h].event \notin processed
    <3>1. PICK some \in (SUBSET Channels) \ {{}} :
            note' = [m \in Note |-> IF m \in {worker[h].event} \X some
                         THEN [status |-> "pending", attempts |-> 0, due |-> FALSE]
                         ELSE note[m]]
      BY <1>1, <2>3 DEF Store
    <3>2. n \notin {worker[h].event} \X some
      BY <2>2, <2>3
    <3> QED  BY <3>1, <3>2
  <2> QED  BY <2>1, <2>3
<1>2. ASSUME NEW m \in Note, Tick(m)  PROVE FALSE
  <2>1. note' = [note EXCEPT ![m].due = TRUE]
    BY <1>2 DEF Tick
  <2>2. note \in [Note -> [status : Final \cup {"none", "pending", "retry_scheduled"},
                          attempts : 0 .. MaxAttempts, due : BOOLEAN]]
    BY DEF NInv, NotificationTypeOK
  <2> QED  BY <2>1, <2>2
<1>3. PICK w \in Workers : Record(w)
  <2>1. OutboxNext /\ UNCHANGED serviceVars => UNCHANGED note
    BY DEF serviceVars
  <2>2. ASSUME NEW h \in Handlers,
               (\E e \in Event : Take(h, e)) \/ Requeue(h) \/ Reject(h) \/ DeadLetter(h) \/ Redeliver(h)
        PROVE  UNCHANGED note
    BY <2>2 DEF Take, Requeue, Reject, DeadLetter, Redeliver, records, serviceVars
  <2>3. ASSUME NEW m \in Note, Skip(m) \/ \E v \in Workers : Send(v, m)
        PROVE  UNCHANGED note
    BY <2>3 DEF Send, Skip, records
  <2>4. SelectDue \/ LoopFails \/ Crash => UNCHANGED note
    BY DEF SelectDue, LoopFails, Crash, records
  <2>5. note' # note
    OBVIOUS
  <2>6. ASSUME NEW h \in Handlers,
               (\E e \in Event : Take(h, e)) \/ Requeue(h) \/ Reject(h) \/ DeadLetter(h) \/ Store(h) \/ Redeliver(h)
        PROVE  FALSE
    BY <1>1, <2>2, <2>5, <2>6
  <2>7. ASSUME NEW m \in Note, Skip(m) \/ Tick(m) \/ \E v \in Workers : Send(v, m)  PROVE FALSE
    BY <1>2, <2>3, <2>5, <2>7
  <2>8. ASSUME NEW w \in Workers, (\E m \in Note : Send(w, m)) \/ Record(w)
        PROVE  \E v \in Workers : Record(v)
    BY <2>7, <2>8
  <2>9. ~ (OutboxNext /\ UNCHANGED serviceVars) /\ ~ (SelectDue \/ LoopFails \/ Crash)
    BY <2>1, <2>4, <2>5
  <2> QED  BY <2>6, <2>7, <2>8, <2>9 DEF NotificationNext
<1>4. note' = [note EXCEPT ![worker[w].at] = Recorded(w, worker[w].at)] /\ worker[w].at # <<>>
  BY <1>3 DEF Record
<1>5. worker[w].at = n
  BY <1>4
<1>6. WorkerFits(w)
  BY DEF NInv
<1>7. n \in excused /\ w # "loop"
  BY <1>4, <1>5, <1>6 DEF WorkerFits, Final
<1> QED  BY <1>5, <1>7 DEF Workers

-----------------------------------------------------------------------------
(* Theorems.                                                               *)

LEMMA Invariant == NotificationSpec => []NInv
<1> QED  BY InitNInv, StepNInv, PTL DEF NotificationSpec

\* Outbox, broker and service keep their types.
THEOREM TypeCorrect == NotificationSpec => []NotificationTypeOK
<1>1. NInv => NotificationTypeOK
  BY DEF NInv
<1> QED  BY <1>1, Invariant, PTL

\* No event is marked published that the exchange has not taken.
THEOREM PublishedHasArrived == NotificationSpec => []PublishedArrived
<1>1. NInv => PublishedArrived
  BY DEF NInv, OutboxInv
<1> QED  BY <1>1, Invariant, PTL

\* No message is lost between the queue and the record of its event.
THEOREM NoMessageLost == NotificationSpec => []NothingLost
<1>1. NInv => NothingLost
  BY DEF NInv
<1> QED  BY <1>1, Invariant, PTL

\* An event is processed once, into notifications or into one dead letter.
THEOREM ProcessedOnce == NotificationSpec => []OneOutcome
<1>1. NInv => OneOutcome
  BY DEF NInv
<1> QED  BY <1>1, Invariant, PTL

\* A message goes out twice only where the code could not know of the first time.
THEOREM SentTwiceOnlyExcused == NotificationSpec => []TwiceOnlyExcused
<1>1. NInv => TwiceOnlyExcused
  BY DEF NInv
<1> QED  BY <1>1, Invariant, PTL

\* The status of a notification agrees with what the provider took.
THEOREM StatusIsTrue == NotificationSpec => []StatusTellsTheSending
<1>1. NInv => StatusTellsTheSending
  BY DEF NInv
<1> QED  BY <1>1, Invariant, PTL

\* Only confirmations, payment events, and events whose candidate has no address become dead
\* letters.
THEOREM OthersAreTold == NotificationSpec => []OnlyTheseGoUntold
<1>1. NInv => OnlyTheseGoUntold
  BY DEF NInv
<1> QED  BY <1>1, Invariant, PTL

\* A publisher overtakes only what it has not read.
THEOREM PublishedInOrder == NotificationSpec => InOrder
<1>1. NInv /\ [NotificationNext]_notificationVars =>
         [\A p \in Publishers, e \in arrived' \ arrived : pub[p].at = 0 /\ pub'[p].at = e =>
             \A f \in pub[p].seen \ arrived : e <= f]_outboxVars
  <2> SUFFICES ASSUME NInv, [NotificationNext]_notificationVars,
                      NEW p \in Publishers, NEW e \in arrived' \ arrived,
                      pub[p].at = 0, pub'[p].at = e, NEW f \in pub[p].seen \ arrived
               PROVE  e <= f
    OBVIOUS
  <2>1. arrived' # arrived
    OBVIOUS
  <2>2. NotificationNext
    BY <2>1 DEF notificationVars, outboxVars
  <2>3. ASSUME NEW h \in Handlers
        PROVE  /\ \A g \in Event : Take(h, g) => arrived' = arrived
               /\ Requeue(h) \/ Reject(h) \/ DeadLetter(h) \/ Store(h) \/ Redeliver(h) => arrived' = arrived
    BY DEF Take, Requeue, Reject, DeadLetter, Store, Redeliver, producer, upstream
  <2>4. ASSUME NEW w \in Workers
        PROVE  (\E n \in Note : Send(w, n)) \/ Record(w) => arrived' = arrived
    BY DEF Send, Record, producer, upstream
  <2>5. /\ SelectDue \/ LoopFails \/ Crash => arrived' = arrived
        /\ \A n \in Note : Skip(n) \/ Tick(n) => arrived' = arrived
    BY DEF SelectDue, LoopFails, Crash, Skip, Tick, producer, upstream
  <2>6. OutboxNext
    BY <2>1, <2>2, <2>3, <2>4, <2>5 DEF NotificationNext
  <2> QED  BY <2>6, OrderStep DEF NInv
<1> QED  BY <1>1, Invariant, PTL DEF NotificationSpec, InOrder

\* A final status gives way only to a handler with a stale copy of its notification.
THEOREM FinalStays == NotificationSpec => FinalUnlessStale
<1>1. NInv /\ [NotificationNext]_notificationVars =>
         [\A n \in Note : note[n].status \in Final /\ note'[n].status # note[n].status =>
             n \in excused /\ \E h \in Handlers : worker[h].at = n]_notificationVars
  BY FinalStep
<1> QED  BY <1>1, Invariant, PTL DEF NotificationSpec, FinalUnlessStale
=============================================================================

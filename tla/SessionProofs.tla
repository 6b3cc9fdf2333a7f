--------------------------- MODULE SessionProofs ---------------------------
(***************************************************************************)
(* Theorems about Session for every set of bookings, requests and notices. *)
(***************************************************************************)
EXTENDS Session, SequenceTheorems, TLAPS

-----------------------------------------------------------------------------
(* The strengthening: what running requests have in hand.                  *)

\* The statuses that only a started interview reaches.
Underway == SessionStatus \ (CalledOff \cup {"READY"})

StartsAreTold == \A b \in Bookings : session[b] \in Underway => StartTold(b)

\* A request's copy is one the session has passed: a session never goes back to READY,
\* so what was seen started is started still, and the start is told.
RequestFits(r) ==
    LET q == request[r]
    IN /\ q.pc # "idle" => q.op \in Op /\ q.booking \in Bookings
       /\ q.pc \in {"ended", "dead"} => q.op = "create"
       /\ q.pc = "read" /\ q.op = "create" => q.booking \in Prepared
       /\ q.pc = "read" /\ q.op # "create" =>
            /\ session[q.booking] # "absent"
            /\ q.seen # "absent"
            /\ q.seen # "READY" => session[q.booking] # "READY"
            /\ q.seen \in Underway => StartTold(q.booking)
       /\ q.pc = "read" /\ q.op \in {"joined", "left"} =>
            q.role \in ParticipantRole /\ q.notice \in Notices
       /\ q.pc = "read" /\ q.op = "feedback" => q.seen = "FEEDBACK_PENDING"

RequestsFit == \A r \in Requests : RequestFits(r)

\* What is kept of the interviews themselves.
InterviewInv ==
    /\ OutboxTellsTheInterview
    /\ FeedbackAnnouncedOnce
    /\ ReportFitsStatus

IInv ==
    /\ TypeOK
    /\ RequestsFit
    /\ InterviewInv
    /\ StartsAreTold
    /\ ArrivalStarts
    /\ ConfirmedHasSession

\* What every step does to the statuses and to what is told.
Onward ==
    /\ \A b \in Bookings : session[b] # "absent" => session'[b] # "absent"
    /\ \A b \in Bookings : session[b] \notin {"absent", "READY"} => session'[b] # "READY"
    /\ \A b \in Bookings : StartTold(b) => StartTold(b)'

\* An end is undone only over a marked session.
EndsKept ==
    \A b \in Bookings :
        session[b] \in Ended /\ session'[b] # session[b] => b \in overwritten'

\* Before the first delivery there is nothing.
LEMMA InitInv == Init => IInv
<1> SUFFICES ASSUME Init PROVE IInv
  OBVIOUS
<1> USE DEF Init
<1>1. TypeOK
  BY DEF TypeOK, Idle, Request
<1>2. RequestsFit
  BY DEF RequestsFit, RequestFits, Idle
<1>3. InterviewInv
  BY DEF InterviewInv, OutboxTellsTheInterview, Stories, FeedbackAnnouncedOnce, ReportFitsStatus
<1>4. StartsAreTold /\ ArrivalStarts /\ ConfirmedHasSession
  BY DEF StartsAreTold, Underway, SessionStatus, ArrivalStarts, ConfirmedHasSession, Idle
<1> QED  BY <1>1, <1>2, <1>3, <1>4 DEF IInv

-----------------------------------------------------------------------------
(* Steps that change requests only                                         *)

\* The conjuncts about interviews read none of the request rows.
LEMMA RequestStep ==
    ASSUME IInv, UNCHANGED <<session, connected, noticed, report, outbox, overwritten>>,
           givenUp' \subseteq Bookings, givenUp \subseteq givenUp',
           NEW r \in Requests, NEW q \in Request, request' = [request EXCEPT ![r] = q],
           RequestFits(r)',
           q.op = "create" =>
               /\ q.pc = "ended" => session[q.booking] # "absent"
               /\ q.pc = "dead" => \/ session[q.booking] # "absent"
                                   \/ q.booking \notin Prepared
                                   \/ q.booking \in givenUp'
    PROVE  IInv' /\ Onward /\ EndsKept
<1>1. TypeOK'
  BY DEF IInv, TypeOK
<1>2. RequestsFit'
  BY DEF IInv, TypeOK, RequestsFit, RequestFits, StartTold
<1>3. InterviewInv' /\ StartsAreTold' /\ ArrivalStarts'
  BY DEF IInv, InterviewInv, OutboxTellsTheInterview, FeedbackAnnouncedOnce,
         ReportFitsStatus, StartsAreTold, ArrivalStarts, StartTold
<1>4. ConfirmedHasSession'
  BY DEF IInv, TypeOK, ConfirmedHasSession
<1> QED  BY <1>1, <1>2, <1>3, <1>4 DEF IInv, Onward, EndsKept, StartTold

\* A request that reads its copy.
LEMMA ReadStep ==
    ASSUME IInv, NEW r \in Requests, NEW op \in Op, NEW b \in Bookings,
           NEW role \in ParticipantRole \cup {None}, NEW notice \in Notices \cup {None},
           Read(r, op, b, role, notice),
           op = "create" => b \in Prepared,
           op # "create" => session[b] # "absent",
           op \in {"joined", "left"} => role \in ParticipantRole /\ notice \in Notices,
           op = "feedback" => session[b] = "FEEDBACK_PENDING"
    PROVE  IInv' /\ Onward /\ EndsKept
<1> DEFINE q == [pc |-> "read", op |-> op, booking |-> b, seen |-> session[b],
                 role |-> role, notice |-> notice]
<1>1. /\ q \in Request
      /\ request' = [request EXCEPT ![r] = q]
      /\ UNCHANGED <<session, connected, noticed, report, outbox, overwritten, givenUp>>
      /\ givenUp \subseteq Bookings
  BY DEF IInv, TypeOK, Request, Read
<1>2. RequestFits(r)'
  BY <1>1 DEF IInv, TypeOK, RequestFits, StartsAreTold, StartTold
<1>3. q.pc = "read"
  OBVIOUS
<1> HIDE DEF q
<1> QED  BY <1>1, <1>2, <1>3, RequestStep

\* A request that gives up, and a message that comes back, leave a free row.
LEMMA ReturnStep ==
    ASSUME IInv, NEW r \in Requests, Return(r),
           UNCHANGED <<session, connected, noticed, report, outbox, overwritten, givenUp>>
    PROVE  IInv' /\ Onward /\ EndsKept
<1>1. Idle \in Request /\ Idle.pc = "idle"
  BY DEF Idle, Request
<1>2. request' = [request EXCEPT ![r] = Idle] /\ givenUp \subseteq Bookings
  BY DEF Return, IInv, TypeOK
<1>3. RequestFits(r)'
  BY <1>1, <1>2 DEF IInv, TypeOK, RequestFits
<1> QED  BY <1>1, <1>2, <1>3, RequestStep

\* A commit that inserts the session, whatever becomes of its delivery.
LEMMA SessionCreated ==
    ASSUME IInv, NEW r \in Requests, Ready(r, "create"),
           session[request[r].booking] = "absent",
           session' = [session EXCEPT ![request[r].booking] = "READY"],
           NEW q \in Request, request' = [request EXCEPT ![r] = q],
           \/ q.pc = "idle"
           \/ /\ q.pc \in {"ended", "dead"} /\ q.op = "create"
              /\ q.booking = request[r].booking,
           UNCHANGED <<connected, noticed, report, outbox, overwritten>>,
           givenUp' \subseteq Bookings, givenUp \subseteq givenUp'
    PROVE  IInv' /\ Onward /\ EndsKept
<1> DEFINE b == request[r].booking
<1>0. request \in [Requests -> Request] /\ RequestFits(r)
  BY DEF IInv, TypeOK, RequestsFit
<1>1. b \in Bookings /\ session[b] = "absent" /\ request[r].op = "create"
  BY <1>0 DEF Ready, RequestFits
<1>2. session' = [session EXCEPT ![b] = "READY"]
  OBVIOUS
<1>a. /\ request'[r] = q
      /\ \/ q.pc = "idle"
         \/ q.pc \in {"ended", "dead"} /\ q.op = "create" /\ q.booking = b
      /\ \A p \in Requests \ {r} : request'[p] = request[p]
      /\ request' \in [Requests -> Request]
  BY <1>0
<1> HIDE DEF b
<1>b. \A c \in Bookings : StartTold(c) <=> StartTold(c)'
  BY DEF StartTold
<1>3. TypeOK'
  <2>1. session' \in [Bookings -> SessionStatus \cup {"absent"}]
    BY <1>1, <1>2 DEF IInv, TypeOK, SessionStatus
  <2> QED  BY <1>a, <2>1 DEF IInv, TypeOK
<1>4. Onward /\ EndsKept
  BY <1>1, <1>2, <1>b DEF IInv, TypeOK, Onward, EndsKept, Ended
<1>5. RequestsFit'
  <2> SUFFICES ASSUME NEW p \in Requests PROVE RequestFits(p)'
    BY DEF RequestsFit
  <2>1. CASE p = r
    BY <1>1, <1>a, <2>1 DEF RequestFits, Op
  <2>2. CASE p # r
    <3>1. /\ RequestFits(p) /\ request'[p] = request[p]
          /\ session \in [Bookings -> SessionStatus \cup {"absent"}]
      BY <1>a, <2>2 DEF IInv, TypeOK, RequestsFit
    <3> QED  BY <1>1, <1>2, <1>b, <3>1 DEF RequestFits
  <2> QED  BY <2>1, <2>2
<1>6. InterviewInv'
  BY <1>1, <1>2 DEF IInv, TypeOK, InterviewInv, OutboxTellsTheInterview, Stories,
                    FeedbackAnnouncedOnce, ReportFitsStatus
<1>7. StartsAreTold' /\ ArrivalStarts'
  BY <1>1, <1>2, <1>b DEF IInv, TypeOK, StartsAreTold, Underway, ArrivalStarts, CalledOff
<1>8. ConfirmedHasSession'
  <2>1. \A p \in Requests \ {r} : request'[p] = request[p]
    BY <1>a
  <2> QED  BY <1>1, <1>2, <1>a, <2>1 DEF IInv, TypeOK, ConfirmedHasSession
<1> QED  BY <1>3, <1>4, <1>5, <1>6, <1>7, <1>8 DEF IInv

\* The delivery of a confirmed booking.
LEMMA CreateSteps ==
    ASSUME IInv, NEW r \in Requests, CreateNext(r)
    PROVE  IInv' /\ Onward /\ EndsKept
<1> USE SessionAssumption
<1>0. request \in [Requests -> Request] /\ RequestFits(r) /\ givenUp \subseteq Bookings
  BY DEF IInv, TypeOK, RequestsFit
<1>1. ASSUME NEW b \in Bookings, CreateRead(r, b)  PROVE IInv' /\ Onward /\ EndsKept
  BY <1>1, ReadStep DEF CreateRead, Op
<1>2. ASSUME NEW b \in Bookings, CreateSkip(r, b)  PROVE IInv' /\ Onward /\ EndsKept
  <2>0. PICK pc \in {"ended", "dead"} :
          /\ IF session[b] = "absent" THEN b \notin Prepared /\ pc = "dead" ELSE TRUE
          /\ request' = [request EXCEPT ![r] =
                          [pc |-> pc, op |-> "create", booking |-> b, seen |-> session[b],
                           role |-> None, notice |-> None]]
    BY <1>2 DEF CreateSkip
  <2> DEFINE q == [pc |-> pc, op |-> "create", booking |-> b, seen |-> session[b],
                   role |-> None, notice |-> None]
  <2>1. /\ q \in Request
        /\ request' = [request EXCEPT ![r] = q]
        /\ UNCHANGED <<session, connected, noticed, report, outbox, overwritten, givenUp>>
    BY <1>2, <2>0 DEF IInv, TypeOK, Request, CreateSkip, Op
  <2>2. RequestFits(r)'
    BY <1>0, <2>1 DEF RequestFits, Op
  <2>3. /\ q.pc = "ended" => session[q.booking] # "absent"
        /\ q.pc = "dead" => session[q.booking] # "absent" \/ q.booking \notin Prepared
    BY <2>0
  <2> HIDE DEF q
  <2> QED  BY <1>0, <2>1, <2>2, <2>3, RequestStep
<1>3. CASE CreateRefuse(r)
  <2> DEFINE q == [request[r] EXCEPT !.pc = "dead"]
  <2>1. /\ q \in Request /\ q.pc = "dead" /\ q.booking = request[r].booking
        /\ request' = [request EXCEPT ![r] = q]
        /\ UNCHANGED <<session, connected, noticed, report, outbox, overwritten>>
        /\ givenUp' = givenUp \cup {q.booking}
    BY <1>0, <1>3 DEF CreateRefuse, Finish, Request
  <2>2. q.op = "create" /\ q.booking \in Bookings
    BY <1>0, <1>3 DEF CreateRefuse, Ready, RequestFits, Request
  <2> HIDE DEF q
  <2>3. RequestFits(r)'
    BY <1>0, <2>1, <2>2 DEF RequestFits, Op
  <2> QED  BY <1>0, <2>1, <2>2, <2>3, RequestStep
<1>4. CASE CreateCommit(r) /\ session[request[r].booking] = "absent"
  <2> DEFINE q == [request[r] EXCEPT !.pc = "ended"]
  <2>1. /\ session' = [session EXCEPT ![request[r].booking] = "READY"]
        /\ request' = [request EXCEPT ![r] = q]
        /\ UNCHANGED <<connected, noticed, report, outbox, overwritten, givenUp>>
    BY <1>4 DEF CreateCommit, Finish
  <2>2. /\ q \in Request /\ q.pc = "ended" /\ q.op = "create"
        /\ q.booking = request[r].booking
    BY <1>0, <1>4 DEF CreateCommit, Ready, Request
  <2> HIDE DEF q
  <2> QED  BY <1>0, <1>4, <2>1, <2>2, SessionCreated DEF CreateCommit
<1>5. CASE CreateCommit(r) /\ session[request[r].booking] # "absent"
  <2> DEFINE q == [request[r] EXCEPT !.pc = "dead"]
  <2>1. /\ q \in Request /\ q.pc = "dead" /\ q.booking = request[r].booking
        /\ request' = [request EXCEPT ![r] = q]
        /\ UNCHANGED <<session, connected, noticed, report, outbox, overwritten, givenUp>>
        /\ session[q.booking] # "absent"
    BY <1>0, <1>5 DEF CreateCommit, Finish, Request
  <2>2. q.op = "create" /\ q.booking \in Bookings
    BY <1>0, <1>5 DEF CreateCommit, Ready, RequestFits, Request
  <2> HIDE DEF q
  <2>3. RequestFits(r)'
    BY <1>0, <2>1, <2>2 DEF RequestFits, Op
  <2> QED  BY <1>0, <2>1, <2>2, <2>3, RequestStep
<1>6. CASE CreateRequeue(r)
  <2>1. CASE UNCHANGED session
    BY <1>6, <2>1, ReturnStep DEF CreateRequeue
  <2>2. CASE session' # session
    <3>1. /\ session[request[r].booking] = "absent"
          /\ session' = [session EXCEPT ![request[r].booking] = "READY"]
          /\ request' = [request EXCEPT ![r] = Idle]
          /\ UNCHANGED <<connected, noticed, report, outbox, overwritten, givenUp>>
      BY <1>6, <2>2 DEF CreateRequeue, Unanswered, Return
    <3>2. Idle \in Request /\ Idle.pc = "idle"
      BY DEF Idle, Request
    <3> QED  BY <1>0, <1>6, <3>1, <3>2, SessionCreated DEF CreateRequeue
  <2> QED  BY <2>1, <2>2
<1>7. CASE CreateReject(r)
  <2> DEFINE q == [request[r] EXCEPT !.pc = "dead"]
  <2>1. /\ q \in Request /\ q.pc = "dead" /\ q.booking = request[r].booking
        /\ request' = [request EXCEPT ![r] = q]
        /\ UNCHANGED <<connected, noticed, report, outbox, overwritten>>
        /\ givenUp' = givenUp \cup {q.booking}
    BY <1>0, <1>7 DEF CreateReject, Finish, Request
  <2>2. q.op = "create" /\ q.booking \in Bookings /\ Ready(r, "create")
    BY <1>0, <1>7 DEF CreateReject, Ready, RequestFits, Request
  <2> HIDE DEF q
  <2>3. CASE UNCHANGED session
    <3>1. RequestFits(r)'
      BY <1>0, <2>1, <2>2 DEF RequestFits, Op
    <3> QED  BY <1>0, <2>1, <2>2, <2>3, <3>1, RequestStep
  <2>4. CASE session' # session
    <3>1. /\ session[request[r].booking] = "absent"
          /\ session' = [session EXCEPT ![request[r].booking] = "READY"]
      BY <1>7, <2>4 DEF CreateReject, Unanswered
    <3> QED  BY <1>0, <2>1, <2>2, <3>1, SessionCreated
  <2> QED  BY <2>3, <2>4
<1> QED  BY <1>1, <1>2, <1>3, <1>4, <1>5, <1>6, <1>7 DEF CreateNext

-----------------------------------------------------------------------------
(* Steps that write a status                                               *)

\* A call that returns, and a step of the admin, leave every other request as it was; what
\* they had seen, and what was acknowledged, stays true of a session that only moves on.
LEMMA RequestsStay ==
    ASSUME IInv, Onward, UNCHANGED givenUp,
           UNCHANGED request \/ \E r \in Requests : Return(r)
    PROVE  RequestsFit' /\ ConfirmedHasSession' /\ request' \in [Requests -> Request]
<1> USE SessionAssumption
<1>1. Idle \in Request /\ Idle.pc = "idle"
  BY DEF Idle, Request
<1>2. \A p \in Requests : request'[p] = request[p] \/ request'[p] = Idle
  BY DEF Return, IInv, TypeOK
<1>3. request' \in [Requests -> Request]
  BY <1>1 DEF Return, IInv, TypeOK
<1>4. RequestsFit'
  <2> SUFFICES ASSUME NEW p \in Requests PROVE RequestFits(p)'
    BY DEF RequestsFit
  <2>1. CASE request'[p] = Idle
    BY <1>1, <2>1 DEF RequestFits
  <2>2. CASE request'[p] = request[p]
    <3>1. RequestFits(p)
      BY DEF IInv, RequestsFit
    <3> QED  BY <2>2, <3>1 DEF RequestFits, Onward
  <2> QED  BY <1>2, <2>1, <2>2
<1>5. ConfirmedHasSession'
  <2> SUFFICES ASSUME NEW p \in Requests, request'[p].pc # "idle", request'[p].op = "create"
               PROVE  /\ request'[p].pc = "ended" => session'[request'[p].booking] # "absent"
                      /\ request'[p].pc = "dead" =>
                            \/ session'[request'[p].booking] # "absent"
                            \/ request'[p].booking \notin Prepared
                            \/ request'[p].booking \in givenUp'
    BY DEF ConfirmedHasSession
  <2>1. request'[p] = request[p]
    BY <1>1, <1>2
  <2>2. request[p].booking \in Bookings
    BY <2>1 DEF IInv, RequestsFit, RequestFits
  <2> QED  BY <2>1, <2>2 DEF IInv, ConfirmedHasSession, Onward
<1> QED  BY <1>3, <1>4, <1>5

\* What an announcement does to the outbox.
LEMMA Announced ==
    ASSUME TypeOK, NEW b \in Bookings, NEW type \in EventType, Announce(b, type)
    PROVE  /\ outbox' \in [Bookings -> Seq(EventType)]
           /\ outbox'[b] = Append(outbox[b], type)
           /\ \A c \in Bookings \ {b} : outbox'[c] = outbox[c]
BY DEF TypeOK, Announce

\* What was told stays told.
LEMMA ToldStays ==
    ASSUME TypeOK, NEW b \in Bookings, NEW type \in EventType, Announce(b, type)
    PROVE  /\ \A c \in Bookings : StartTold(c) => StartTold(c)'
           /\ type = "started" => StartTold(b)'
<1>1. /\ outbox[b] \in Seq(EventType)
      /\ outbox'[b] = Append(outbox[b], type)
      /\ \A c \in Bookings \ {b} : outbox'[c] = outbox[c]
  BY Announced DEF TypeOK
<1>2. /\ \A i \in DOMAIN outbox[b] : i \in DOMAIN outbox'[b] /\ outbox'[b][i] = outbox[b][i]
      /\ Len(outbox[b]) + 1 \in DOMAIN outbox'[b]
      /\ outbox'[b][Len(outbox[b]) + 1] = type
  BY <1>1
<1>3. StartTold(b) => StartTold(b)'
  BY <1>2 DEF StartTold
<1>4. ASSUME NEW c \in Bookings \ {b}  PROVE StartTold(c) => StartTold(c)'
  BY <1>1 DEF StartTold
<1>5. type = "started" => StartTold(b)'
  BY <1>2 DEF StartTold
<1> QED  BY <1>3, <1>4, <1>5

\* Announcing anything but feedback leaves the announcements of feedback as they were.
LEMMA OtherNews ==
    ASSUME NEW old \in Seq(EventType), NEW type \in EventType, type # "feedback"
    PROVE  {i \in DOMAIN Append(old, type) : Append(old, type)[i] = "feedback"}
             = {i \in DOMAIN old : old[i] = "feedback"}
OBVIOUS

\* The announcements of a session, one by one.
LEMMA SecondNews ==
    ASSUME NEW S, NEW s \in Seq(S), NEW x \in S, NEW y \in S, s = <<x>>
    PROVE  Append(s, y) = <<x, y>>
<1> DEFINE t == <<x, y>>
           u == Append(s, y)
<1>1. Len(s) = 1 /\ s[1] = x
  OBVIOUS
<1>2. t \in Seq(S) /\ Len(t) = 2 /\ t[1] = x /\ t[2] = y
  OBVIOUS
<1>3. /\ u \in Seq(S) /\ Len(u) = Len(s) + 1 /\ u[Len(s) + 1] = y
      /\ \A i \in 1 .. Len(s) : u[i] = s[i]
  BY AppendProperties
<1> HIDE DEF t, u
<1>4. u = t
  BY <1>1, <1>2, <1>3
<1> QED  BY <1>4 DEF t, u

LEMMA ThirdNews ==
    ASSUME NEW S, NEW s \in Seq(S), NEW x \in S, NEW y \in S, NEW z \in S, s = <<x, y>>
    PROVE  Append(s, z) = <<x, y, z>>
<1> DEFINE t == <<x, y, z>>
           u == Append(s, z)
<1>1. Len(s) = 2 /\ s[1] = x /\ s[2] = y
  OBVIOUS
<1>2. t \in Seq(S) /\ Len(t) = 3 /\ t[1] = x /\ t[2] = y /\ t[3] = z
  OBVIOUS
<1>3. /\ u \in Seq(S) /\ Len(u) = Len(s) + 1 /\ u[Len(s) + 1] = z
      /\ \A i \in 1 .. Len(s) : u[i] = s[i]
  BY AppendProperties
<1> HIDE DEF t, u
<1>4. u = t
  BY <1>1, <1>2, <1>3
<1> QED  BY <1>4 DEF t, u

\* A transition decided on any copy, fresh or stale: the row moves on, the outbox says so,
\* and the session is marked when the copy was stale.
LEMMA TransitionStep ==
    ASSUME IInv, NEW b \in Bookings, NEW seen \in SessionStatus, NEW target,
           Transition(b, seen, target), UNCHANGED report,
           seen \in Underway => StartTold(b)
    PROVE  /\ session' \in [Bookings -> SessionStatus \cup {"absent"}]
           /\ session'[b] \notin {"absent", "READY"}
           /\ \A c \in Bookings \ {b} : session'[c] = session[c]
           /\ outbox' \in [Bookings -> Seq(EventType)]
           /\ overwritten' \subseteq Bookings
           /\ InterviewInv' /\ StartsAreTold' /\ Onward /\ EndsKept
<1>0. TypeOK
  BY DEF IInv
<1>1. /\ target \in Allowed(seen)
      /\ session' = [session EXCEPT ![b] = Stored(target)]
      /\ overwritten' = IF session[b] = seen THEN overwritten ELSE overwritten \cup {b}
      /\ AnnounceTransition(b, target)
  BY DEF Transition, Write
<1>2. \/ seen = "READY" /\ target \in {"IN_PROGRESS", "CANDIDATE_NO_SHOW",
             "INTERVIEWER_NO_SHOW", "TECHNICAL_FAILURE", "CANCELLED"}
      \/ seen = "IN_PROGRESS" /\ target \in {"COMPLETED", "TECHNICAL_FAILURE"}
  BY <1>1 DEF Allowed
<1>3. Stored(target) \in {"IN_PROGRESS", "CANDIDATE_NO_SHOW", "INTERVIEWER_NO_SHOW",
                          "TECHNICAL_FAILURE", "CANCELLED", "FEEDBACK_PENDING"}
  BY <1>2 DEF Stored
<1>4. /\ session' \in [Bookings -> SessionStatus \cup {"absent"}]
      /\ session'[b] = Stored(target)
      /\ \A c \in Bookings \ {b} : session'[c] = session[c]
  BY <1>0, <1>1, <1>3 DEF TypeOK, SessionStatus
<1>5. overwritten' \subseteq Bookings /\ overwritten \subseteq overwritten'
  BY <1>0, <1>1 DEF TypeOK
<1>6. \/ target = "CANCELLED" /\ UNCHANGED outbox
      \/ \E type \in EventType \ {"feedback"} :
            /\ Announce(b, type)
            /\ target = "IN_PROGRESS" => type = "started"
            /\ target = "COMPLETED" => type = "completed"
            /\ target = "CANDIDATE_NO_SHOW" => type = "candidate_no_show"
            /\ target = "INTERVIEWER_NO_SHOW" => type = "interviewer_no_show"
            /\ target = "TECHNICAL_FAILURE" => type = "technical_failure"
  BY <1>1, <1>2, SMT DEF AnnounceTransition, EventType
<1>7. Onward /\ EndsKept
  <2>1. Onward
    <3>1. \A c \in Bookings : StartTold(c) => StartTold(c)'
      BY <1>0, <1>6, ToldStays DEF StartTold
    <3> QED  BY <1>3, <1>4, <3>1 DEF Onward
  <2>2. EndsKept
    BY <1>1, <1>2, <1>4 DEF EndsKept, Ended
  <2> QED  BY <2>1, <2>2
<1>a. StartsAreTold'
  <2>1. target = "IN_PROGRESS" => StartTold(b)'
    BY <1>0, <1>6, ToldStays
  <2>2. target = "COMPLETED" => StartTold(b)
    BY <1>2 DEF Underway, SessionStatus, CalledOff
  <2>3. target \notin {"IN_PROGRESS", "COMPLETED"} => session'[b] \in CalledOff
    BY <1>2, <1>4 DEF Stored, CalledOff
  <2>4. session'[b] \in Underway => StartTold(b)'
    BY <1>7, <2>1, <2>2, <2>3 DEF Underway, Onward
  <2> QED  BY <1>4, <1>7, <2>4 DEF IInv, StartsAreTold, Onward
<1>8. ReportFitsStatus'
  <2>1. b \notin overwritten' => session[b] = seen /\ b \notin overwritten
    BY <1>1
  <2>2. ReportFitsStatus
    BY DEF IInv, InterviewInv
  <2> QED  BY <1>2, <1>3, <1>4, <1>5, <2>1, <2>2 DEF ReportFitsStatus
<1>9. CASE target = "CANCELLED" /\ UNCHANGED outbox
  <2>1. FeedbackAnnouncedOnce'
    BY <1>9 DEF IInv, InterviewInv, FeedbackAnnouncedOnce
  <2>2. OutboxTellsTheInterview'
    BY <1>1, <1>2, <1>4, <1>5, <1>9
       DEF IInv, InterviewInv, OutboxTellsTheInterview, Stories, Stored
  <2> QED  BY <1>0, <1>3, <1>4, <1>5, <1>7, <1>8, <1>9, <1>a, <2>1, <2>2 DEF InterviewInv, TypeOK
<1>10. ASSUME NEW type \in EventType \ {"feedback"}, Announce(b, type),
              target = "IN_PROGRESS" => type = "started",
              target = "COMPLETED" => type = "completed",
              target = "CANDIDATE_NO_SHOW" => type = "candidate_no_show",
              target = "INTERVIEWER_NO_SHOW" => type = "interviewer_no_show",
              target = "TECHNICAL_FAILURE" => type = "technical_failure",
              target # "CANCELLED"
       PROVE  InterviewInv' /\ outbox' \in [Bookings -> Seq(EventType)]
  <2>1. /\ outbox' \in [Bookings -> Seq(EventType)]
        /\ outbox'[b] = Append(outbox[b], type)
        /\ \A c \in Bookings \ {b} : outbox'[c] = outbox[c]
    BY <1>0, <1>10, Announced
  <2>2. FeedbackAnnouncedOnce'
    <3>1. {i \in DOMAIN outbox'[b] : outbox'[b][i] = "feedback"}
            = {i \in DOMAIN outbox[b] : outbox[b][i] = "feedback"}
      BY <1>0, <1>10, <2>1, OtherNews DEF TypeOK
    <3> SUFFICES ASSUME NEW c \in Bookings
                 PROVE  LET told == {i \in DOMAIN outbox'[c] : outbox'[c][i] = "feedback"}
                        IN  /\ told # {} <=> c \in report'
                            /\ \A i, j \in told : i = j
      BY DEF FeedbackAnnouncedOnce
    <3> DEFINE told == {i \in DOMAIN outbox[c] : outbox[c][i] = "feedback"}
    <3>2. {i \in DOMAIN outbox'[c] : outbox'[c][i] = "feedback"} = told
      BY <2>1, <3>1
    <3>3. (told # {} <=> c \in report) /\ \A i, j \in told : i = j
      BY DEF IInv, InterviewInv, FeedbackAnnouncedOnce
    <3> HIDE DEF told
    <3> QED  BY <3>2, <3>3
  <2>3. OutboxTellsTheInterview'
    <3> SUFFICES ASSUME b \notin overwritten'
                 PROVE  outbox'[b] \in Stories(session'[b])
      BY <1>4, <1>5, <2>1 DEF IInv, InterviewInv, OutboxTellsTheInterview
    <3>1. outbox[b] \in Stories(seen)
      BY <1>1, <1>5 DEF IInv, InterviewInv, OutboxTellsTheInterview
    <3>2. CASE seen = "READY"
      <4>a. outbox[b] = <<>>
        BY <3>1, <3>2 DEF Stories
      <4>1. outbox'[b] = <<type>>
        BY <2>1, <4>a
      <4> QED  BY <1>2, <1>4, <1>10, <3>2, <4>1 DEF Stories, Stored
    <3>3. CASE seen = "IN_PROGRESS"
      <4>a. outbox[b] = <<"started">>
        BY <3>1, <3>3 DEF Stories
      <4>1. outbox'[b] = <<"started", type>>
        BY <1>0, <1>10, <2>1, <4>a, SecondNews DEF TypeOK, EventType
      <4>2. CASE target = "COMPLETED"
        <5>1. session'[b] = "FEEDBACK_PENDING" /\ type = "completed"
          BY <1>4, <1>10, <4>2 DEF Stored
        <5>2. Stories("FEEDBACK_PENDING") = {<<"started", "completed">>}
          BY DEF Stories
        <5> QED  BY <4>1, <5>1, <5>2
      <4>3. CASE target = "TECHNICAL_FAILURE"
        <5>1. session'[b] = "TECHNICAL_FAILURE" /\ type = "technical_failure"
          BY <1>4, <1>10, <4>3 DEF Stored
        <5>2. <<"started", "technical_failure">> \in Stories("TECHNICAL_FAILURE")
          BY DEF Stories
        <5> QED  BY <4>1, <5>1, <5>2
      <4> QED  BY <1>2, <3>3, <4>2, <4>3
    <3> QED  BY <1>2, <3>2, <3>3
  <2> QED  BY <1>8, <2>1, <2>2, <2>3 DEF InterviewInv
<1>11. CASE target # "CANCELLED"
  <2>1. InterviewInv' /\ outbox' \in [Bookings -> Seq(EventType)]
    BY <1>6, <1>10, <1>11
  <2> QED  BY <1>3, <1>4, <1>5, <1>7, <1>a, <2>1
<1>12. CASE target = "CANCELLED"
  <2>1. UNCHANGED outbox
    BY <1>1, <1>12 DEF AnnounceTransition
  <2> QED  BY <1>9, <1>12, <2>1
<1> QED  BY <1>11, <1>12

\* Who is connected sees a started interview or one called off, as sessions only move on.
LEMMA ConnectedStays ==
    ASSUME IInv, Onward,
           session' \in [Bookings -> SessionStatus \cup {"absent"}], StartsAreTold'
    PROVE  \A b \in Bookings, role \in ParticipantRole :
              <<b, role>> \in connected => StartTold(b)' \/ session'[b] \in CalledOff
<1> SUFFICES ASSUME NEW b \in Bookings, NEW role \in ParticipantRole,
                    <<b, role>> \in connected
             PROVE  StartTold(b)' \/ session'[b] \in CalledOff
  OBVIOUS
<1>1. StartTold(b) \/ session[b] \in CalledOff
  BY DEF IInv, ArrivalStarts
<1>2. CASE StartTold(b)
  BY <1>2 DEF Onward
<1>3. CASE session[b] \in CalledOff
  <2>1. session'[b] \notin {"absent", "READY"}
    BY <1>3 DEF CalledOff, Onward
  <2> QED  BY <2>1 DEF StartsAreTold, Underway
<1> QED  BY <1>1, <1>2, <1>3

\* start and complete, decided on the copy the call has read.
LEMMA InterviewerStep ==
    ASSUME IInv, NEW r \in Requests, NEW op \in {"start", "complete"}, InterviewerApply(r, op)
    PROVE  IInv' /\ Onward /\ EndsKept
<1> DEFINE b == request[r].booking
           seen == request[r].seen
<1>1. b \in Bookings /\ seen \in SessionStatus /\ (seen \in Underway => StartTold(b))
  BY DEF IInv, TypeOK, Request, RequestsFit, RequestFits, InterviewerApply, Ready
<1>2. /\ Transition(b, seen, Target(op)) /\ Return(r)
      /\ UNCHANGED <<connected, noticed, report, givenUp>>
  BY DEF InterviewerApply
<1> HIDE DEF b, seen
<1>3. /\ session' \in [Bookings -> SessionStatus \cup {"absent"}]
      /\ outbox' \in [Bookings -> Seq(EventType)]
      /\ overwritten' \subseteq Bookings
      /\ InterviewInv' /\ StartsAreTold' /\ Onward /\ EndsKept
  BY <1>1, <1>2, TransitionStep
<1>4. RequestsFit' /\ ConfirmedHasSession' /\ request' \in [Requests -> Request]
  BY <1>2, <1>3, RequestsStay
<1>5. ArrivalStarts'
  BY <1>2, <1>3, ConnectedStays DEF ArrivalStarts
<1>6. TypeOK'
  BY <1>2, <1>3, <1>4 DEF IInv, TypeOK
<1> QED  BY <1>3, <1>4, <1>5, <1>6 DEF IInv

\* The admin's transition, decided on the row itself.
LEMMA AdminStep ==
    ASSUME IInv, NEW b \in Bookings, NEW target \in AdminTargets, AdminTransition(b, target)
    PROVE  IInv' /\ Onward /\ EndsKept
<1>2. /\ Transition(b, session[b], target)
      /\ UNCHANGED <<connected, noticed, report, request, givenUp>>
  BY DEF AdminTransition
<1>3. session[b] \in SessionStatus /\ (session[b] \in Underway => StartTold(b))
  BY <1>2 DEF IInv, TypeOK, StartsAreTold, Transition, Allowed
<1>4. /\ session' \in [Bookings -> SessionStatus \cup {"absent"}]
      /\ outbox' \in [Bookings -> Seq(EventType)]
      /\ overwritten' \subseteq Bookings
      /\ InterviewInv' /\ StartsAreTold' /\ Onward /\ EndsKept
  BY <1>2, <1>3, TransitionStep
<1>5. RequestsFit' /\ ConfirmedHasSession' /\ request' \in [Requests -> Request]
  BY <1>2, <1>4, RequestsStay
<1>6. ArrivalStarts'
  BY <1>2, <1>4, ConnectedStays DEF ArrivalStarts
<1>7. TypeOK'
  BY <1>2, <1>4, <1>5 DEF IInv, TypeOK
<1> QED  BY <1>4, <1>5, <1>6, <1>7 DEF IInv

\* An arrival or a departure, decided on the copy the event's request has read.
LEMMA AttendanceStep ==
    ASSUME IInv, NEW r \in Requests, AttendanceApply(r)
    PROVE  IInv' /\ Onward /\ EndsKept
<1> DEFINE q == request[r]
           b == q.booking
           who == <<b, q.role>>
<1>1. /\ Return(r) /\ UNCHANGED <<report, givenUp>>
      /\ q.pc = "read" /\ q.op \in {"joined", "left"}
  BY DEF AttendanceApply, Ready
<1>2. /\ b \in Bookings /\ q.seen \in SessionStatus /\ session[b] # "absent"
      /\ q.role \in ParticipantRole /\ q.notice \in Notices
      /\ q.seen # "READY" => session[b] # "READY"
      /\ q.seen \in Underway => StartTold(b)
  BY <1>1 DEF IInv, TypeOK, Request, RequestsFit, RequestFits
<1>3. CASE UNCHANGED <<session, connected, noticed, outbox, overwritten>>
  BY <1>1, <1>3, ReturnStep
<1>4. ASSUME noticed' = noticed \cup {q.notice},
             connected' = IF q.op = "joined" THEN connected \cup {who} ELSE connected \ {who},
             \/ /\ Starts(r)
                /\ Write(b, q.seen, "IN_PROGRESS") /\ Announce(b, "started")
             \/ ~Starts(r) /\ UNCHANGED <<session, outbox, overwritten>>
      PROVE  IInv' /\ Onward /\ EndsKept
  <2>1. /\ session' \in [Bookings -> SessionStatus \cup {"absent"}]
        /\ outbox' \in [Bookings -> Seq(EventType)]
        /\ overwritten' \subseteq Bookings
        /\ InterviewInv' /\ StartsAreTold' /\ Onward /\ EndsKept
        /\ q.op = "joined" => session'[b] \notin {"absent", "READY"}
    <3>1. CASE Starts(r)
      <4>1. Transition(b, q.seen, "IN_PROGRESS")
        BY <1>4, <3>1 DEF Starts, Transition, Allowed, Stored, AnnounceTransition
      <4> QED  BY <1>1, <1>2, <4>1, TransitionStep
    <3>2. CASE ~Starts(r)
      <4>1. UNCHANGED <<session, outbox, overwritten>>
        BY <1>4, <3>2
      <4>2. q.op = "joined" => session[b] \notin {"absent", "READY"}
        BY <1>2, <3>2 DEF Starts
      <4>3. InterviewInv'
        BY <1>1, <4>1 DEF IInv, InterviewInv, OutboxTellsTheInterview,
                          FeedbackAnnouncedOnce, ReportFitsStatus
      <4> QED  BY <4>1, <4>2, <4>3 DEF IInv, TypeOK, StartsAreTold, StartTold, Onward, EndsKept
    <3> QED  BY <3>1, <3>2
  <2>2. RequestsFit' /\ ConfirmedHasSession' /\ request' \in [Requests -> Request]
    BY <1>1, <2>1, RequestsStay
  <2>3. ArrivalStarts'
    <3>1. CASE q.op = "left"
      BY <1>4, <2>1, <3>1, ConnectedStays DEF ArrivalStarts
    <3>2. CASE q.op = "joined"
      <4>0. PICK a \in Bookings, role \in ParticipantRole : a = b /\ role = q.role
        BY <1>2
      <4>1. connected' = connected \cup {<<a, role>>}
        BY <1>4, <3>2, <4>0
      <4>2. session'[a] \notin {"absent", "READY"}
        BY <2>1, <3>2, <4>0
      <4>3. /\ session' \in [Bookings -> SessionStatus \cup {"absent"}]
            /\ StartsAreTold' /\ Onward
        BY <2>1
      <4> HIDE DEF b, q, who
      <4>4. StartTold(a)' \/ session'[a] \in CalledOff
        BY <4>2, <4>3 DEF StartsAreTold, Underway
      <4>5. \A c \in Bookings, side \in ParticipantRole :
               <<c, side>> \in connected => StartTold(c)' \/ session'[c] \in CalledOff
        BY <4>3, ConnectedStays
      <4> QED  BY <4>1, <4>4, <4>5 DEF ArrivalStarts
    <3> QED  BY <1>1, <3>1, <3>2
  <2>4. connected' \subseteq Bookings \X ParticipantRole /\ noticed' \subseteq Notices
    BY <1>2, <1>4 DEF IInv, TypeOK
  <2>5. TypeOK'
    BY <1>1, <2>1, <2>2, <2>4 DEF IInv, TypeOK
  <2> QED  BY <2>1, <2>2, <2>3, <2>5 DEF IInv
<1> QED  BY <1>3, <1>4 DEF AttendanceApply

\* The report is inserted once, and the status written over whatever the row has become.
LEMMA FeedbackStep ==
    ASSUME IInv, NEW r \in Requests, FeedbackCommit(r)
    PROVE  IInv' /\ Onward /\ EndsKept
<1> DEFINE b == request[r].booking
<1>0. TypeOK
  BY DEF IInv
<1>1. /\ b \in Bookings /\ b \notin report /\ Return(r) /\ report' = report \cup {b}
      /\ request[r].seen = "FEEDBACK_PENDING" /\ session[b] # "absent" /\ StartTold(b)
      /\ Write(b, "FEEDBACK_PENDING", "FEEDBACK_SUBMITTED")
      /\ Announce(b, "feedback")
      /\ UNCHANGED <<connected, noticed, givenUp>>
  BY DEF FeedbackCommit, Ready, IInv, RequestsFit, RequestFits, Underway, SessionStatus, CalledOff
<1> HIDE DEF b
<1>2. /\ session' \in [Bookings -> SessionStatus \cup {"absent"}]
      /\ session'[b] = "FEEDBACK_SUBMITTED"
      /\ \A c \in Bookings \ {b} : session'[c] = session[c]
      /\ overwritten' = IF session[b] = "FEEDBACK_PENDING" THEN overwritten
                                                            ELSE overwritten \cup {b}
  BY <1>0, <1>1 DEF TypeOK, SessionStatus, Write
<1>3. /\ outbox' \in [Bookings -> Seq(EventType)]
      /\ outbox'[b] = Append(outbox[b], "feedback")
      /\ \A c \in Bookings \ {b} : outbox'[c] = outbox[c]
  BY <1>0, <1>1, Announced DEF EventType
<1>4. Onward /\ EndsKept
  <2>1. \A c \in Bookings : StartTold(c) => StartTold(c)'
    BY <1>0, <1>1, ToldStays DEF EventType
  <2> QED  BY <1>0, <1>2, <2>1 DEF TypeOK, Onward, EndsKept, Ended
<1>a. StartsAreTold'
  BY <1>1, <1>2, <1>4 DEF IInv, StartsAreTold, Onward
<1>5. OutboxTellsTheInterview'
  <2> SUFFICES ASSUME b \notin overwritten'
               PROVE  outbox'[b] \in Stories("FEEDBACK_SUBMITTED")
    BY <1>2, <1>3 DEF IInv, InterviewInv, OutboxTellsTheInterview
  <2>1. outbox[b] \in Stories("FEEDBACK_PENDING")
    BY <1>1, <1>2 DEF IInv, InterviewInv, OutboxTellsTheInterview
  <2>2. outbox[b] = <<"started", "completed">>
    BY <2>1 DEF Stories
  <2>3. outbox'[b] = <<"started", "completed", "feedback">>
    <3>1. outbox[b] \in Seq(EventType)
      BY <1>0, <1>1 DEF TypeOK
    <3>2. "started" \in EventType /\ "completed" \in EventType /\ "feedback" \in EventType
      BY DEF EventType
    <3>3. Append(outbox[b], "feedback") = <<"started", "completed", "feedback">>
      BY <2>2, <3>1, <3>2, ThirdNews
    <3> QED  BY <1>3, <3>3
  <2> QED  BY <2>3 DEF Stories
<1>6. FeedbackAnnouncedOnce'
  <2> SUFFICES ASSUME NEW c \in Bookings
               PROVE  LET told == {i \in DOMAIN outbox'[c] : outbox'[c][i] = "feedback"}
                      IN  /\ told # {} <=> c \in report'
                          /\ \A i, j \in told : i = j
    BY DEF FeedbackAnnouncedOnce
  <2> DEFINE told == {i \in DOMAIN outbox[c] : outbox[c][i] = "feedback"}
             new == {i \in DOMAIN outbox'[c] : outbox'[c][i] = "feedback"}
  <2>1. (told # {} <=> c \in report) /\ \A i, j \in told : i = j
    BY DEF IInv, InterviewInv, FeedbackAnnouncedOnce
  <2>2. CASE c # b
    <3>1. new = told /\ (c \in report' <=> c \in report)
      BY <1>1, <1>3, <2>2
    <3> HIDE DEF told, new
    <3>2. (new # {} <=> c \in report') /\ \A i, j \in new : i = j
      BY <2>1, <3>1
    <3> QED  BY <3>2 DEF new
  <2>3. CASE c = b
    <3>1. \A i \in DOMAIN outbox[b] : outbox[b][i] # "feedback"
      BY <1>1, <2>1, <2>3
    <3>2. outbox[b] \in Seq(EventType) /\ "feedback" \in EventType
      BY <1>0, <1>1 DEF TypeOK, EventType
    <3>3. new = {Len(outbox[b]) + 1}
      BY <1>3, <2>3, <3>1, <3>2
    <3> HIDE DEF new
    <3>4. (new # {} <=> c \in report') /\ \A i, j \in new : i = j
      BY <1>1, <2>3, <3>3
    <3> QED  BY <3>4 DEF new
  <2> QED  BY <2>2, <2>3
<1>7. ReportFitsStatus'
  BY <1>1, <1>2 DEF IInv, InterviewInv, ReportFitsStatus
<1>8. RequestsFit' /\ ConfirmedHasSession' /\ request' \in [Requests -> Request]
  BY <1>1, <1>4, RequestsStay
<1>9. ArrivalStarts'
  BY <1>1, <1>2, <1>4, <1>a, ConnectedStays DEF ArrivalStarts
<1>10. TypeOK'
  BY <1>0, <1>1, <1>2, <1>3, <1>8 DEF TypeOK
<1> QED  BY <1>4, <1>5, <1>6, <1>7, <1>8, <1>9, <1>10, <1>a DEF IInv, InterviewInv

-----------------------------------------------------------------------------
(* The theorems                                                            *)

\* Every step keeps the invariant, moves sessions on and keeps their ends.
LEMMA NextInv ==
    ASSUME IInv, Next
    PROVE  IInv' /\ Onward /\ EndsKept
<1> USE SessionAssumption
<1>1. ASSUME NEW r \in Requests, InterviewNext(r)  PROVE IInv' /\ Onward /\ EndsKept
  <2>1. ASSUME NEW op \in {"start", "complete"}, NEW b \in Bookings, InterviewerRead(r, op, b)
        PROVE  IInv' /\ Onward /\ EndsKept
    <3>1. session[b] # "absent" /\ op \in Op /\ op \notin {"create", "joined", "left", "feedback"}
      BY <2>1 DEF InterviewerRead, Allowed, Op
    <3> QED  BY <2>1, <3>1, ReadStep DEF InterviewerRead
  <2>2. ASSUME NEW op \in {"joined", "left"}, NEW b \in Bookings,
               NEW role \in ParticipantRole, NEW notice \in Notices,
               AttendanceRead(r, op, b, role, notice)
        PROVE  IInv' /\ Onward /\ EndsKept
    <3>1. op \in Op /\ op \notin {"create", "feedback"}
      BY DEF Op
    <3> QED  BY <2>2, <3>1, ReadStep DEF AttendanceRead
  <2>3. ASSUME NEW b \in Bookings, FeedbackRead(r, b)  PROVE IInv' /\ Onward /\ EndsKept
    BY <2>3, ReadStep DEF FeedbackRead, Op
  <2>4. CASE RequestEnd(r)
    BY <2>4, ReturnStep DEF RequestEnd
  <2> QED  BY <1>1, <2>1, <2>2, <2>3, <2>4, InterviewerStep, AttendanceStep, FeedbackStep
              DEF InterviewNext
<1> QED  BY <1>1, CreateSteps, AdminStep DEF Next

\* The conjunction of all invariants of interview-service is inductive.
THEOREM SessionInductive == Spec => []IInv
<1>1. ASSUME IInv, UNCHANGED vars  PROVE IInv'
  BY <1>1 DEF vars, IInv, TypeOK, RequestsFit, RequestFits, InterviewInv,
              OutboxTellsTheInterview, FeedbackAnnouncedOnce, ReportFitsStatus,
              StartsAreTold, ArrivalStarts, StartTold, ConfirmedHasSession
<1>2. ASSUME IInv, [Next]_vars  PROVE IInv'
  BY <1>1, <1>2, NextInv
<1> QED  BY <1>2, InitInv, PTL DEF Spec

\* The service's rows and the requests stay well formed.
THEOREM SessionTypeCorrect == Spec => []TypeOK
<1>1. IInv => TypeOK
  BY DEF IInv
<1> QED  BY SessionInductive, <1>1, PTL

\* As long as no stale copy is written over a session, its outbox tells its whole story.
THEOREM OutboxIsTrue == Spec => []OutboxTellsTheInterview
<1>1. IInv => OutboxTellsTheInterview
  BY DEF IInv, InterviewInv
<1> QED  BY SessionInductive, <1>1, PTL

\* Feedback is announced once, for the sessions with a report and for no other, even where
\* stale copies are written.
THEOREM FeedbackIsAnnounced == Spec => []FeedbackAnnouncedOnce
<1>1. IInv => FeedbackAnnouncedOnce
  BY DEF IInv, InterviewInv
<1> QED  BY SessionInductive, <1>1, PTL

\* A session with a report is FEEDBACK_SUBMITTED unless a stale copy was written over it.
THEOREM ReportsFit == Spec => []ReportFitsStatus
<1>1. IInv => ReportFitsStatus
  BY DEF IInv, InterviewInv
<1> QED  BY SessionInductive, <1>1, PTL

\* Where somebody is connected, the start of the interview was announced, or the interview
\* is called off without one, whatever stale copies are written.
THEOREM ArrivalsStart == Spec => []ArrivalStarts
<1>1. IInv => ArrivalStarts
  BY DEF IInv
<1> QED  BY SessionInductive, <1>1, PTL

\* A delivery of a confirmed booking is acknowledged only when the session is there; without
\* one it is dead-lettered for want of a rubric or for a failure, and for nothing else.
THEOREM ConfirmedIsServed == Spec => []ConfirmedHasSession
<1>1. IInv => ConfirmedHasSession
  BY DEF IInv
<1> QED  BY SessionInductive, <1>1, PTL

\* An ended session stays ended; only the write of a stale copy, which marks it, undoes an
\* end, and no session is created twice.
THEOREM EndsAreFinal == Spec => EndedStaysEnded
<1> DEFINE Keeps ==
      \A b \in Bookings :
         /\ session[b] \in Ended /\ session'[b] # session[b] => b \in overwritten'
         /\ session[b] # "absent" => session'[b] # "absent"
         /\ session[b] \notin {"absent", "READY"} => session'[b] # "READY"
<1>1. ASSUME IInv, Next  PROVE Keeps
  BY <1>1, NextInv DEF Onward, EndsKept
<1>2. ASSUME IInv, [Next]_vars  PROVE [Keeps]_vars
  BY <1>1, <1>2
<1> QED  BY SessionInductive, <1>2, PTL DEF Spec, EndedStaysEnded

=============================================================================

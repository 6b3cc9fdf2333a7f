------------------------------ MODULE Session ------------------------------
(***************************************************************************)
(* interview-service: sessions, attendance and feedback.                   *)
(*                                                                         *)
(* A confirmed booking becomes a session; the video provider's attendance  *)
(* events and the interviewer start it, the interviewer completes it and   *)
(* submits feedback, and an admin may move it to any allowed status.       *)
(*                                                                         *)
(* Concurrency.  Every request has its own database session at READ        *)
(* COMMITTED.  All but the admin's read the row of the interview without a *)
(* lock first and decide on that copy later: the object stays in the       *)
(* identity map, and a later SELECT ... FOR UPDATE does not refresh it.    *)
(***************************************************************************)
EXTENDS Integers, Sequences

CONSTANTS
    Bookings,       \* a session is named by its booking (unique booking_id)
    Prepared,       \* bookings whose rubric exists
    Requests,       \* bound: deliveries of booking.confirmed, and calls under way at a time
    Notices,        \* provider_event_id of attendance events
    AdminTargets,   \* bound: the statuses the admin endpoint is called with
    None

ASSUME SessionAssumption ==
    /\ Prepared \subseteq Bookings
    /\ None \notin Bookings \cup Notices

VARIABLES
    session,        \* table interview_sessions: the status of a booking's session
    connected,      \* table participant_attendance: the rows with connected = true
    noticed,        \* table attendance_events: the provider's event ids
    report,         \* table feedback_reports: bookings with a report
    outbox,         \* per booking, the event types of its outbox_events, oldest first
    request,        \* running requests and deliveries
    overwritten,    \* history: sessions a stale copy was written over
    givenUp         \* history: bookings a failure dead-lettered a delivery of

vars == <<session, connected, noticed, report, outbox, request, overwritten, givenUp>>

-----------------------------------------------------------------------------
(* Rows and requests.                                                      *)

SessionStatus == {"SCHEDULED", "READY", "IN_PROGRESS", "COMPLETED", "FEEDBACK_PENDING",
                  "FEEDBACK_SUBMITTED", "CANDIDATE_NO_SHOW", "INTERVIEWER_NO_SHOW",
                  "TECHNICAL_FAILURE", "CANCELLED"}

ParticipantRole == {"candidate", "interviewer"}

EventType == {"started", "completed", "candidate_no_show", "interviewer_no_show",
              "technical_failure", "feedback"}

Op == {"create", "start", "complete", "joined", "left", "feedback"}

\* pc: read, the copy is in hand; ended and dead, a delivery acknowledged or dead-lettered.
Request == [pc : {"idle", "read", "ended", "dead"}, op : Op \cup {None},
            booking : Bookings \cup {None}, seen : SessionStatus \cup {"absent"},
            role : ParticipantRole \cup {None}, notice : Notices \cup {None}]

Idle == [pc |-> "idle", op |-> None, booking |-> None,
         seen |-> "absent", role |-> None, notice |-> None]

TypeOK ==
    /\ session \in [Bookings -> SessionStatus \cup {"absent"}]
    /\ connected \subseteq Bookings \X ParticipantRole
    /\ noticed \subseteq Notices
    /\ report \subseteq Bookings
    /\ outbox \in [Bookings -> Seq(EventType)]
    /\ request \in [Requests -> Request]
    /\ overwritten \subseteq Bookings
    /\ givenUp \subseteq Bookings

Init ==
    /\ session = [b \in Bookings |-> "absent"]
    /\ connected = {}
    /\ noticed = {}
    /\ report = {}
    /\ outbox = [b \in Bookings |-> <<>>]
    /\ request = [r \in Requests |-> Idle]
    /\ overwritten = {}
    /\ givenUp = {}

-----------------------------------------------------------------------------
(* Helpers.                                                                *)

\* Start request r of kind op with a copy of b's session.
Read(r, op, b, role, notice) ==
    /\ request[r].pc = "idle"
    /\ request' = [request EXCEPT ![r] =
                    [pc |-> "read", op |-> op, booking |-> b, seen |-> session[b],
                     role |-> role, notice |-> notice]]
    /\ UNCHANGED <<session, connected, noticed, report, outbox, overwritten, givenUp>>

Ready(r, op) == request[r].pc = "read" /\ request[r].op = op

\* A delivery ends; a call is over and makes room for another.
Finish(r, pc) == request' = [request EXCEPT ![r].pc = pc]
Return(r) == request' = [request EXCEPT ![r] = Idle]

Announce(b, type) == outbox' = [outbox EXCEPT ![b] = Append(@, type)]

\* Write a status for b, decided on a copy with status seen.
Write(b, seen, status) ==
    /\ session' = [session EXCEPT ![b] = status]
    /\ overwritten' = IF session[b] = seen THEN overwritten ELSE overwritten \cup {b}

-----------------------------------------------------------------------------
(* create_session                                                          *)

\* Neither the event nor the booking has a session yet, and the rubric exists.
CreateRead(r, b) ==
    /\ session[b] = "absent"
    /\ b \in Prepared
    /\ Read(r, "create", b, None, None)

\* The rubric does not exist, or the session does: then the event is recorded as processed,
\* unless the database fails.
CreateSkip(r, b) ==
    /\ request[r].pc = "idle"
    /\ \E pc \in {"ended", "dead"} :
         /\ IF session[b] = "absent" THEN b \notin Prepared /\ pc = "dead" ELSE TRUE
         /\ request' = [request EXCEPT ![r] =
                         [pc |-> pc, op |-> "create", booking |-> b, seen |-> session[b],
                          role |-> None, notice |-> None]]
    /\ UNCHANGED <<session, connected, noticed, report, outbox, overwritten, givenUp>>

\* The provider cannot be reached, times out or answers with an error: every exception
\* becomes a ServiceError, and the delivery is rejected.
CreateRefuse(r) ==
    /\ Ready(r, "create")
    /\ Finish(r, "dead")
    /\ givenUp' = givenUp \cup {request[r].booking}
    /\ UNCHANGED <<session, connected, noticed, report, outbox, overwritten>>

\* Mutant: the insert overwrites a session another delivery has created.
CreateCommitAnyway(r) ==
    /\ Ready(r, "create")
    /\ session' = [session EXCEPT ![request[r].booking] = "READY"]
    /\ Finish(r, "ended")
    /\ UNCHANGED <<connected, noticed, report, outbox, overwritten, givenUp>>

\* The room exists: insert session, participants and processed event, or fail on the
\* unique booking another delivery has inserted.
CreateCommit(r) ==
    LET b == request[r].booking
    IN /\ Ready(r, "create")
       /\ IF session[b] = "absent"
          THEN session' = [session EXCEPT ![b] = "READY"] /\ Finish(r, "ended")
          ELSE Finish(r, "dead") /\ UNCHANGED session
       /\ UNCHANGED <<connected, noticed, report, outbox, overwritten, givenUp>>

\* Mutant: the message is acknowledged before the commit.
CreateRequeueAcked(r) ==
    /\ Ready(r, "create")
    /\ Finish(r, "ended")
    /\ UNCHANGED <<session, connected, noticed, report, outbox, overwritten, givenUp>>

\* A commit that fails: its answer may be all that was lost.
Unanswered(b) ==
    \/ UNCHANGED session
    \/ session[b] = "absent" /\ session' = [session EXCEPT ![b] = "READY"]

\* The process dies, or the database cannot be reached (OSError, OperationalError): the
\* message comes back.
CreateRequeue(r) ==
    /\ Ready(r, "create")
    /\ Unanswered(request[r].booking)
    /\ Return(r)
    /\ UNCHANGED <<connected, noticed, report, outbox, overwritten, givenUp>>

\* Any other database error rejects the delivery: a connection that breaks in mid-query is
\* an InterfaceError or a plain DBAPIError of SQLAlchemy's asyncpg dialect.
CreateReject(r) ==
    /\ Ready(r, "create")
    /\ Unanswered(request[r].booking)
    /\ Finish(r, "dead")
    /\ givenUp' = givenUp \cup {request[r].booking}
    /\ UNCHANGED <<connected, noticed, report, outbox, overwritten>>

-----------------------------------------------------------------------------
(* transition                                                              *)

\* Mutant: a completed interview may still be declared a technical failure.
AllowedLate(st) ==
    CASE st = "READY" -> {"IN_PROGRESS", "CANDIDATE_NO_SHOW", "INTERVIEWER_NO_SHOW",
                          "TECHNICAL_FAILURE", "CANCELLED"}
      [] st \in {"IN_PROGRESS", "FEEDBACK_PENDING"} -> {"COMPLETED", "TECHNICAL_FAILURE"}
      [] OTHER -> {}

Allowed(st) ==
    CASE st = "READY" -> {"IN_PROGRESS", "CANDIDATE_NO_SHOW", "INTERVIEWER_NO_SHOW",
                          "TECHNICAL_FAILURE", "CANCELLED"}
      [] st = "IN_PROGRESS" -> {"COMPLETED", "TECHNICAL_FAILURE"}
      [] OTHER -> {}

\* COMPLETED is stored as FEEDBACK_PENDING.
Stored(target) == IF target = "COMPLETED" THEN "FEEDBACK_PENDING" ELSE target

\* What a transition announces; a cancellation is not announced.
AnnounceTransition(b, target) ==
    CASE target = "IN_PROGRESS"         -> Announce(b, "started")
      [] target = "COMPLETED"           -> Announce(b, "completed")
      [] target = "CANDIDATE_NO_SHOW"   -> Announce(b, "candidate_no_show")
      [] target = "INTERVIEWER_NO_SHOW" -> Announce(b, "interviewer_no_show")
      [] target = "TECHNICAL_FAILURE"   -> Announce(b, "technical_failure")
      [] OTHER                          -> UNCHANGED outbox

\* Decide on the copy seen whether b may go to target, and do it.
Transition(b, seen, target) ==
    /\ target \in Allowed(seen)
    /\ Write(b, seen, Stored(target))
    /\ AnnounceTransition(b, target)

\* The admin endpoint reads the row with its lock, so its copy is the row.
AdminTransition(b, target) ==
    /\ Transition(b, session[b], target)
    /\ UNCHANGED <<connected, noticed, report, request, givenUp>>

Target(op) == IF op = "start" THEN "IN_PROGRESS" ELSE "COMPLETED"

\* transition_by_interviewer reads the session, to check whose it is, without a lock; a
\* copy that does not allow the target is refused and changes nothing.
InterviewerRead(r, op, b) ==
    /\ Target(op) \in Allowed(session[b])
    /\ Read(r, op, b, None, None)

InterviewerApply(r, op) ==
    /\ Ready(r, op)
    /\ Transition(request[r].booking, request[r].seen, Target(op))
    /\ Return(r)
    /\ UNCHANGED <<connected, noticed, report, givenUp>>

-----------------------------------------------------------------------------
(* attendance                                                              *)

\* An event that is not recorded yet; the session is read without a lock.
AttendanceRead(r, op, b, role, notice) ==
    /\ notice \notin noticed
    /\ session[b] # "absent"
    /\ Read(r, op, b, role, notice)

\* Mutant: only the interviewer's arrival starts the interview.
StartsByInterviewer(r) ==
    /\ request[r].op = "joined"
    /\ request[r].seen = "READY"
    /\ request[r].role = "interviewer"

\* An arrival starts the interview, as far as the copy tells.
Starts(r) == request[r].op = "joined" /\ request[r].seen = "READY"

\* Lock the participant.  A second arrival, and an event recorded meanwhile (unique
\* provider_event_id), change nothing.
AttendanceApply(r) ==
    LET b   == request[r].booking
        who == <<b, request[r].role>>
    IN /\ Ready(r, "joined") \/ Ready(r, "left")
       /\ Return(r)
       /\ IF \/ request[r].notice \in noticed
             \/ request[r].op = "joined" /\ who \in connected
          THEN UNCHANGED <<session, connected, noticed, outbox, overwritten>>
          ELSE /\ noticed' = noticed \cup {request[r].notice}
               /\ connected' = IF request[r].op = "joined" THEN connected \cup {who}
                                                           ELSE connected \ {who}
               /\ IF Starts(r)
                  THEN Write(b, request[r].seen, "IN_PROGRESS") /\ Announce(b, "started")
                  ELSE UNCHANGED <<session, outbox, overwritten>>
       /\ UNCHANGED <<report, givenUp>>

-----------------------------------------------------------------------------
(* submit_feedback                                                         *)

FeedbackRead(r, b) ==
    /\ session[b] = "FEEDBACK_PENDING"
    /\ b \notin report
    /\ Read(r, "feedback", b, None, None)

\* Mutant: the report's session is not unique.
FeedbackCommitAgain(r) ==
    LET b == request[r].booking
    IN /\ Ready(r, "feedback")
       /\ Return(r)
       /\ report' = report \cup {b}
       /\ Write(b, request[r].seen, "FEEDBACK_SUBMITTED")
       /\ Announce(b, "feedback")
       /\ UNCHANGED <<connected, noticed, givenUp>>

\* Insert the report (unique session_id), then write the status and announce it.
FeedbackCommit(r) ==
    LET b == request[r].booking
    IN /\ Ready(r, "feedback")
       /\ b \notin report
       /\ Return(r)
       /\ report' = report \cup {b}
       /\ Write(b, request[r].seen, "FEEDBACK_SUBMITTED")
       /\ Announce(b, "feedback")
       /\ UNCHANGED <<connected, noticed, givenUp>>

\* A request of the API ends without a commit: refused, failed or its process died.
RequestEnd(r) ==
    /\ request[r].pc = "read"
    /\ request[r].op # "create"
    /\ Return(r)
    /\ UNCHANGED <<session, connected, noticed, report, outbox, overwritten, givenUp>>

-----------------------------------------------------------------------------

CreateNext(r) ==
    \/ \E b \in Bookings : CreateRead(r, b) \/ CreateSkip(r, b)
    \/ CreateRefuse(r)
    \/ CreateCommit(r)
    \/ CreateRequeue(r)
    \/ CreateReject(r)

InterviewNext(r) ==
    \/ \E op \in {"start", "complete"}, b \in Bookings : InterviewerRead(r, op, b)
    \/ \E op \in {"start", "complete"} : InterviewerApply(r, op)
    \/ \E op \in {"joined", "left"}, b \in Bookings, role \in ParticipantRole,
          notice \in Notices : AttendanceRead(r, op, b, role, notice)
    \/ AttendanceApply(r)
    \/ \E b \in Bookings : FeedbackRead(r, b)
    \/ FeedbackCommit(r)
    \/ RequestEnd(r)

Next ==
    \/ \E r \in Requests : CreateNext(r) \/ InterviewNext(r)
    \/ \E b \in Bookings, target \in AdminTargets : AdminTransition(b, target)

Spec == Init /\ [][Next]_vars

-----------------------------------------------------------------------------
(* Properties                                                              *)

\* The stories of a session: the announcements that may have led to a status.
Stories(st) ==
    CASE st = "IN_PROGRESS"         -> {<<"started">>}
      [] st = "FEEDBACK_PENDING"    -> {<<"started", "completed">>}
      [] st = "FEEDBACK_SUBMITTED"  -> {<<"started", "completed", "feedback">>}
      [] st = "CANDIDATE_NO_SHOW"   -> {<<"candidate_no_show">>}
      [] st = "INTERVIEWER_NO_SHOW" -> {<<"interviewer_no_show">>}
      [] st = "TECHNICAL_FAILURE"   -> {<<"technical_failure">>,
                                        <<"started", "technical_failure">>}
      [] OTHER                      -> {<<>>}

\* Unless a stale copy was written over it, a session's outbox tells exactly how it came
\* to its status: started once, by whoever was first, completed after that, and so on.
OutboxTellsTheInterview ==
    \A b \in Bookings \ overwritten : outbox[b] \in Stories(session[b])

\* Feedback is announced exactly for the sessions with a report and once, whatever
\* happened to the status: notifications and the report cannot diverge.
FeedbackAnnouncedOnce ==
    \A b \in Bookings :
        LET told == {i \in DOMAIN outbox[b] : outbox[b][i] = "feedback"}
        IN /\ told # {} <=> b \in report
           /\ \A i, j \in told : i = j

\* A session with a report is FEEDBACK_SUBMITTED, and the other way round, unless a stale
\* copy was written over it.
ReportFitsStatus ==
    \A b \in Bookings \ overwritten : b \in report <=> session[b] = "FEEDBACK_SUBMITTED"

\* The statuses in which an interview that was never started may have been called off.
CalledOff == {"CANDIDATE_NO_SHOW", "INTERVIEWER_NO_SHOW", "TECHNICAL_FAILURE", "CANCELLED"}

StartTold(b) == \E i \in DOMAIN outbox[b] : outbox[b][i] = "started"

\* An arrival starts an interview or comes too late: where somebody is connected, the start
\* was announced, or the interview is called off without one.  attendance() lets participants
\* into every session; stale copies make no exception.
ArrivalStarts ==
    \A b \in Bookings, role \in ParticipantRole :
        <<b, role>> \in connected => StartTold(b) \/ session[b] \in CalledOff

\* A delivery of a confirmed booking is acknowledged only when its session is there, and it
\* stays there.  One that is dead-lettered without a session had no rubric, or a failure of
\* the video provider or of the database: such a booking stays without a session.
ConfirmedHasSession ==
    \A r \in Requests :
        LET b == request[r].booking
        IN request[r].op = "create" =>
            /\ request[r].pc = "ended" => session[b] # "absent"
            /\ request[r].pc = "dead" =>
                  session[b] # "absent" \/ b \notin Prepared \/ b \in givenUp

Ended == {"FEEDBACK_SUBMITTED", "CANDIDATE_NO_SHOW", "INTERVIEWER_NO_SHOW",
          "TECHNICAL_FAILURE", "CANCELLED"}

\* An ended session stays ended and a created one is never created again; only a write of
\* a stale copy, which marks the session, undoes an end.
EndedStaysEnded ==
    [][\A b \in Bookings :
         /\ session[b] \in Ended /\ session'[b] # session[b] => b \in overwritten'
         /\ session[b] # "absent" => session'[b] # "absent"
         /\ session[b] \notin {"absent", "READY"} => session'[b] # "READY"]_vars

=============================================================================

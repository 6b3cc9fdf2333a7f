------------------------- MODULE VerificationProofs -------------------------
(***************************************************************************)
(* Theorems about Verification for every set of ownership checks and       *)
(* evidence and every number of events.                                    *)
(***************************************************************************)
EXTENDS Verification, TLAPS

-----------------------------------------------------------------------------

\* What a decision that holds the profile has found.
DecisionInv ==
    /\ txn.kind = "none" => txn.at = 0
    /\ txn.kind # "none" => ~profile.deleted
    /\ txn.kind = "approved" /\ profile.status = "UNDER_REVIEW" => ReviewChecks \subseteq passed

IInv == TypeOK /\ StatusesAgree /\ ChecksAgree /\ DecisionInv

\* Every step but a commit leaves the standing alone, and so does everything that leaves
\* txn, clock and events alone.
Quiet == UNCHANGED <<txn, clock, events>> /\ Standing' = Standing

\* A status that is not VERIFIED before and after does not touch the standing.
Accepted == profile.status = "UNDER_REVIEW" /\ profile'.status = "VERIFIED" =>
                ReviewChecks \subseteq passed'

Good == IInv' /\ [L!Next]_(L!vars) /\ Accepted

LEMMA InitInv == Init => IInv /\ L!Init
<1> SUFFICES ASSUME Init PROVE IInv /\ L!Init
  OBVIOUS
<1> USE VerificationAssumption DEF Init
<1>1. TypeOK /\ StatusesAgree /\ ChecksAgree /\ DecisionInv
  BY DEF TypeOK, StatusesAgree, ChecksAgree, DecisionInv, Row, NoTxn, Status, Kind
<1>2. L!Init
  BY DEF L!Init, L!NoTxn, NoTxn, Standing
<1> QED  BY <1>1, <1>2 DEF IInv

\* A step that other services do not follow.
LEMMA QuietStep ==
    ASSUME IInv, Quiet, TypeOK', StatusesAgree', ChecksAgree',
           ReviewChecks \subseteq passed /\ txn.kind # "none" => ReviewChecks \subseteq passed',
           txn.kind # "none" => profile'.status = profile.status /\ profile'.deleted = profile.deleted,
           profile'.status = "VERIFIED" => profile.status = "VERIFIED"
    PROVE  Good
<1>1. DecisionInv'
  BY DEF IInv, Quiet, DecisionInv
<1>2. UNCHANGED L!vars
  BY DEF Quiet, L!vars
<1>3. Accepted
  BY DEF Accepted
<1> QED  BY <1>1, <1>2, <1>3 DEF Good, IInv

\* SetCheck and the rows a check summarises.
LEMMA InterviewerSteps ==
    ASSUME IInv, InterviewerNext
    PROVE  Good
<1> USE DEF IInv
<1>1. CASE CreateProfile
  <2>1. TypeOK' /\ StatusesAgree' /\ ChecksAgree'
    BY <1>1 DEF CreateProfile, TypeOK, StatusesAgree, ChecksAgree, Row
  <2>2. /\ Quiet /\ passed' = passed
        /\ profile'.status = profile.status /\ profile'.deleted = profile.deleted
    BY <1>1 DEF CreateProfile, TypeOK, Quiet, Standing
  <2> QED  BY <2>1, <2>2, QuietStep
<1>2. CASE SeeVerification
  <2>1. TypeOK' /\ StatusesAgree' /\ ChecksAgree'
    BY <1>2 DEF SeeVerification, SetCheck, TypeOK, StatusesAgree, ChecksAgree, Row, ReviewChecks, Status
  <2>2. Quiet /\ profile' = profile /\ passed \subseteq passed'
    BY <1>2 DEF SeeVerification, SetCheck, Quiet, Standing
  <2> QED  BY <2>1, <2>2, QuietStep
<1>3. ASSUME NEW k \in Kinds, Ownership(k)  PROVE Good
  <2>1. TypeOK' /\ StatusesAgree' /\ ChecksAgree'
    BY <1>3 DEF Ownership, TypeOK, StatusesAgree, ChecksAgree, Row
  <2>2. Quiet /\ profile' = profile /\ passed' = passed
    BY <1>3 DEF Ownership, Quiet, Standing
  <2> QED  BY <2>1, <2>2, QuietStep
<1>4. ASSUME NEW e \in Evidence, UpsertEvidence(e)  PROVE Good
  <2>1. TypeOK' /\ StatusesAgree'
    BY <1>4 DEF UpsertEvidence, SetCheck, TypeOK, StatusesAgree, Row, ReviewChecks, Status, EvidenceStatus
  <2>2. ChecksAgree'
    BY <1>4 DEF UpsertEvidence, SetCheck, ChecksAgree
  <2>3. Quiet /\ profile' = profile /\ txn.kind = "none"
    BY <1>4 DEF UpsertEvidence, Locked, NoTxn, Quiet, Standing
  <2> QED  BY <2>1, <2>2, <2>3, QuietStep
<1>5. CASE Submit
  <2>1. TypeOK' /\ StatusesAgree' /\ ChecksAgree'
    BY <1>5 DEF Submit, SetStatus, TypeOK, StatusesAgree, ChecksAgree, Row, Status
  <2>2. Quiet /\ profile'.status = "UNDER_REVIEW" /\ passed' = passed /\ txn.kind = "none"
    BY <1>5 DEF Submit, SetStatus, Locked, NoTxn, TypeOK, Quiet, Standing
  <2> QED  BY <2>1, <2>2, QuietStep
<1> QED  BY <1>1, <1>2, <1>3, <1>4, <1>5 DEF InterviewerNext

LEMMA ReviewSteps ==
    ASSUME IInv,
           \/ ReviewLinkedin \/ UnderReview \/ RequestMoreEvidence
           \/ \E e \in Evidence, s \in EvidenceStatus : ReviewEvidence(e, s)
           \/ \E s \in ScreeningStatus : RecordScreening(s)
    PROVE  Good
<1> USE DEF IInv
<1>1. CASE ReviewLinkedin
  <2>1. TypeOK' /\ StatusesAgree' /\ ChecksAgree'
    BY <1>1 DEF ReviewLinkedin, SetCheck, TypeOK, StatusesAgree, ChecksAgree, Row, ReviewChecks
  <2>2. Quiet /\ profile' = profile /\ txn.kind = "none"
    BY <1>1 DEF ReviewLinkedin, Locked, NoTxn, Quiet, Standing
  <2> QED  BY <2>1, <2>2, QuietStep
<1>2. CASE UnderReview \/ RequestMoreEvidence
  <2>1. TypeOK' /\ StatusesAgree' /\ ChecksAgree'
    BY <1>2 DEF UnderReview, RequestMoreEvidence, SetStatus, TypeOK, StatusesAgree, ChecksAgree, Row, Status
  <2>2. profile.status # "VERIFIED" /\ profile'.status # "VERIFIED" /\ profile'.deleted = profile.deleted
    BY <1>2 DEF UnderReview, RequestMoreEvidence, SetStatus, TypeOK, StatusesAgree, Row
  <2>3. Quiet /\ txn.kind = "none"
    BY <1>2, <2>2 DEF UnderReview, RequestMoreEvidence, Locked, NoTxn, Quiet, Standing
  <2> QED  BY <2>1, <2>2, <2>3, QuietStep
<1>3. ASSUME NEW e \in Evidence, NEW s \in EvidenceStatus, ReviewEvidence(e, s)  PROVE Good
  <2>1. TypeOK' /\ StatusesAgree'
    BY <1>3 DEF ReviewEvidence, SetCheck, TypeOK, StatusesAgree, Row, ReviewChecks
  <2>2. ChecksAgree'
    BY <1>3 DEF ReviewEvidence, SetCheck, ChecksAgree
  <2>3. Quiet /\ profile' = profile /\ txn.kind = "none"
    BY <1>3 DEF ReviewEvidence, Locked, NoTxn, Quiet, Standing
  <2> QED  BY <2>1, <2>2, <2>3, QuietStep
<1>4. ASSUME NEW s \in ScreeningStatus, RecordScreening(s)  PROVE Good
  <2>1. TypeOK' /\ StatusesAgree' /\ ChecksAgree'
    BY <1>4 DEF RecordScreening, SetCheck, TypeOK, StatusesAgree, ChecksAgree, Row, ReviewChecks
  <2>2. Quiet /\ profile' = profile /\ txn.kind = "none"
    BY <1>4 DEF RecordScreening, Locked, NoTxn, Quiet, Standing
  <2> QED  BY <2>1, <2>2, QuietStep
<1> QED  BY <1>1, <1>2, <1>3, <1>4

\* A decision starts from a standing that allows it, and ends as it says.
LEMMA DecisionSteps ==
    ASSUME IInv,
           \/ DecideDelete \/ Stamp \/ Commit \/ Abort
           \/ \E kind \in Kind, g \in {"review_verification", "review"} : Decide(kind, g)
    PROVE  Good
<1> USE VerificationAssumption DEF IInv
<1>1. ASSUME NEW kind \in Kind, NEW g \in {"review_verification", "review"}, Decide(kind, g)
      PROVE  Good
  <2>1. /\ txn = NoTxn /\ txn' = [kind |-> kind, at |-> 0]
        /\ ~profile.deleted
        /\ May(kind, profile.status)
        /\ UNCHANGED <<check, profile, row, passed, evidence, screening, clock, events>>
    BY <1>1 DEF Decide, Locked, Decides, StatusesAgree
  <2>2. TypeOK' /\ StatusesAgree' /\ ChecksAgree'
    BY <2>1 DEF TypeOK, StatusesAgree, ChecksAgree, Row
  <2>3. DecisionInv'
    BY <2>1 DEF DecisionInv, May, AllPassed, Kind
  <2>4. L!Lock(kind)
    BY <2>1 DEF L!Lock, L!NoTxn, NoTxn, L!From, Standing, May
  <2>5. Accepted
    BY <2>1 DEF Accepted
  <2> QED  BY <2>2, <2>3, <2>4, <2>5 DEF Good, L!Next, L!Kind, Kind
<1>2. CASE DecideDelete
  <2>1. /\ txn = NoTxn /\ txn' = [kind |-> "deleted", at |-> 0]
        /\ ~profile.deleted
        /\ UNCHANGED <<check, profile, row, passed, evidence, screening, clock, events>>
    BY <1>2 DEF DecideDelete, Locked
  <2>2. TypeOK' /\ StatusesAgree' /\ ChecksAgree' /\ DecisionInv'
    BY <2>1 DEF TypeOK, Kind, StatusesAgree, ChecksAgree, Row, DecisionInv
  <2>3. L!Lock("deleted") /\ Accepted
    BY <2>1 DEF L!Lock, L!NoTxn, NoTxn, L!From, Standing, Accepted
  <2> QED  BY <2>2, <2>3 DEF Good, L!Next, L!Kind
<1>3. CASE Stamp
  <2>1. TypeOK' /\ StatusesAgree' /\ ChecksAgree' /\ DecisionInv'
    BY <1>3 DEF Stamp, TypeOK, StatusesAgree, ChecksAgree, Row, DecisionInv
  <2>2. L!Stamp /\ Accepted
    BY <1>3 DEF Stamp, L!Stamp, Standing, Accepted
  <2> QED  BY <2>1, <2>2 DEF Good, L!Next
<1>4. CASE Commit
  <2>1. txn.kind \in Kind /\ txn \in [kind : Kind, at : 1 .. MaxEvents]
    BY <1>4 DEF Commit, TypeOK, DecisionInv
  <2>2. CASE txn.kind = "deleted"
    <3>1. /\ profile' = [profile EXCEPT !.deleted = TRUE]
          /\ events' = events \cup {txn} /\ txn' = NoTxn /\ txn.at # 0
          /\ UNCHANGED <<row, check, passed, evidence, screening, clock>>
      BY <1>4, <2>2 DEF Commit
    <3>2. TypeOK' /\ StatusesAgree' /\ ChecksAgree' /\ DecisionInv'
      <4>1. TypeOK'
        <5>1. profile' \in [exists : BOOLEAN, status : Status, deleted : BOOLEAN]
          BY <3>1 DEF TypeOK
        <5>2. txn' \in [kind : Kind \cup {"none"}, at : 0 .. MaxEvents]
          BY <3>1 DEF NoTxn
        <5>3. events' \subseteq [kind : Kind, at : 1 .. MaxEvents]
          BY <2>1, <3>1 DEF TypeOK
        <5> QED  BY <3>1, <5>1, <5>2, <5>3 DEF TypeOK
      <4>2. StatusesAgree' /\ ChecksAgree'
        BY <3>1 DEF TypeOK, StatusesAgree, ChecksAgree, Row
      <4>3. DecisionInv'
        BY <3>1 DEF NoTxn, DecisionInv
      <4> QED  BY <4>1, <4>2, <4>3
    <3>3. L!Commit /\ Accepted
      BY <2>2, <3>1 DEF L!Commit, L!NoTxn, NoTxn, L!Becomes, Standing, TypeOK, Accepted
    <3> QED  BY <3>2, <3>3 DEF Good, L!Next
  <2>3. ASSUME NEW s \in {"VERIFIED", "REJECTED", "SUSPENDED"}, txn.kind # "deleted", SetStatus(s),
               s = "VERIFIED" <=> txn.kind = "approved"
        PROVE  Good
    <3>1. /\ profile' = [profile EXCEPT !.status = s] /\ row' = s
          /\ events' = events \cup {txn} /\ txn' = NoTxn /\ txn.at # 0
          /\ UNCHANGED <<check, passed, evidence, screening, clock>>
      BY <1>4, <2>3 DEF Commit, SetStatus
    <3>2. TypeOK' /\ StatusesAgree' /\ ChecksAgree' /\ DecisionInv'
      BY <2>1, <3>1 DEF TypeOK, Status, NoTxn, StatusesAgree, ChecksAgree, Row, DecisionInv
    <3>3. ~profile.deleted
      BY <2>1 DEF DecisionInv, Kind
    <3>4. L!Commit
      BY <2>1, <2>3, <3>1, <3>3 DEF L!Commit, L!NoTxn, NoTxn, L!Becomes, Standing, TypeOK, Kind
    <3>5. Accepted
      BY <2>3, <3>1 DEF Accepted, DecisionInv, TypeOK
    <3> QED  BY <3>2, <3>4, <3>5 DEF Good, L!Next
  <2> QED  BY <1>4, <2>1, <2>2, <2>3 DEF Commit, Kind
<1>5. CASE Abort
  <2>1. TypeOK' /\ StatusesAgree' /\ ChecksAgree' /\ DecisionInv'
    BY <1>5 DEF Abort, TypeOK, NoTxn, StatusesAgree, ChecksAgree, Row, DecisionInv
  <2>2. L!Abort /\ Accepted
    BY <1>5 DEF Abort, L!Abort, L!NoTxn, NoTxn, Standing, Accepted
  <2> QED  BY <2>1, <2>2 DEF Good, L!Next
<1> QED  BY <1>1, <1>2, <1>3, <1>4, <1>5

LEMMA StepInv ==
    ASSUME IInv, [Next]_vars
    PROVE  Good
<1>1. ASSUME UNCHANGED vars  PROVE Good
  <2>1. IInv' /\ Quiet /\ Accepted
    BY <1>1 DEF vars, IInv, TypeOK, StatusesAgree, ChecksAgree, DecisionInv, Row, Quiet, Standing, Accepted
  <2> QED  BY <2>1 DEF Good, Quiet, L!vars
<1> QED  BY <1>1, InterviewerSteps, ReviewSteps, DecisionSteps DEF Next, AdminNext

-----------------------------------------------------------------------------
(* The committed events.                                                   *)

\* Whoever orders the events of the interviewer by their stamps knows the one order they
\* happened in, and finds the deletion at its end.
EventsAreOrdered ==
    \A e, o \in events : /\ e.at = o.at => e = o
                         /\ e.kind = "deleted" => o.at <= e.at

\* The latest event tells the standing only because a decision has stamped its own later
\* than every committed one, and nobody decides about a deleted interviewer.
EventsInv ==
    /\ L!StampsGrow
    /\ L!LatestTellsTheStanding
    /\ \A e, o \in events : e.kind = "deleted" => o.at <= e.at
    /\ txn.at <= clock

LEMMA InitEvents == Init => EventsInv
BY DEF Init, EventsInv, L!StampsGrow, L!LatestTellsTheStanding, NoTxn, Standing

\* Only a commit adds an event, and its event is the latest.
LEMMA CommitEvent ==
    ASSUME IInv, EventsInv, L!Commit
    PROVE  EventsInv'
<1>1. /\ events' = events \cup {txn} /\ txn' = [kind |-> "none", at |-> 0]
      /\ clock' = clock /\ Standing' = L!Becomes(txn.kind)
      /\ txn.at # 0 /\ txn \in [kind : Kind, at : 1 .. MaxEvents]
  BY DEF L!Commit, L!NoTxn, IInv, TypeOK, DecisionInv
<1>2. /\ clock \in Int /\ txn.at \in Int /\ txn.at <= clock
      /\ \A e \in events : e.at \in Int /\ e.at < txn.at
  BY <1>1 DEF IInv, TypeOK, EventsInv, L!StampsGrow
<1>3. L!StampsGrow'
  BY <1>1, <1>2 DEF EventsInv, L!StampsGrow
<1>4. L!LatestTellsTheStanding'
  <2>1. events' # {}
    BY <1>1
  <2>2. ASSUME NEW e \in events', \A o \in events' : o.at <= e.at  PROVE e = txn
    BY <1>1, <1>2, <2>2
  <2> QED  BY <1>1, <2>1, <2>2 DEF L!LatestTellsTheStanding
<1>5. \A e \in events : e.kind # "deleted"
  <2> SUFFICES ASSUME NEW e \in events, e.kind = "deleted"  PROVE FALSE
    OBVIOUS
  <2>1. Standing = "deleted"
    BY DEF EventsInv, L!LatestTellsTheStanding, L!Becomes
  <2>2. profile.deleted
    BY <2>1 DEF Standing
  <2> QED  BY <1>1, <2>2 DEF IInv, DecisionInv, Kind
<1>6. \A e, o \in events' : e.kind = "deleted" => o.at <= e.at
  BY <1>1, <1>2, <1>5
<1> QED  BY <1>1, <1>2, <1>3, <1>4, <1>6 DEF EventsInv

LEMMA StepEvents ==
    ASSUME IInv, EventsInv, [L!Next]_(L!vars)
    PROVE  EventsInv'
<1>1. CASE UNCHANGED <<Standing, clock, events>> /\ txn'.at = 0
  BY <1>1 DEF IInv, TypeOK, EventsInv, L!StampsGrow, L!LatestTellsTheStanding
<1>2. CASE UNCHANGED L!vars
  BY <1>2 DEF L!vars, EventsInv, L!StampsGrow, L!LatestTellsTheStanding
<1>3. CASE L!Stamp
  <2>1. /\ UNCHANGED <<Standing, events>> /\ clock' = clock + 1
        /\ txn'.at = clock + 1 /\ clock \in Int
        /\ \A e \in events : e.at \in Int /\ e.at <= clock
    BY <1>3 DEF L!Stamp, IInv, TypeOK, EventsInv, L!StampsGrow
  <2>2. L!StampsGrow'
    BY <2>1 DEF EventsInv, L!StampsGrow
  <2>3. L!LatestTellsTheStanding'
    BY <2>1 DEF EventsInv, L!LatestTellsTheStanding
  <2> QED  BY <2>1, <2>2, <2>3 DEF EventsInv
<1>4. ASSUME NEW kind \in Kind, L!Lock(kind)  PROVE EventsInv'
  BY <1>1, <1>4 DEF L!Lock
<1>5. CASE L!Abort
  BY <1>1, <1>5 DEF L!Abort, L!NoTxn
<1> QED  BY <1>2, <1>3, <1>4, <1>5, CommitEvent DEF L!Next, L!Kind, Kind

-----------------------------------------------------------------------------
(* Theorems.                                                               *)

\* In every state of every behaviour the rows have their types.
THEOREM TypeCorrect == Spec => []TypeOK
<1>1. IInv => TypeOK
  BY DEF IInv
<1>2. Good => IInv'
  BY DEF Good
<1> QED  BY InitInv, StepInv, <1>1, <1>2, PTL DEF Spec

\* Both generations of endpoints see one status, whichever of them decided.
THEOREM OneStatus == Spec => []StatusesAgree
<1>1. IInv => StatusesAgree
  BY DEF IInv
<1>2. Good => IInv'
  BY DEF Good
<1> QED  BY InitInv, StepInv, <1>1, <1>2, PTL DEF Spec

\* The checks say what evidence and screening say, however these are redone and undone.
THEOREM ChecksTellTheRows == Spec => []ChecksAgree
<1>1. IInv => ChecksAgree
  BY DEF IInv
<1>2. Good => IInv'
  BY DEF Good
<1> QED  BY InitInv, StepInv, <1>1, <1>2, PTL DEF Spec

\* Nobody goes from the review to VERIFIED without every check of the administrators.
THEOREM NobodySlipsThrough == Spec => VerifiedPassesAll
<1>1. Good => IInv' /\ Accepted
  BY DEF Good
<1>2. Accepted => [profile.status = "UNDER_REVIEW" /\ profile'.status = "VERIFIED" =>
                     ReviewChecks \subseteq passed']_vars
  BY DEF Accepted
<1> QED  BY InitInv, StepInv, <1>1, <1>2, PTL DEF Spec, VerifiedPassesAll

\* Contacts, evidence, screenings and both generations of decisions are the lifecycle that
\* the other services rely on: every step is one of its steps or leaves it alone.
THEOREM Refinement == Spec => ImplementsLifecycle
<1>1. Good => IInv' /\ [L!Next]_(L!vars)
  BY DEF Good
<1> QED  BY InitInv, StepInv, <1>1, PTL DEF Spec, ImplementsLifecycle, L!Spec

\* The events committed with the decisions and the standing stay in step.
THEOREM EventsInductive == Spec => []EventsInv
<1>1. Good => IInv' /\ [L!Next]_(L!vars)
  BY DEF Good
<1>2. IInv /\ EventsInv /\ [Next]_vars => EventsInv'
  BY StepInv, <1>1, StepEvents
<1> QED  BY InitInv, InitEvents, StepInv, <1>1, <1>2, PTL DEF Spec

\* Whichever generation of endpoints decided, whatever was aborted: a service that takes
\* the latest event by occurred_at ends with the standing of the profile.
THEOREM LatestEventTells == Spec => []L!LatestTellsTheStanding
<1>1. EventsInv => L!LatestTellsTheStanding
  BY DEF EventsInv
<1> QED  BY EventsInductive, <1>1, PTL

\* The stamps order the events, the deletion last: what auth-service takes for granted
\* of the events it applies (AccountsAssumption).
THEOREM EventsFitAccounts == Spec => []EventsAreOrdered
<1>1. EventsInv => EventsAreOrdered
  BY DEF EventsInv, L!StampsGrow, EventsAreOrdered
<1> QED  BY EventsInductive, <1>1, PTL
=============================================================================

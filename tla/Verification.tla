---------------------------- MODULE Verification ----------------------------
(***************************************************************************)
(* interviewer-service: the review of one interviewer.                     *)
(*                                                                         *)
(* The interviewer proves contacts (how: module Contact), submits evidence *)
(* and asks for the review; administrators review the evidence, record the *)
(* screening call and decide.  Two generations of endpoints decide, one on *)
(* the status of interviewer_verifications, one on the profile's; both     *)
(* write both.                                                             *)
(*                                                                         *)
(* Concurrency.  Handlers lock the profile first, so those that announce   *)
(* nothing are one action.  A change that other services follow is seen in *)
(* steps: lock and decide, stamp the event, commit.  The calls that prove  *)
(* contacts and the interviewer's view do not lock the profile.            *)
(***************************************************************************)
EXTENDS Integers

CONSTANTS
    Kinds,          \* the ownership checks of module Contact
    Evidence,       \* the types of evidence the interviewer may submit
    MaxEvents       \* bound: the lifecycle events

ASSUME VerificationAssumption == MaxEvents \in Nat

VARIABLES
    profile,    \* table interviewer_profiles
    row,        \* interviewer_verifications.status, "absent" without a row
    check,      \* table verification_checks: the ownership checks
    passed,     \* table verification_checks: the other checks that passed
    evidence,   \* table interviewer_verification_evidence
    screening,  \* table interviewer_screening_calls
    txn,        \* the decision that holds the profile; at is 0 until its event is
                \* stamped
    clock,      \* the stamps given so far: occurred_at
    events      \* the committed lifecycle rows of outbox_events

vars == <<profile, row, check, passed, evidence, screening, txn, clock, events>>

-----------------------------------------------------------------------------
(* Rows.                                                                   *)

Status == {"PENDING", "UNDER_REVIEW", "VERIFIED", "REJECTED", "SUSPENDED"}

ReviewChecks == {"email_verified", "linkedin_reviewed",
                 "professional_evidence_reviewed", "screening_call_passed"}

EvidenceStatus == {"pending", "verified", "rejected"}

ScreeningStatus == {"not_scheduled", "pending", "passed", "failed"}

Kind == {"approved", "rejected", "suspended", "deleted"}

TypeOK ==
    /\ profile \in [exists : BOOLEAN, status : Status, deleted : BOOLEAN]
    /\ row \in Status \cup {"absent"}
    /\ check \in [Kinds -> BOOLEAN]
    /\ passed \subseteq ReviewChecks
    /\ evidence \in [Evidence -> EvidenceStatus \cup {"absent"}]
    /\ screening \in ScreeningStatus \cup {"absent"}
    /\ txn \in [kind : Kind \cup {"none"}, at : 0 .. MaxEvents]
    /\ clock \in 0 .. MaxEvents
    /\ events \subseteq [kind : Kind, at : 1 .. MaxEvents]

NoTxn == [kind |-> "none", at |-> 0]

Init ==
    /\ profile = [exists |-> FALSE, status |-> "PENDING", deleted |-> FALSE]
    /\ row = "absent"
    /\ check = [k \in Kinds |-> FALSE]
    /\ passed = {}
    /\ evidence = [e \in Evidence |-> "absent"]
    /\ screening = "absent"
    /\ txn = NoTxn
    /\ clock = 0
    /\ events = {}

-----------------------------------------------------------------------------
(* Helpers.                                                                *)

\* Mutant: the profile is read without FOR UPDATE.
Unlocked == profile.exists /\ ~profile.deleted

\* _locked_profile: the row is there, not deleted, and nobody holds it.
Locked == profile.exists /\ ~profile.deleted /\ txn = NoTxn

\* _verification: the row, inserted if there is none.
Row == IF row = "absent" THEN "PENDING" ELSE row

OwnershipPassed == "email_verified" \in passed /\ \A k \in Kinds : check[k]

\* _set_check
SetCheck(c, pass) == passed' = IF pass THEN passed \cup {c} ELSE passed \ {c}

\* Mutant: the status of the row is forgotten.
SetStatusOfProfile(s) ==
    /\ profile' = [profile EXCEPT !.status = s]
    /\ row' = Row

SetStatus(s) ==
    /\ profile' = [profile EXCEPT !.status = s]
    /\ row' = s

-----------------------------------------------------------------------------
(* The interviewer.                                                        *)

\* upsert_profile: only the first call matters here.
CreateProfile ==
    /\ ~profile.exists
    /\ profile' = [profile EXCEPT !.exists = TRUE]
    /\ UNCHANGED <<check, row, passed, evidence, screening, txn, clock, events>>

\* GET verification inserts the row, and contact_verification commits it with the
\* check of the account's email, which the gateway vouches for.  It asks for the profile
\* without locking it.
SeeVerification ==
    /\ profile.exists
    /\ ~profile.deleted
    /\ row' = Row
    /\ SetCheck("email_verified", TRUE)
    /\ UNCHANGED <<check, profile, evidence, screening, txn, clock, events>>

\* A call of module Contact confirms or changes a value; it asks for the profile only.
Ownership(k) ==
    /\ profile.exists
    /\ check' = [check EXCEPT ![k] = ~@]
    /\ UNCHANGED <<profile, row, passed, evidence, screening, txn, clock, events>>

\* upsert_evidence: a new reference is pending again.
UpsertEvidence(e) ==
    /\ Locked
    /\ Row \notin {"VERIFIED", "SUSPENDED"}
    /\ row' = Row
    /\ evidence' = [evidence EXCEPT ![e] = "pending"]
    /\ SetCheck("professional_evidence_reviewed", \E o \in Evidence : evidence'[o] = "verified")
    /\ UNCHANGED <<check, profile, screening, txn, clock, events>>

\* submit_verification
Submit ==
    /\ Locked
    /\ OwnershipPassed
    /\ profile.status \in {"PENDING", "REJECTED"}
    /\ SetStatus("UNDER_REVIEW")
    /\ UNCHANGED <<check, passed, evidence, screening, txn, clock, events>>

-----------------------------------------------------------------------------
(* The administrators.                                                     *)

ReviewLinkedin ==
    /\ Locked
    /\ SetCheck("linkedin_reviewed", TRUE)
    /\ UNCHANGED <<check, profile, row, evidence, screening, txn, clock, events>>

ReviewEvidence(e, s) ==
    /\ Locked
    /\ evidence[e] # "absent"
    /\ evidence' = [evidence EXCEPT ![e] = s]
    /\ SetCheck("professional_evidence_reviewed", \E o \in Evidence : evidence'[o] = "verified")
    /\ UNCHANGED <<check, profile, row, screening, txn, clock, events>>

\* record_screening: a result needs a call that is scheduled.
RecordScreening(s) ==
    /\ Locked
    /\ IF screening = "absent" THEN s = "pending"
       ELSE s \in {"passed", "failed"} => screening = "pending"
    /\ screening' = s
    /\ SetCheck("screening_call_passed", s = "passed")
    /\ UNCHANGED <<check, profile, row, evidence, txn, clock, events>>

\* review_verification: the two decisions that no other service follows.
UnderReview ==
    /\ Locked
    /\ Row \in {"PENDING", "REJECTED"}
    /\ SetStatus("UNDER_REVIEW")
    /\ UNCHANGED <<check, passed, evidence, screening, txn, clock, events>>

RequestMoreEvidence ==
    /\ Locked
    /\ Row = "UNDER_REVIEW"
    /\ SetStatus("PENDING")
    /\ UNCHANGED <<check, passed, evidence, screening, txn, clock, events>>

-----------------------------------------------------------------------------
(* Decisions that are announced: by review_verification on the row, by      *)
(* review and reactivate on the profile, and by delete_interviewer.         *)

AllPassed == ReviewChecks \subseteq passed /\ \A k \in Kinds : check[k]

\* The status that the endpoint of generation g looks at.
Decides(g) == IF g = "review_verification" THEN Row ELSE profile.status

\* Mutant: a suspension may be repeated.
MayTwice(kind, s) ==
    \/ kind = "approved" /\ s = "UNDER_REVIEW" /\ AllPassed
    \/ kind = "approved" /\ s = "SUSPENDED"
    \/ kind = "rejected" /\ s = "UNDER_REVIEW"
    \/ kind = "suspended" /\ s \in {"VERIFIED", "SUSPENDED"}

\* What is decided from which status; verify asks for every check, reactivate for
\* none.
May(kind, s) ==
    \/ kind = "approved" /\ s = "UNDER_REVIEW" /\ AllPassed
    \/ kind = "approved" /\ s = "SUSPENDED"
    \/ kind = "rejected" /\ s = "UNDER_REVIEW"
    \/ kind = "suspended" /\ s = "VERIFIED"

\* Lock the profile and decide.
Decide(kind, g) ==
    /\ Locked
    /\ May(kind, Decides(g))
    /\ txn' = [kind |-> kind, at |-> 0]
    /\ UNCHANGED <<check, profile, row, passed, evidence, screening, clock, events>>

\* delete_interviewer: booking-service has answered that no booking is active.  An
\* interviewer who is deleted already is returned as is.
DecideDelete ==
    /\ Locked
    /\ txn' = [kind |-> "deleted", at |-> 0]
    /\ UNCHANGED <<check, profile, row, passed, evidence, screening, clock,
                   events>>

Stamp ==
    /\ txn.kind # "none"
    /\ txn.at = 0
    /\ clock < MaxEvents
    /\ clock' = clock + 1
    /\ txn' = [txn EXCEPT !.at = clock + 1]
    /\ UNCHANGED <<check, profile, row, passed, evidence, screening, events>>

Commit ==
    /\ txn.at # 0
    /\ IF txn.kind = "deleted"
       THEN profile' = [profile EXCEPT !.deleted = TRUE] /\ UNCHANGED row
       ELSE SetStatus(CASE txn.kind = "approved" -> "VERIFIED"
                        [] txn.kind = "rejected" -> "REJECTED"
                        [] txn.kind = "suspended" -> "SUSPENDED")
    /\ events' = events \cup {txn}
    /\ txn' = NoTxn
    /\ UNCHANGED <<check, passed, evidence, screening, clock>>

\* The process dies or booking-service does not answer: nothing is changed.
Abort ==
    /\ txn.kind # "none"
    /\ txn' = NoTxn
    /\ UNCHANGED <<check, profile, row, passed, evidence, screening, clock,
                   events>>

-----------------------------------------------------------------------------

InterviewerNext ==
    \/ CreateProfile \/ SeeVerification \/ Submit
    \/ \E k \in Kinds : Ownership(k)
    \/ \E e \in Evidence : UpsertEvidence(e)

AdminNext ==
    \/ ReviewLinkedin \/ UnderReview \/ RequestMoreEvidence
    \/ DecideDelete \/ Stamp \/ Commit \/ Abort
    \/ \E e \in Evidence, s \in EvidenceStatus : ReviewEvidence(e, s)
    \/ \E s \in ScreeningStatus : RecordScreening(s)
    \/ \E kind \in Kind, g \in {"review_verification", "review"} : Decide(kind, g)

Next == InterviewerNext \/ AdminNext

Spec == Init /\ [][Next]_vars

-----------------------------------------------------------------------------
(* Properties.                                                             *)

\* The two generations of endpoints see the same status, whichever was used.
StatusesAgree == Row = profile.status

\* The checks of evidence and screening say what the rows say, in whatever order
\* evidence is replaced and reviewed and screenings are recorded, repeated or undone.
ChecksAgree ==
    /\ "professional_evidence_reviewed" \in passed
          <=> \E e \in Evidence : evidence[e] = "verified"
    /\ "screening_call_passed" \in passed <=> screening = "passed"

\* Whoever goes from the review to VERIFIED passes every check that administrators
\* make at that moment, although evidence and screening may be undone meanwhile.
VerifiedPassesAll ==
    [][profile.status = "UNDER_REVIEW" /\ profile'.status = "VERIFIED" =>
          ReviewChecks \subseteq passed']_vars

\* The standing that other services follow.
Standing == IF profile.deleted THEN "deleted"
            ELSE IF profile.status = "VERIFIED" THEN "verified" ELSE "unverified"

L == INSTANCE Lifecycle WITH standing <- Standing

\* Whatever else happens to the interviewer, the standing changes only with the event
\* that announces it, one change after the other, and a deletion is the last.
ImplementsLifecycle == L!Spec
=============================================================================

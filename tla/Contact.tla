------------------------------ MODULE Contact -------------------------------
(***************************************************************************)
(* interviewer-service: proof of ownership of an interviewer's mobile      *)
(* number and company email.  One interviewer; nothing here crosses over   *)
(* to another.                                                             *)
(*                                                                         *)
(* A request stores the value and mails a secret; an answer that carries   *)
(* the secret marks the value verified.  The ownership check that the      *)
(* review of the interviewer asks for is a row of its own.                 *)
(*                                                                         *)
(* Concurrency.  Requests read the contact row without a lock and decide   *)
(* on that copy; an UPDATE holds the row until the commit and writes only  *)
(* the columns whose value differs from the copy.  An answer locks its     *)
(* challenge.                                                              *)
(***************************************************************************)
EXTENDS Integers, FiniteSets

CONSTANTS
    Kinds,          \* {"mobile", "company_email"}
    Values,         \* numbers and addresses, in their canonical form
    Requests,       \* bound: the calls that run at one time
    MaxChallenges,  \* bound: rows of contact_verification_challenges
    MaxAttempts,    \* contact_max_attempts
    None

ASSUME ContactAssumption ==
    /\ MaxChallenges \in Nat
    /\ MaxAttempts \in Nat
    /\ None \notin Kinds \cup Values

\* Challenges in the order of created_at.
Challenges == 1 .. MaxChallenges

VARIABLES
    contact,    \* table interviewer_contact_verifications
    check,      \* table verification_checks: the ownership checks that passed
    challenge,  \* table contact_verification_challenges
    request,    \* the running calls
    answers,    \* history: per challenge, the answers it got
    confirmed,  \* history: per kind, the value last confirmed
    overtaken,  \* history: kinds whose value changed under a running answer
    stale       \* history: kinds confirmed behind the back of a change

vars == <<contact, check, challenge, request, answers, confirmed, overtaken, stale>>

-----------------------------------------------------------------------------
(* Rows and calls.                                                         *)

ContactRow == [exists : BOOLEAN, value : [Kinds -> Values \cup {None}],
               verified : [Kinds -> BOOLEAN]]

ChallengeRow == [kind : Kinds \cup {None}, target : Values \cup {None},
                 consumed : BOOLEAN, attempts : Nat]

\* ask: the contact row is read; asked: what is written to it waits for the commit;
\* answer: the challenge is locked and the contact row is read.
Request == [op : {"idle", "ask", "asked", "answer"}, kind : Kinds \cup {None},
            value : Values \cup {None}, seen : ContactRow,
            challenge : Challenges \cup {0}, right : BOOLEAN]

TypeOK ==
    /\ contact \in ContactRow
    /\ check \in [Kinds -> BOOLEAN]
    /\ challenge \in [Challenges -> ChallengeRow]
    /\ request \in [Requests -> Request]
    /\ answers \in [Challenges -> Nat]
    /\ confirmed \in [Kinds -> Values \cup {None}]
    /\ overtaken \subseteq Kinds
    /\ stale \subseteq Kinds

NoContact == [exists |-> FALSE, value |-> [k \in Kinds |-> None],
              verified |-> [k \in Kinds |-> FALSE]]

Idle == [op |-> "idle", kind |-> None, value |-> None, seen |-> NoContact,
         challenge |-> 0, right |-> FALSE]

Init ==
    /\ contact = NoContact
    /\ check = [k \in Kinds |-> FALSE]
    /\ challenge = [h \in Challenges |-> [kind |-> None, target |-> None,
                                          consumed |-> FALSE, attempts |-> 0]]
    /\ request = [q \in Requests |-> Idle]
    /\ answers = [h \in Challenges |-> 0]
    /\ confirmed = [k \in Kinds |-> None]
    /\ overtaken = {}
    /\ stale = {}

-----------------------------------------------------------------------------
(* Helpers.                                                                *)

Created == {h \in Challenges : challenge[h].kind # None}

Open(k) == {h \in Challenges : challenge[h].kind = k /\ ~challenge[h].consumed}

\* The latest open challenge of kind k, 0 if there is none.
Latest(k) ==
    LET last == {h \in Open(k) : \A o \in Open(k) : o <= h}
    IN IF last = {} THEN 0 ELSE CHOOSE h \in last : TRUE

\* The value differs from the one the call has read.
Changes(q) == request[q].seen.value[request[q].kind] # request[q].value

\* Call q has written the contact row and not committed yet.
HoldsRow(q) == request[q].op = "asked" /\ (Changes(q) \/ ~request[q].seen.exists)

RowFree(q) == \A o \in Requests \ {q} : ~HoldsRow(o)

\* An answer has locked challenge h.
Locked(h) == \E q \in Requests : request[q].op = "answer" /\ request[q].challenge = h

Return(q) == request' = [request EXCEPT ![q] = Idle]

-----------------------------------------------------------------------------
(* request_mobile_verification, request_company_email_verification          *)

AskRead(q, k, v) ==
    /\ request[q].op = "idle"
    /\ request' = [request EXCEPT ![q] = [Idle EXCEPT !.op = "ask", !.kind = k,
                                            !.value = v, !.seen = contact]]
    /\ UNCHANGED <<contact, check, challenge, answers, confirmed, overtaken, stale>>

\* Flush: insert the row if there was none, write the changed value, and look for
\* the latest open challenge.  A second insert of the row fails.
AskFlush(q) ==
    /\ request[q].op = "ask"
    /\ RowFree(q)
    /\ request[q].seen.exists \/ ~contact.exists
    /\ request' = [request EXCEPT ![q].op = "asked",
                                  ![q].challenge = Latest(request[q].kind)]
    /\ UNCHANGED <<contact, check, challenge, answers, confirmed, overtaken, stale>>

\* Mutant: the changed value keeps its mark.
WrittenKeepingMark(q) ==
    LET k == request[q].kind
    IN [contact EXCEPT !.exists = TRUE, !.value[k] = request[q].value]

\* The contact row after the UPDATE.  The mark is cleared only if the copy has it.
Written(q) ==
    LET k == request[q].kind
    IN [contact EXCEPT !.exists = TRUE, !.value[k] = request[q].value,
            !.verified[k] = @ /\ ~(Changes(q) /\ request[q].seen.verified[k])]

\* The latest open challenge is used up by its successor.
Consumed(q, h) == IF h = request[q].challenge THEN [challenge[h] EXCEPT !.consumed = TRUE]
                  ELSE challenge[h]

\* Use up the latest open challenge, unless its cooldown refuses (Fail), and insert
\* a new one.
AskCommit(q, n) ==
    LET k == request[q].kind
        v == request[q].value
    IN /\ request[q].op = "asked"
       /\ ~Locked(request[q].challenge)
       /\ n \notin Created
       /\ \A h \in Challenges : h < n => h \in Created
       /\ challenge' = [h \in Challenges |->
              IF h = n THEN [kind |-> k, target |-> v, consumed |-> FALSE, attempts |-> 0]
              ELSE Consumed(q, h)]
       /\ contact' = IF HoldsRow(q) THEN Written(q) ELSE contact
       /\ check' = IF Changes(q) THEN [check EXCEPT ![k] = FALSE] ELSE check
       /\ confirmed' = IF Changes(q) THEN [confirmed EXCEPT ![k] = None] ELSE confirmed
       /\ overtaken' = IF Changes(q) /\ \E o \in Requests :
                              /\ request[o].op = "answer"
                              /\ request[o].right
                              /\ request[o].kind = k
                       THEN overtaken \cup {k} ELSE overtaken
       /\ stale' = IF Changes(q) /\ contact.verified[k] /\ ~request[q].seen.verified[k]
                   THEN stale \cup {k} ELSE stale
       /\ Return(q)
       /\ UNCHANGED answers

-----------------------------------------------------------------------------
(* verify_contact_challenge                                                 *)

\* The challenge is not locked, open, and has attempts left.  An expired one, as any
\* that fails here, is refused without a change.
MayAnswer(h) ==
    /\ ~Locked(h)
    /\ h \in Created
    /\ ~challenge[h].consumed
    /\ challenge[h].attempts < MaxAttempts

\* Mutant: the fingerprint is not compared.
FitsAnything(h) == contact.exists

\* The challenge is for the value the contact row holds.
Fits(h) == contact.value[challenge[h].kind] = challenge[h].target

\* Lock the challenge; with the right secret, read the contact row too.  A secret
\* for a value that has changed is refused without a change.
AnswerRead(q, h, right) ==
    /\ request[q].op = "idle"
    /\ MayAnswer(h)
    /\ right => Fits(h)
    /\ request' = [request EXCEPT ![q] =
            [Idle EXCEPT !.op = "answer", !.kind = challenge[h].kind, !.challenge = h,
                         !.right = right, !.seen = contact]]
    /\ UNCHANGED <<contact, check, challenge, answers, confirmed, overtaken, stale>>

\* A wrong secret costs an attempt.
AnswerWrong(q) ==
    LET h == request[q].challenge
    IN /\ request[q].op = "answer"
       /\ ~request[q].right
       /\ challenge' = [challenge EXCEPT ![h].attempts = @ + 1]
       /\ answers' = [answers EXCEPT ![h] = @ + 1]
       /\ Return(q)
       /\ UNCHANGED <<contact, check, confirmed, overtaken, stale>>

\* The right one marks whatever value the row holds now, and passes the check.
AnswerRight(q) ==
    LET h == request[q].challenge
        k == request[q].kind
    IN /\ request[q].op = "answer"
       /\ request[q].right
       /\ RowFree(q)
       /\ challenge' = [challenge EXCEPT ![h].attempts = @ + 1, ![h].consumed = TRUE]
       /\ contact' = [contact EXCEPT !.verified[k] = TRUE]
       /\ check' = [check EXCEPT ![k] = TRUE]
       /\ answers' = [answers EXCEPT ![h] = @ + 1]
       /\ confirmed' = [confirmed EXCEPT ![k] = challenge[h].target]
       /\ Return(q)
       /\ UNCHANGED <<overtaken, stale>>

-----------------------------------------------------------------------------

\* The cooldown or the second insert of the row refuses, PostgreSQL ends a deadlock,
\* or the process dies: the transaction is rolled back.
Fail(q) ==
    /\ request[q].op # "idle"
    /\ Return(q)
    /\ UNCHANGED <<contact, check, challenge, answers, confirmed, overtaken, stale>>

Next ==
    \E q \in Requests :
        \/ \E k \in Kinds, v \in Values : AskRead(q, k, v)
        \/ \E h \in Challenges : AskCommit(q, h)
        \/ \E h \in Challenges, right \in BOOLEAN : AnswerRead(q, h, right)
        \/ AskFlush(q) \/ AnswerWrong(q) \/ AnswerRight(q) \/ Fail(q)

Spec == Init /\ [][Next]_vars

-----------------------------------------------------------------------------
(* Properties.                                                             *)

\* The check of a kind passes only for the value that is stored: the one whose
\* secret came back.  It can fail only where two open challenges let a change commit
\* while an answer to the other one runs.
ConfirmedValue ==
    \A k \in Kinds : check[k] /\ k \notin overtaken => confirmed[k] = contact.value[k]

\* What the interviewer is shown (the mark of the row) is what the review asks for
\* (the check), except after a change that had read the row before it was marked.
CheckAgreesWithMark ==
    \A k \in Kinds : k \notin stale => check[k] = contact.verified[k]

\* Answers at the same time cannot share an attempt: every answer is counted and
\* their number is bounded.
AttemptsBounded ==
    \A h \in Challenges : answers[h] = challenge[h].attempts /\ answers[h] <= MaxAttempts
=============================================================================

--------------------------- MODULE ContactProofs ----------------------------
(***************************************************************************)
(* Theorems about Contact for every set of kinds, values and requests and  *)
(* every number of challenges and attempts.                                *)
(***************************************************************************)
EXTENDS Contact, TLAPS

-----------------------------------------------------------------------------

\* A row that is not there holds no value, neither the table's nor a copy of it.
RowsFit ==
    /\ ~contact.exists => contact.value = [k \in Kinds |-> None]
    /\ \A q \in Requests :
          ~request[q].seen.exists => request[q].seen.value = [k \in Kinds |-> None]

\* A request to store a value has one of a kind.
AsksFit ==
    \A q \in Requests : request[q].op \in {"ask", "asked"} =>
        request[q].kind \in Kinds /\ request[q].value \in Values

\* An answer has its challenge for itself, with an attempt left; the right one is for the
\* value of the row, unless a change has overtaken it.
AnswersFit ==
    \A q \in Requests : request[q].op = "answer" =>
        LET h == request[q].challenge
            k == request[q].kind
        IN /\ h \in Challenges /\ k \in Kinds
           /\ challenge[h].kind = k
           /\ challenge[h].attempts < MaxAttempts
           /\ \A o \in Requests \ {q} : request[o].op = "answer" => request[o].challenge # h
           /\ request[q].right => challenge[h].target = contact.value[k] \/ k \in overtaken

\* A challenge that is not there yet has had no answer.
FreshUnanswered == \A h \in Challenges : challenge[h].kind = None => answers[h] = 0

IInv ==
    /\ TypeOK
    /\ RowsFit /\ AsksFit /\ AnswersFit /\ FreshUnanswered
    /\ AttemptsBounded /\ CheckAgreesWithMark /\ ConfirmedValue

LEMMA IdleRequest == Idle \in Request /\ Idle.op = "idle"
BY DEF Idle, Request, NoContact, ContactRow

LEMMA InitInv == Init => IInv
<1> SUFFICES ASSUME Init PROVE IInv
  OBVIOUS
<1> USE ContactAssumption DEF Init
<1>1. TypeOK
  BY IdleRequest DEF TypeOK, NoContact, ContactRow, ChallengeRow
<1>2. RowsFit /\ AsksFit /\ AnswersFit /\ FreshUnanswered
  BY DEF RowsFit, AsksFit, AnswersFit, FreshUnanswered, Idle, NoContact
<1>3. AttemptsBounded /\ CheckAgreesWithMark /\ ConfirmedValue
  BY DEF AttemptsBounded, CheckAgreesWithMark, ConfirmedValue, NoContact
<1> QED  BY <1>1, <1>2, <1>3 DEF IInv

\* A step that changes a request and nothing else.
LEMMA RequestStep ==
    ASSUME IInv, NEW q \in Requests, NEW r \in Request,
           request' = [request EXCEPT ![q] = r],
           UNCHANGED <<contact, check, challenge, answers, confirmed, overtaken, stale>>,
           ~r.seen.exists => r.seen.value = [k \in Kinds |-> None],
           r.op \in {"ask", "asked"} => r.kind \in Kinds /\ r.value \in Values,
           r.op = "answer" =>
               /\ r.challenge \in Challenges /\ r.kind \in Kinds
               /\ challenge[r.challenge].kind = r.kind
               /\ challenge[r.challenge].attempts < MaxAttempts
               /\ \A o \in Requests \ {q} :
                     request[o].op = "answer" => request[o].challenge # r.challenge
               /\ r.right => challenge[r.challenge].target = contact.value[r.kind]
    PROVE  IInv'
<1>1. TypeOK'
  BY DEF IInv, TypeOK
<1>2. RowsFit' /\ AsksFit'
  BY DEF IInv, TypeOK, RowsFit, AsksFit
<1>3. AnswersFit'
  BY DEF IInv, TypeOK, AnswersFit
<1>4. FreshUnanswered' /\ AttemptsBounded' /\ CheckAgreesWithMark' /\ ConfirmedValue'
  BY DEF IInv, FreshUnanswered, AttemptsBounded, CheckAgreesWithMark, ConfirmedValue
<1> QED  BY <1>1, <1>2, <1>3, <1>4 DEF IInv

LEMMA ReadSteps ==
    ASSUME IInv, NEW q \in Requests,
           \/ \E k \in Kinds, v \in Values : AskRead(q, k, v)
           \/ AskFlush(q)
           \/ \E h \in Challenges, right \in BOOLEAN : AnswerRead(q, h, right)
           \/ Fail(q)
    PROVE  IInv'
<1> USE ContactAssumption
<1>1. ASSUME NEW k \in Kinds, NEW v \in Values, AskRead(q, k, v)  PROVE IInv'
  <2> DEFINE r == [Idle EXCEPT !.op = "ask", !.kind = k, !.value = v, !.seen = contact]
  <2>1. r \in Request /\ r.op = "ask" /\ r.kind = k /\ r.value = v /\ r.seen = contact
    BY IdleRequest DEF Idle, Request, IInv, TypeOK
  <2>2. request' = [request EXCEPT ![q] = r]
    BY <1>1 DEF AskRead
  <2>3. UNCHANGED <<contact, check, challenge, answers, confirmed, overtaken, stale>>
    BY <1>1 DEF AskRead
  <2>4. ~contact.exists => contact.value = [j \in Kinds |-> None]
    BY DEF IInv, RowsFit
  <2> HIDE DEF r
  <2> QED  BY <2>1, <2>2, <2>3, <2>4, RequestStep
<1>2. ASSUME AskFlush(q)  PROVE IInv'
  <2> DEFINE r == [request[q] EXCEPT !.op = "asked", !.challenge = Latest(request[q].kind)]
  <2>1. request[q] \in Request /\ request[q].op = "ask" /\ request[q].kind \in Kinds
        /\ request[q].value \in Values
    BY <1>2 DEF AskFlush, IInv, TypeOK, AsksFit
  <2>2. Latest(request[q].kind) \in Challenges \cup {0}
    BY DEF Latest, Open
  <2>3. r \in Request /\ r.op = "asked" /\ r.kind = request[q].kind /\ r.value = request[q].value
        /\ r.seen = request[q].seen
    BY <2>1, <2>2 DEF Request
  <2>4. /\ request' = [request EXCEPT ![q] = r]
        /\ UNCHANGED <<contact, check, challenge, answers, confirmed, overtaken, stale>>
    BY <1>2, <2>1 DEF AskFlush, IInv, TypeOK
  <2>5. ~r.seen.exists => r.seen.value = [j \in Kinds |-> None]
    BY <2>3 DEF IInv, RowsFit
  <2> HIDE DEF r
  <2> QED  BY <2>1, <2>3, <2>4, <2>5, RequestStep
<1>3. ASSUME NEW h \in Challenges, NEW right \in BOOLEAN, AnswerRead(q, h, right)  PROVE IInv'
  <2> DEFINE r == [Idle EXCEPT !.op = "answer", !.kind = challenge[h].kind, !.challenge = h,
                               !.right = right, !.seen = contact]
  <2>1. challenge[h].kind \in Kinds /\ challenge[h].attempts < MaxAttempts
    BY <1>3 DEF AnswerRead, MayAnswer, Created, IInv, TypeOK, ChallengeRow
  <2>2. r \in Request /\ r.op = "answer" /\ r.kind = challenge[h].kind /\ r.seen = contact
        /\ r.challenge = h /\ r.right = right
    BY <2>1, IdleRequest DEF Idle, Request, IInv, TypeOK
  <2>3. /\ request' = [request EXCEPT ![q] = r]
        /\ UNCHANGED <<contact, check, challenge, answers, confirmed, overtaken, stale>>
        /\ right => challenge[h].target = contact.value[challenge[h].kind]
        /\ \A o \in Requests : request[o].op = "answer" => request[o].challenge # h
    BY <1>3 DEF AnswerRead, MayAnswer, Locked, Fits
  <2>4. ~contact.exists => contact.value = [j \in Kinds |-> None]
    BY DEF IInv, RowsFit
  <2> HIDE DEF r
  <2> QED  BY <2>1, <2>2, <2>3, <2>4, RequestStep
<1>4. ASSUME Fail(q)  PROVE IInv'
  <2>1. Idle.seen.value = [j \in Kinds |-> None]
    BY DEF Idle, NoContact
  <2> QED  BY <1>4, <2>1, IdleRequest, RequestStep DEF Fail, Return
<1> QED  BY <1>1, <1>2, <1>3, <1>4

-----------------------------------------------------------------------------
(* Steps that change challenges.                                           *)

\* A wrong answer costs the attempt it has.
LEMMA AnswerWrongInv ==
    ASSUME IInv, NEW q \in Requests, AnswerWrong(q)
    PROVE  IInv'
<1> USE ContactAssumption
<1> DEFINE h == request[q].challenge
<1>1. /\ h \in Challenges /\ request[q].op = "answer"
      /\ challenge[h].attempts < MaxAttempts /\ challenge[h].attempts \in Nat
      /\ answers[h] = challenge[h].attempts
      /\ challenge[h].kind # None
      /\ \A o \in Requests \ {q} : request[o].op = "answer" => request[o].challenge # h
  BY DEF AnswerWrong, IInv, TypeOK, ChallengeRow, AnswersFit, AttemptsBounded
<1>2. /\ challenge' = [challenge EXCEPT ![h].attempts = @ + 1]
      /\ answers' = [answers EXCEPT ![h] = @ + 1]
      /\ request' = [request EXCEPT ![q] = Idle]
      /\ UNCHANGED <<contact, check, confirmed, overtaken, stale>>
  BY DEF AnswerWrong, Return
<1> HIDE DEF h
<1>3. /\ \A c \in Challenges : /\ challenge'[c].kind = challenge[c].kind
                               /\ challenge'[c].target = challenge[c].target
                               /\ c # h => challenge'[c] = challenge[c] /\ answers'[c] = answers[c]
      /\ challenge'[h].attempts = challenge[h].attempts + 1
      /\ answers'[h] = answers[h] + 1
      /\ challenge' \in [Challenges -> ChallengeRow]
      /\ answers' \in [Challenges -> Nat]
  BY <1>1, <1>2 DEF IInv, TypeOK, ChallengeRow
<1>4. TypeOK'
  BY <1>2, <1>3, IdleRequest DEF IInv, TypeOK
<1>5. RowsFit' /\ AsksFit'
  BY <1>2, IdleRequest DEF IInv, TypeOK, RowsFit, AsksFit, Idle, NoContact
<1>6. AnswersFit'
  BY <1>1, <1>2, <1>3, IdleRequest DEF IInv, TypeOK, AnswersFit
<1>7. FreshUnanswered' /\ AttemptsBounded'
  BY <1>1, <1>3 DEF IInv, TypeOK, FreshUnanswered, AttemptsBounded
<1>8. CheckAgreesWithMark' /\ ConfirmedValue'
  BY <1>2 DEF IInv, CheckAgreesWithMark, ConfirmedValue
<1> QED  BY <1>4, <1>5, <1>6, <1>7, <1>8 DEF IInv

\* The right answer marks the value it was asked for.
LEMMA AnswerRightInv ==
    ASSUME IInv, NEW q \in Requests, AnswerRight(q)
    PROVE  IInv'
<1> USE ContactAssumption
<1> DEFINE h == request[q].challenge
           k == request[q].kind
<1>1. /\ h \in Challenges /\ k \in Kinds /\ request[q].op = "answer"
      /\ challenge[h].attempts < MaxAttempts /\ challenge[h].attempts \in Nat
      /\ answers[h] = challenge[h].attempts
      /\ challenge[h].kind # None
      /\ challenge[h].target = contact.value[k] \/ k \in overtaken
      /\ \A o \in Requests \ {q} : request[o].op = "answer" => request[o].challenge # h
  BY DEF AnswerRight, IInv, TypeOK, ChallengeRow, AnswersFit, AttemptsBounded
<1>2. /\ challenge' = [challenge EXCEPT ![h].attempts = @ + 1, ![h].consumed = TRUE]
      /\ contact' = [contact EXCEPT !.verified[k] = TRUE]
      /\ check' = [check EXCEPT ![k] = TRUE]
      /\ answers' = [answers EXCEPT ![h] = @ + 1]
      /\ confirmed' = [confirmed EXCEPT ![k] = challenge[h].target]
      /\ request' = [request EXCEPT ![q] = Idle]
      /\ UNCHANGED <<overtaken, stale>>
  BY DEF AnswerRight, Return
<1> HIDE DEF h, k
<1>3. /\ \A c \in Challenges : /\ challenge'[c].kind = challenge[c].kind
                               /\ challenge'[c].target = challenge[c].target
                               /\ c # h => challenge'[c] = challenge[c] /\ answers'[c] = answers[c]
      /\ challenge'[h].attempts = challenge[h].attempts + 1
      /\ answers'[h] = answers[h] + 1
      /\ challenge' \in [Challenges -> ChallengeRow]
      /\ answers' \in [Challenges -> Nat]
  <2>1. /\ challenge[h] \in ChallengeRow /\ challenge \in [Challenges -> ChallengeRow]
        /\ answers \in [Challenges -> Nat]
    BY <1>1 DEF IInv, TypeOK
  <2> DEFINE row == [challenge[h] EXCEPT !.attempts = challenge[h].attempts + 1, !.consumed = TRUE]
  <2>2. challenge' = [challenge EXCEPT ![h] = row]
    BY <1>1, <1>2, <2>1
  <2>3. PICK m \in Nat : m = challenge[h].attempts + 1
    BY <1>1
  <2>4. row = [[challenge[h] EXCEPT !.attempts = m] EXCEPT !.consumed = TRUE]
    BY <2>1, <2>3 DEF ChallengeRow
  <2>5. [challenge[h] EXCEPT !.attempts = m] \in ChallengeRow
    BY <2>1 DEF ChallengeRow
  <2>6. row \in ChallengeRow
    BY <2>4, <2>5 DEF ChallengeRow
  <2>7. row.kind = challenge[h].kind /\ row.target = challenge[h].target /\ row.attempts = m
    BY <2>1, <2>4 DEF ChallengeRow
  <2> HIDE DEF row
  <2>8. challenge'[h] = row /\ \A c \in Challenges \ {h} : challenge'[c] = challenge[c]
    BY <1>1, <2>1, <2>2
  <2>9. challenge' \in [Challenges -> ChallengeRow]
    BY <2>1, <2>2, <2>6
  <2>10. /\ answers'[h] = answers[h] + 1 /\ answers' \in [Challenges -> Nat]
         /\ \A c \in Challenges \ {h} : answers'[c] = answers[c]
    BY <1>1, <1>2, <2>1
  <2> QED  BY <2>3, <2>7, <2>8, <2>9, <2>10
<1>4. /\ contact' \in ContactRow
      /\ contact'.exists = contact.exists /\ contact'.value = contact.value
      /\ contact'.verified = [contact.verified EXCEPT ![k] = TRUE]
      /\ contact.verified \in [Kinds -> BOOLEAN]
  BY <1>1, <1>2 DEF IInv, TypeOK, ContactRow
<1>5. TypeOK'
  <2>1. confirmed' \in [Kinds -> Values \cup {None}]
    BY <1>1, <1>2 DEF IInv, TypeOK, ChallengeRow
  <2> QED  BY <1>1, <1>2, <1>3, <1>4, <2>1, IdleRequest DEF IInv, TypeOK
<1>6. RowsFit' /\ AsksFit'
  BY <1>2, <1>4, IdleRequest DEF IInv, TypeOK, RowsFit, AsksFit, Idle, NoContact
<1>7. AnswersFit'
  BY <1>1, <1>2, <1>3, <1>4, IdleRequest DEF IInv, TypeOK, AnswersFit
<1>8. FreshUnanswered' /\ AttemptsBounded'
  BY <1>1, <1>3 DEF IInv, TypeOK, FreshUnanswered, AttemptsBounded
<1>9. CheckAgreesWithMark' /\ ConfirmedValue'
  <2>1. CheckAgreesWithMark'
    <3>1. ASSUME NEW j \in Kinds, j \notin stale  PROVE check'[j] = contact'.verified[j]
      <4>1. CASE j = k
        BY <1>1, <1>2, <1>4, <4>1 DEF IInv, TypeOK
      <4>2. CASE j # k
        BY <1>1, <1>2, <1>4, <3>1, <4>2 DEF IInv, TypeOK, CheckAgreesWithMark
      <4> QED  BY <4>1, <4>2
    <3> QED  BY <1>2, <3>1 DEF CheckAgreesWithMark
  <2>2. ASSUME NEW j \in Kinds, check'[j], j \notin overtaken
        PROVE  confirmed'[j] = contact'.value[j]
    <3>1. CASE j = k
      BY <1>1, <1>2, <1>4, <2>2, <3>1 DEF IInv, TypeOK
    <3>2. CASE j # k
      BY <1>1, <1>2, <1>4, <2>2, <3>2 DEF IInv, TypeOK, ConfirmedValue
    <3> QED  BY <3>1, <3>2
  <2> QED  BY <1>2, <2>1, <2>2 DEF ConfirmedValue
<1> QED  BY <1>5, <1>6, <1>7, <1>8, <1>9 DEF IInv

\* What the UPDATE of a request writes: the value it has, and the mark is only ever taken.
LEMMA WrittenRow ==
    ASSUME IInv, NEW q \in Requests, request[q].op = "asked"
    PROVE  LET k == request[q].kind
               row == IF HoldsRow(q) THEN Written(q) ELSE contact
           IN /\ row \in ContactRow
              /\ ~row.exists => row.value = [j \in Kinds |-> None]
              /\ \A j \in Kinds \ {k} :
                    row.value[j] = contact.value[j] /\ row.verified[j] = contact.verified[j]
              /\ ~Changes(q) => row.value = contact.value /\ row.verified = contact.verified
              /\ Changes(q) => row.verified[k] = FALSE \/ (contact.verified[k] /\ ~request[q].seen.verified[k])
<1> USE ContactAssumption
<1> DEFINE k == request[q].kind
<1>1. /\ k \in Kinds /\ request[q].value \in Values /\ request[q].value # None
      /\ request[q].seen \in ContactRow /\ contact \in ContactRow
      /\ ~contact.exists => contact.value = [j \in Kinds |-> None]
      /\ ~request[q].seen.exists => request[q].seen.value = [j \in Kinds |-> None]
  BY DEF IInv, TypeOK, Request, AsksFit, RowsFit
<1>2. HoldsRow(q) <=> Changes(q)
  BY <1>1 DEF HoldsRow, Changes
<1>3. CASE ~Changes(q)
  BY <1>1, <1>2, <1>3
<1>4. CASE Changes(q)
  <2> DEFINE mark == contact.verified[k] /\ ~request[q].seen.verified[k]
  <2>1. Written(q) = [contact EXCEPT !.exists = TRUE, !.value[k] = request[q].value,
                        !.verified[k] = mark]
    BY <1>4 DEF Written
  <2>2. contact.value \in [Kinds -> Values \cup {None}] /\ contact.verified \in [Kinds -> BOOLEAN]
    BY <1>1 DEF ContactRow
  <2>3. mark \in BOOLEAN /\ (mark = FALSE \/ (contact.verified[k] /\ ~request[q].seen.verified[k]))
    OBVIOUS
  <2> HIDE DEF mark, k
  <2>4. Written(q) = [exists |-> TRUE, value |-> [contact.value EXCEPT ![k] = request[q].value],
                      verified |-> [contact.verified EXCEPT ![k] = mark]]
    BY <1>1, <2>1 DEF ContactRow
  <2>5. /\ [contact.value EXCEPT ![k] = request[q].value] \in [Kinds -> Values \cup {None}]
        /\ [contact.verified EXCEPT ![k] = mark] \in [Kinds -> BOOLEAN]
    BY <1>1, <2>2, <2>3
  <2>6. Written(q) \in ContactRow /\ Written(q).exists
    BY <2>4, <2>5 DEF ContactRow
  <2>7. \A j \in Kinds \ {k} :
            Written(q).value[j] = contact.value[j] /\ Written(q).verified[j] = contact.verified[j]
    BY <2>2, <2>4
  <2>8. Written(q).verified[k] = mark
    BY <1>1, <2>2, <2>4
  <2> QED  BY <1>2, <1>4, <2>3, <2>6, <2>7, <2>8 DEF k
<1> QED  BY <1>3, <1>4

\* A new value and its challenge.
LEMMA AskCommitInv ==
    ASSUME IInv, NEW q \in Requests, NEW n \in Challenges, AskCommit(q, n)
    PROVE  IInv'
<1> USE ContactAssumption
<1> DEFINE k == request[q].kind
           v == request[q].value
<1>1. /\ request[q].op = "asked" /\ k \in Kinds /\ v \in Values
      /\ n \in Challenges /\ challenge[n].kind = None /\ answers[n] = 0
      /\ k # None
      /\ overtaken \subseteq Kinds /\ stale \subseteq Kinds
      /\ request[q] \in Request /\ challenge \in [Challenges -> ChallengeRow]
  BY DEF AskCommit, Created, IInv, TypeOK, Request, AsksFit, FreshUnanswered
<1>2. /\ request' = [request EXCEPT ![q] = Idle]
      /\ contact' = IF HoldsRow(q) THEN Written(q) ELSE contact
      /\ check' = IF Changes(q) THEN [check EXCEPT ![k] = FALSE] ELSE check
      /\ confirmed' = IF Changes(q) THEN [confirmed EXCEPT ![k] = None] ELSE confirmed
      /\ overtaken \subseteq overtaken' /\ overtaken' \subseteq Kinds
      /\ Changes(q) /\ (\E o \in Requests : request[o].op = "answer" /\ request[o].right /\ request[o].kind = k)
            => k \in overtaken'
      /\ stale \subseteq stale' /\ stale' \subseteq Kinds
      /\ Changes(q) /\ contact.verified[k] /\ ~request[q].seen.verified[k] => k \in stale'
      /\ answers' = answers
  BY <1>1 DEF AskCommit, Return
<1>3. /\ contact' \in ContactRow
      /\ ~contact'.exists => contact'.value = [j \in Kinds |-> None]
      /\ \A j \in Kinds \ {k} :
            contact'.value[j] = contact.value[j] /\ contact'.verified[j] = contact.verified[j]
      /\ ~Changes(q) => contact'.value = contact.value /\ contact'.verified = contact.verified
      /\ Changes(q) => contact'.verified[k] = FALSE \/ k \in stale'
  BY <1>1, <1>2, WrittenRow
<1>4. /\ challenge' \in [Challenges -> ChallengeRow]
      /\ challenge'[n].kind = k /\ challenge'[n].attempts = 0
      /\ \A h \in Challenges \ {n} :
            /\ challenge'[h].kind = challenge[h].kind /\ challenge'[h].target = challenge[h].target
            /\ challenge'[h].attempts = challenge[h].attempts
  <2> DEFINE new == [kind |-> k, target |-> v, consumed |-> FALSE, attempts |-> 0]
  <2>1. challenge' = [h \in Challenges |-> IF h = n THEN new ELSE Consumed(q, h)]
    BY DEF AskCommit
  <2>2. new \in ChallengeRow /\ new.kind = k /\ new.attempts = 0
    BY <1>1 DEF ChallengeRow
  <2>3. ASSUME NEW h \in Challenges
        PROVE  /\ Consumed(q, h) \in ChallengeRow
               /\ Consumed(q, h).kind = challenge[h].kind /\ Consumed(q, h).target = challenge[h].target
               /\ Consumed(q, h).attempts = challenge[h].attempts
    BY <1>1 DEF Consumed, ChallengeRow
  <2> HIDE DEF new
  <2> QED  BY <1>1, <2>1, <2>2, <2>3
<1> HIDE DEF k, v
<1>5. TypeOK'
  BY <1>1, <1>2, <1>3, <1>4, IdleRequest DEF IInv, TypeOK
<1>6. RowsFit' /\ AsksFit'
  BY <1>1, <1>2, <1>3, IdleRequest DEF IInv, TypeOK, RowsFit, AsksFit, Idle, NoContact
<1>7. AnswersFit'
  <2> SUFFICES ASSUME NEW o \in Requests, request'[o].op = "answer"
               PROVE  LET h == request'[o].challenge
                          j == request'[o].kind
                      IN /\ h \in Challenges /\ j \in Kinds
                         /\ challenge'[h].kind = j
                         /\ challenge'[h].attempts < MaxAttempts
                         /\ \A p \in Requests \ {o} : request'[p].op = "answer" => request'[p].challenge # h
                         /\ request'[o].right => challenge'[h].target = contact'.value[j] \/ j \in overtaken'
    BY DEF AnswersFit
  <2> DEFINE h == request[o].challenge
             j == request[o].kind
  <2>1. o # q /\ request'[o] = request[o] /\ request[o].op = "answer"
    BY <1>2, IdleRequest DEF IInv, TypeOK
  <2>2. /\ h \in Challenges /\ j \in Kinds /\ challenge[h].kind = j
        /\ challenge[h].attempts < MaxAttempts
        /\ \A p \in Requests \ {o} : request[p].op = "answer" => request[p].challenge # h
        /\ request[o].right => challenge[h].target = contact.value[j] \/ j \in overtaken
    BY <2>1 DEF IInv, AnswersFit
  <2>3. h # n
    BY <1>1, <2>2
  <2>4. \A p \in Requests : request'[p].op = "answer" => request'[p] = request[p]
    BY <1>2, IdleRequest DEF IInv, TypeOK
  <2>5. request[o].right => contact'.value[j] = contact.value[j] \/ j \in overtaken'
    BY <1>2, <1>3, <2>1, <2>2
  <2> HIDE DEF h, j
  <2>6. /\ h \in Challenges /\ j \in Kinds /\ challenge'[h].kind = j
        /\ challenge'[h].attempts < MaxAttempts
        /\ \A p \in Requests \ {o} : request'[p].op = "answer" => request'[p].challenge # h
        /\ request[o].right => challenge'[h].target = contact'.value[j] \/ j \in overtaken'
    BY <1>2, <1>4, <2>2, <2>3, <2>4, <2>5
  <2> QED  BY <2>1, <2>6 DEF h, j
<1>8. FreshUnanswered' /\ AttemptsBounded'
  BY <1>1, <1>2, <1>4 DEF IInv, TypeOK, FreshUnanswered, AttemptsBounded
<1>9. CheckAgreesWithMark'
  <2> SUFFICES ASSUME NEW j \in Kinds, j \notin stale'  PROVE check'[j] = contact'.verified[j]
    BY DEF CheckAgreesWithMark
  <2>1. check[j] = contact.verified[j]
    BY <1>2 DEF IInv, CheckAgreesWithMark
  <2>2. CASE Changes(q) /\ j = k
    BY <1>1, <1>2, <1>3, <2>2 DEF IInv, TypeOK
  <2>3. CASE ~(Changes(q) /\ j = k)
    BY <1>1, <1>2, <1>3, <2>1, <2>3 DEF IInv, TypeOK
  <2> QED  BY <2>2, <2>3
<1>10. ConfirmedValue'
  <2> SUFFICES ASSUME NEW j \in Kinds, check'[j], j \notin overtaken'
               PROVE  confirmed'[j] = contact'.value[j]
    BY DEF ConfirmedValue
  <2>1. ~(Changes(q) /\ j = k)
    BY <1>1, <1>2 DEF IInv, TypeOK
  <2>2. check'[j] = check[j] /\ confirmed'[j] = confirmed[j] /\ contact'.value[j] = contact.value[j]
    BY <1>1, <1>2, <1>3, <2>1 DEF IInv, TypeOK
  <2>3. confirmed[j] = contact.value[j]
    BY <1>2, <2>2 DEF IInv, ConfirmedValue
  <2> QED  BY <2>2, <2>3
<1> QED  BY <1>5, <1>6, <1>7, <1>8, <1>9, <1>10 DEF IInv

LEMMA StepInv ==
    ASSUME IInv, [Next]_vars
    PROVE  IInv'
<1>1. ASSUME UNCHANGED vars  PROVE IInv'
  BY <1>1 DEF vars, IInv, TypeOK, RowsFit, AsksFit, AnswersFit, FreshUnanswered, AttemptsBounded,
     CheckAgreesWithMark, ConfirmedValue
<1> QED  BY <1>1, ReadSteps, AnswerWrongInv, AnswerRightInv, AskCommitInv DEF Next

-----------------------------------------------------------------------------
(* Theorems.                                                               *)

\* In every state of every behaviour the rows have their types.
THEOREM TypeCorrect == Spec => []TypeOK
<1>1. IInv => TypeOK
  BY DEF IInv
<1> QED  BY InitInv, StepInv, <1>1, PTL DEF Spec

\* A check passes for the value that is stored, unless a change has overtaken the answer.
THEOREM CheckedValueIsStored == Spec => []ConfirmedValue
<1>1. IInv => ConfirmedValue
  BY DEF IInv
<1> QED  BY InitInv, StepInv, <1>1, PTL DEF Spec

\* The mark that is shown and the check that is asked for agree, unless a change was
\* decided before the mark was set.
THEOREM MarkIsTheCheck == Spec => []CheckAgreesWithMark
<1>1. IInv => CheckAgreesWithMark
  BY DEF IInv
<1> QED  BY InitInv, StepInv, <1>1, PTL DEF Spec

\* Answers at the same time do not share an attempt.
THEOREM AttemptsAreBounded == Spec => []AttemptsBounded
<1>1. IInv => AttemptsBounded
  BY DEF IInv
<1> QED  BY InitInv, StepInv, <1>1, PTL DEF Spec
=============================================================================

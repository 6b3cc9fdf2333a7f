--------------------------- MODULE BookingProofs ---------------------------
(***************************************************************************)
(* Theorems about Booking for every set of candidates, slots, requests and *)
(* bookings, every clock bound and every hold TTL.                         *)
(***************************************************************************)
EXTENDS Booking, SequenceTheorems, TLAPS

-----------------------------------------------------------------------------
(* Type correctness                                                        *)

LEMMA InitType == Init => TypeOK
<1> SUFFICES ASSUME Init PROVE TypeOK
  OBVIOUS
<1> USE DEF Init
<1>1. slot \in [Slots -> SlotRow] /\ lock \in [Slots -> LockRow]
  BY DEF FreeSlot, SlotRow, SlotStatus, NoLock, LockRow
<1>2. booking \in [Bookings -> BookingRow]
  BY DEF BookingRow
<1>3. outbox \in [Bookings -> Seq(EventType)]
  OBVIOUS
<1>4. hold \in [Tokens -> HoldRequest]
  BY DEF HoldRequest, Eligibility
<1>5. create \in [Bookings -> CreateRequest]
  BY DEF CreateRequest, Eligibility
<1>6. cancel \in [Cancels -> CancelRequest]
  BY DEF CancelRequest
<1> QED
  BY <1>1, <1>2, <1>3, <1>4, <1>5, <1>6 DEF TypeOK, Eligibility

\* Releasing a Redis key leaves a well-formed lock table.
LEMMA ReleaseType ==
    ASSUME TypeOK, NEW s, NEW t, Release(s, t)
    PROVE  lock' \in [Slots -> LockRow]
BY DEF TypeOK, Release, NoLock, LockRow

\* The steps of a hold request preserve the types: one fact per variable they change.
LEMMA HoldType ==
    ASSUME TypeOK, RequestOK, NEW t \in Tokens, HoldNext(t)
    PROVE  TypeOK'
<1> USE BookingAssumption
<1>0. /\ hold[t] \in HoldRequest
      /\ hold \in [Tokens -> HoldRequest]
      /\ now \in Nat
  BY DEF TypeOK
<1>1. ASSUME NEW s \in Slots, NEW c \in Candidates, HoldAcquire(t, s, c)
      PROVE  TypeOK'
  <2>1. hold' \in [Tokens -> HoldRequest]
    BY <1>0, <1>1 DEF HoldAcquire, HoldRequest, Eligibility
  <2>2. lock' \in [Slots -> LockRow]
    BY <1>1 DEF HoldAcquire, TypeOK, LockRow
  <2> QED  BY <1>1, <2>1, <2>2 DEF HoldAcquire, TypeOK
<1>2. CASE HoldLock(t)
  <2>1. elig[SlotOwner[hold[t].slot]] \in Eligibility
    BY <1>2 DEF HoldLock, RequestOK, HoldOK, TypeOK
  <2>2. hold' \in [Tokens -> HoldRequest]
    BY <1>0, <1>2, <2>1 DEF HoldLock, HoldRequest
  <2> QED  BY <1>2, <2>2 DEF HoldLock, TypeOK
<1>3. CASE HoldGrant(t)
  <2>1. hold' \in [Tokens -> HoldRequest]
    BY <1>0, <1>3 DEF HoldGrant, HoldRequest
  <2>2. hold[t].at + HoldTtl \in Nat /\ hold[t].candidate \in Candidates
    BY <1>0, <1>3 DEF HoldGrant, HoldRequest, RequestOK, HoldOK
  <2>3. slot' \in [Slots -> SlotRow]
    BY <1>3, <2>2 DEF HoldGrant, HeldRow, TypeOK, SlotRow, SlotStatus
  <2> QED  BY <1>3, <2>1, <2>3 DEF HoldGrant, TypeOK
<1>4. CASE HoldRefuse(t)
  <2>1. hold' \in [Tokens -> HoldRequest]
    BY <1>0, <1>4 DEF HoldRefuse, HoldRequest
  <2> QED  BY <1>4, <2>1 DEF HoldRefuse, TypeOK
<1>5. CASE HoldRelease(t)
  <2>1. hold' \in [Tokens -> HoldRequest]
    BY <1>0, <1>5 DEF HoldRelease, HoldRequest
  <2>2. lock' \in [Slots -> LockRow]
    BY <1>5, ReleaseType DEF HoldRelease
  <2> QED  BY <1>5, <2>1, <2>2 DEF HoldRelease, TypeOK
<1>6. CASE HoldCrash(t)
  <2>1. hold' \in [Tokens -> HoldRequest]
    BY <1>0, <1>6 DEF HoldCrash, HoldRequest
  <2> QED  BY <1>6, <2>1 DEF HoldCrash, TypeOK
<1>7. CASE HoldFail(t)
  <2>1. hold' \in [Tokens -> HoldRequest]
    BY <1>0, <1>7 DEF HoldFail, HoldRequest
  <2>2. hold[t].at + HoldTtl \in Nat /\ hold[t].candidate \in Candidates
    BY <1>0, <1>7 DEF HoldFail, HoldRequest, RequestOK, HoldOK
  <2>3. slot' \in [Slots -> SlotRow]
    <3>1. slot \in [Slots -> SlotRow] /\ HeldRow(t) \in SlotRow
      BY <2>2 DEF HeldRow, TypeOK, SlotRow, SlotStatus
    <3>2. slot' = slot \/ slot' = [slot EXCEPT ![hold[t].slot] = HeldRow(t)]
      BY <1>7 DEF HoldFail
    <3> QED  BY <3>1, <3>2
  <2> QED  BY <1>7, <2>1, <2>3 DEF HoldFail, TypeOK
<1> QED
  BY <1>1, <1>2, <1>3, <1>4, <1>5, <1>6, <1>7 DEF HoldNext

\* The steps of a create request preserve the types.
LEMMA CreateType ==
    ASSUME TypeOK, RequestOK, NEW b \in Bookings, CreateNext(b)
    PROVE  TypeOK'
<1> USE BookingAssumption
<1>0. /\ create[b] \in CreateRequest
      /\ create \in [Bookings -> CreateRequest]
      /\ now \in Nat
  BY DEF TypeOK
<1>00. ASSUME create[b].pc # "idle"
       PROVE  /\ CreateSlot(b) \in Slots /\ CreateCandidate(b) \in Candidates
              /\ create[b].key \in Keys /\ create[b].token \in Tokens
  BY <1>00 DEF RequestOK, CreateOK, HoldOK, CreateSlot, CreateCandidate
<1>1. ASSUME NEW t \in Tokens, NEW k \in Keys, CreateLookup(b, t, k)
      PROVE  TypeOK'
  <2>1. create' \in [Bookings -> CreateRequest]
    BY <1>0, <1>1 DEF CreateLookup, CreateRequest, Eligibility
  <2> QED  BY <1>1, <2>1 DEF CreateLookup, TypeOK
<1>2. CASE CreateMatch(b)
  <2>1. create' \in [Bookings -> CreateRequest]
    BY <1>0, <1>2 DEF CreateMatch, CreateRequest
  <2> QED  BY <1>2, <2>1 DEF CreateMatch, TypeOK
<1>3. CASE CreateLock(b)
  <2>1. elig[SlotOwner[CreateSlot(b)]] \in Eligibility
    BY <1>00, <1>3 DEF CreateLock, TypeOK
  <2>2. create' \in [Bookings -> CreateRequest]
    BY <1>0, <1>3, <2>1 DEF CreateLock, CreateRequest
  <2> QED  BY <1>3, <2>2 DEF CreateLock, TypeOK
<1>4. CASE CreateCommit(b)
  <2>1. create' \in [Bookings -> CreateRequest]
    BY <1>0, <1>4 DEF CreateCommit, CreateRequest
  <2>2. booking' \in [Bookings -> BookingRow]
    BY <1>00, <1>4 DEF CreateCommit, TypeOK, BookingRow, BookingStatus
  <2>3. slot' \in [Slots -> SlotRow]
    BY <1>00, <1>4 DEF CreateCommit, TypeOK, SlotRow, SlotStatus
  <2>4. outbox' \in [Bookings -> Seq(EventType)]
    BY <1>4 DEF CreateCommit, TypeOK, EventType
  <2> QED  BY <1>4, <2>1, <2>2, <2>3, <2>4 DEF CreateCommit, TypeOK
<1>5. CASE CreateMismatch(b)
  <2>1. create' \in [Bookings -> CreateRequest]
    BY <1>0, <1>5 DEF CreateMismatch, CreateRequest
  <2> QED  BY <1>5, <2>1 DEF CreateMismatch, TypeOK
<1>6. CASE CreateConflict(b)
  <2>1. create' \in [Bookings -> CreateRequest]
    BY <1>0, <1>6 DEF CreateConflict, CreateRequest
  <2> QED  BY <1>6, <2>1 DEF CreateConflict, TypeOK
<1>7. CASE CreateRelease(b)
  <2>1. create' \in [Bookings -> CreateRequest]
    BY <1>0, <1>7 DEF CreateRelease, CreateRequest
  <2>2. lock' \in [Slots -> LockRow]
    BY <1>7, ReleaseType DEF CreateRelease
  <2> QED  BY <1>7, <2>1, <2>2 DEF CreateRelease, TypeOK
<1>8. CASE CreateCrash(b)
  <2>1. create' \in [Bookings -> CreateRequest]
    BY <1>0, <1>8 DEF CreateCrash, CreateRequest
  <2> QED  BY <1>8, <2>1 DEF CreateCrash, TypeOK
<1> QED
  BY <1>1, <1>2, <1>3, <1>4, <1>5, <1>6, <1>7, <1>8 DEF CreateNext

\* Only statuses of the lifecycle can follow one, and only a status that occupies
\* time has a successor.
LEMMA Lifecycle ==
    ASSUME NEW st, NEW target, CanTransition(st, target)
    PROVE  /\ target \in BookingStatus
           /\ st \in BookingStatus \ Terminal
           /\ target # "PAYMENT_PENDING"
BY DEF CanTransition, Allowed, BookingStatus, Terminal

\* A payment event ends in a status of the lifecycle and starts from an open booking.
LEMMA PaymentLifecycle ==
    ASSUME NEW b, NEW type \in PaymentInputs, PaymentAllowed(b, PaymentPath(type))
    PROVE  LET path == PaymentPath(type)
           IN  /\ path[Len(path)] \in BookingStatus
               /\ booking[b].status \in BookingStatus \ Terminal
<1>1. CASE type = "captured"
  <2>1. PaymentPath(type) = <<"BOOKED", "CONFIRMED">>
    BY <1>1 DEF PaymentPath
  <2>2. CanTransition(booking[b].status, "BOOKED")
    BY <2>1 DEF PaymentAllowed
  <2> QED  BY <2>1, <2>2, Lifecycle DEF BookingStatus
<1>2. CASE type = "failed"
  <2>1. PaymentPath(type) = <<"PAYMENT_FAILED">>
    BY <1>2 DEF PaymentPath
  <2>2. CanTransition(booking[b].status, "PAYMENT_FAILED")
    BY <2>1 DEF PaymentAllowed
  <2> QED  BY <2>1, <2>2, Lifecycle
<1>3. CASE type = "refunded"
  <2>1. PaymentPath(type) = <<"REFUNDED">>
    BY <1>3 DEF PaymentPath
  <2>2. CanTransition(booking[b].status, "REFUNDED")
    BY <2>1 DEF PaymentAllowed
  <2> QED  BY <2>1, <2>2, Lifecycle
<1> QED
  BY <1>1, <1>2, <1>3, BookingAssumption

LEMMA SetStatusType ==
    ASSUME TypeOK, NEW b \in Bookings, booking[b].slot \in Slots,
           NEW target \in BookingStatus, SetStatus(b, target)
    PROVE  booking' \in [Bookings -> BookingRow] /\ slot' \in [Slots -> SlotRow]
<1>1. booking' \in [Bookings -> BookingRow]
  <2>1. [booking[b] EXCEPT !.status = target] \in BookingRow
    BY DEF TypeOK, BookingRow
  <2> QED  BY <2>1 DEF SetStatus, TypeOK
<1>2. slot' \in [Slots -> SlotRow]
  <2>1. [slot[booking[b].slot] EXCEPT !.status = "AVAILABLE"] \in SlotRow
    BY DEF TypeOK, SlotRow, SlotStatus
  <2> QED  BY <2>1 DEF SetStatus, TypeOK
<1> QED
  BY <1>1, <1>2

LEMMA AnnounceType ==
    ASSUME TypeOK, NEW b \in Bookings, NEW target, Announce(b, target)
    PROVE  outbox' \in [Bookings -> Seq(EventType)]
<1>1. \A e \in EventType : Append(outbox[b], e) \in Seq(EventType)
  BY DEF TypeOK
<1>2. {"confirmed", "cancelled", "rescheduled"} \subseteq EventType
  BY DEF EventType
<1> QED
  BY <1>1, <1>2 DEF Announce, TypeOK

\* The transitions of a booking preserve the types.
LEMMA TransitionType ==
    ASSUME TypeOK, RequestOK, NEW b \in Bookings, BookingNext(b)
    PROVE  TypeOK'
<1>0. Exists(b) => booking[b].slot \in Slots
  BY DEF RequestOK, RowOK
<1>1. ASSUME NEW target \in AdminTargets, AdminTransition(b, target)
      PROVE  TypeOK'
  <2>1. target \in BookingStatus
    BY <1>1, Lifecycle DEF AdminTransition
  <2>2. booking' \in [Bookings -> BookingRow] /\ slot' \in [Slots -> SlotRow]
    BY <1>0, <1>1, <2>1, SetStatusType DEF AdminTransition
  <2>3. outbox' \in [Bookings -> Seq(EventType)]
    BY <1>1, AnnounceType DEF AdminTransition
  <2> QED  BY <1>1, <2>2, <2>3 DEF AdminTransition, TypeOK
<1>2. ASSUME NEW k \in Cancels, CancelRead(k, b)
      PROVE  TypeOK'
  <2>1. booking[b].status \in BookingStatus
    BY <1>2, Lifecycle DEF CancelRead
  <2>2. cancel' \in [Cancels -> CancelRequest]
    BY <1>2, <2>1 DEF CancelRead, TypeOK, CancelRequest
  <2> QED  BY <1>2, <2>2 DEF CancelRead, TypeOK
<1>3. ASSUME NEW type \in PaymentInputs, HandlePayment(b, type)
      PROVE  TypeOK'
  <2> DEFINE path == PaymentPath(type)
  <2>1. path[Len(path)] \in BookingStatus
    BY <1>3, PaymentLifecycle DEF HandlePayment
  <2>2. booking' \in [Bookings -> BookingRow] /\ slot' \in [Slots -> SlotRow]
    BY <1>0, <1>3, <2>1, SetStatusType DEF HandlePayment
  <2>3. Append(outbox[b], "confirmed") \in Seq(EventType)
    BY DEF TypeOK, EventType
  <2>4. outbox' \in [Bookings -> Seq(EventType)]
    BY <1>3, <2>3 DEF HandlePayment, TypeOK
  <2> QED  BY <1>3, <2>2, <2>4 DEF HandlePayment, TypeOK
<1> QED
  BY <1>1, <1>2, <1>3 DEF BookingNext

LEMMA CancelApplyType ==
    ASSUME TypeOK, RequestOK, NEW k \in Cancels, CancelApply(k)
    PROVE  TypeOK'
<1> DEFINE b == cancel[k].booking
<1>1. b \in Bookings /\ booking[b].slot \in Slots
  BY DEF CancelApply, RequestOK, CancelOK, RowOK
<1>2. booking' \in [Bookings -> BookingRow] /\ slot' \in [Slots -> SlotRow]
  BY <1>1, SetStatusType DEF CancelApply, BookingStatus, Terminal
<1>3. outbox' \in [Bookings -> Seq(EventType)]
  BY <1>1, AnnounceType DEF CancelApply
<1>4. cancel' \in [Cancels -> CancelRequest]
  BY DEF CancelApply, TypeOK, CancelRequest
<1>5. clobbered' \subseteq Slots
  BY <1>1 DEF CancelApply, TypeOK
<1> QED
  BY <1>2, <1>3, <1>4, <1>5 DEF CancelApply, TypeOK

\* Workers, eligibility changes, the clock and Redis preserve the types.
LEMMA FreeSlotType ==
    ASSUME NEW st \in SlotStatus
    PROVE  FreeSlot(st) \in SlotRow
BY DEF FreeSlot, SlotRow

LEMMA EnvironmentType ==
    ASSUME TypeOK,
           ExpireHolds \/ Tick \/ RedisLoss \/ \E i \in Interviewers : InterviewerNext(i)
    PROVE  TypeOK'
<1>0. \A st \in {"AVAILABLE", "BLOCKED"} : FreeSlot(st) \in SlotRow
  BY FreeSlotType DEF SlotStatus
<1>1. CASE ExpireHolds
  <2>1. slot' \in [Slots -> SlotRow]
    BY <1>0, <1>1 DEF ExpireHolds, TypeOK
  <2> QED  BY <1>1, <2>1 DEF ExpireHolds, TypeOK
<1>2. CASE Tick
  <2>1. lock' \in [Slots -> LockRow] /\ now' \in Nat
    BY <1>2 DEF Tick, TypeOK, NoLock, LockRow
  <2> QED  BY <1>2, <2>1 DEF Tick, TypeOK
<1>3. CASE RedisLoss
  <2>1. lock' \in [Slots -> LockRow]
    BY <1>3 DEF RedisLoss, NoLock, LockRow
  <2> QED  BY <1>3, <2>1 DEF RedisLoss, TypeOK
<1>4. ASSUME NEW i \in Interviewers, NEW e \in EligibilityInputs, SetEligibility(i, e)
      PROVE  TypeOK'
  <2>1. elig' \in [Interviewers -> Eligibility]
    BY <1>4, BookingAssumption DEF SetEligibility, TypeOK, Eligibility
  <2> QED  BY <1>4, <2>1 DEF SetEligibility, TypeOK
<1>5. ASSUME NEW i \in Interviewers, NEW windows, GenerateSlots(i, windows)
      PROVE  TypeOK'
  <2>1. slot' \in [Slots -> SlotRow]
    BY <1>0, <1>5 DEF GenerateSlots, TypeOK
  <2> QED  BY <1>5, <2>1 DEF GenerateSlots, TypeOK
<1>6. ASSUME NEW i \in Interviewers, NEW windows, Synchronize(i, windows)
      PROVE  TypeOK'
  <2>1. \A s \in Slots : [slot[s] EXCEPT !.status = "AVAILABLE"] \in SlotRow
    BY DEF TypeOK, SlotRow, SlotStatus
  <2>2. slot' \in [Slots -> SlotRow]
    BY <1>0, <1>6, <2>1 DEF Synchronize, TypeOK
  <2> QED  BY <1>6, <2>2 DEF Synchronize, TypeOK
<1> QED
  BY <1>1, <1>2, <1>3, <1>4, <1>5, <1>6 DEF InterviewerNext

LEMMA NextType == TypeOK /\ RequestOK /\ [Next]_vars => TypeOK'
<1> SUFFICES ASSUME TypeOK, RequestOK, [Next]_vars
             PROVE  TypeOK'
  OBVIOUS
<1>1. CASE UNCHANGED vars
  BY <1>1 DEF vars, TypeOK
<1>2. CASE Next
  BY <1>2, HoldType, CreateType, TransitionType, CancelApplyType, EnvironmentType DEF Next
<1> QED
  BY <1>1, <1>2

-----------------------------------------------------------------------------
(* What requests and rows carry                                            *)

LEMMA InitRequest == Init => RequestOK
BY DEF Init, RequestOK, HoldOK, CreateOK, RowOK, CancelOK, Exists

\* A step of a hold request keeps every granted hold and names its slot.
LEMMA HoldRequestStep ==
    ASSUME TypeOK, RequestOK, NEW t \in Tokens, HoldNext(t)
    PROVE  /\ \A u \in Tokens : HoldOK(u)'
           /\ \A u \in Tokens : hold[u].pc = "granted" => hold'[u].pc = "granted"
           /\ UNCHANGED <<booking, create, cancel>>
<1> USE DEF TypeOK, HoldRequest, RequestOK, HoldOK
<1>1. ASSUME NEW s \in Slots, NEW c \in Candidates, HoldAcquire(t, s, c)
      PROVE  /\ \A u \in Tokens : HoldOK(u)'
             /\ \A u \in Tokens : hold[u].pc = "granted" => hold'[u].pc = "granted"
             /\ UNCHANGED <<booking, create, cancel>>
  BY <1>1 DEF HoldAcquire
<1>2. CASE HoldLock(t)
  BY <1>2 DEF HoldLock
<1>3. CASE HoldGrant(t)
  BY <1>3 DEF HoldGrant
<1>4. CASE HoldRefuse(t)
  BY <1>4 DEF HoldRefuse
<1>5. CASE HoldRelease(t)
  BY <1>5 DEF HoldRelease
<1>6. CASE HoldCrash(t)
  BY <1>6 DEF HoldCrash
<1>7. CASE HoldFail(t)
  BY <1>7 DEF HoldFail
<1> QED
  BY <1>1, <1>2, <1>3, <1>4, <1>5, <1>6, <1>7 DEF HoldNext

\* A step of a create request keeps what it has in hand and, but for the commit,
\* leaves the bookings alone.
LEMMA CreateRequestStep ==
    ASSUME TypeOK, RequestOK, NEW b \in Bookings, CreateNext(b)
    PROVE  /\ \A a \in Bookings : CreateOK(a)' /\ RowOK(a)'
           /\ \A a \in Bookings : Exists(a) => Exists(a)'
           /\ UNCHANGED <<hold, cancel>>
<1> DEFINE Goal == /\ \A a \in Bookings : CreateOK(a)' /\ RowOK(a)'
                   /\ \A a \in Bookings : Exists(a) => Exists(a)'
                   /\ UNCHANGED <<hold, cancel>>
<1> SUFFICES Goal
  OBVIOUS
<1> USE DEF TypeOK, RequestOK, CreateOK, RowOK, Exists
<1>1. ASSUME NEW t \in Tokens, NEW k \in Keys, CreateLookup(b, t, k)
      PROVE  Goal
  BY <1>1 DEF CreateLookup
<1>2. CASE CreateMatch(b)
  BY <1>2 DEF CreateMatch
<1>3. CASE CreateLock(b)
  BY <1>3 DEF CreateLock
<1>4. CASE CreateCommit(b)
  BY <1>4 DEF CreateCommit, HoldOK, CreateSlot, CreateCandidate
<1>5. CASE CreateMismatch(b)
  BY <1>5 DEF CreateMismatch
<1>6. CASE CreateConflict(b)
  BY <1>6 DEF CreateConflict
<1>7. CASE CreateRelease(b)
  BY <1>7 DEF CreateRelease
<1>8. CASE CreateCrash(b)
  BY <1>8 DEF CreateCrash
<1> QED
  BY <1>1, <1>2, <1>3, <1>4, <1>5, <1>6, <1>7, <1>8 DEF CreateNext

\* A change of status leaves the rest of every row as it is.
LEMMA SetStatusRow ==
    ASSUME TypeOK, RequestOK, NEW b \in Bookings, Exists(b),
           NEW target \in BookingStatus, SetStatus(b, target)
    PROVE  \A a \in Bookings : RowOK(a)' /\ (Exists(a) <=> Exists(a)')
<1>1. target # "absent"
  BY DEF BookingStatus, Terminal
<1> QED
  BY <1>1 DEF SetStatus, TypeOK, RequestOK, RowOK, Exists

LEMMA NextRequest == TypeOK /\ RequestOK /\ [Next]_vars => RequestOK'
<1> SUFFICES ASSUME TypeOK, RequestOK, [Next]_vars
             PROVE  RequestOK'
  OBVIOUS
<1> USE DEF RequestOK
<1>1. ASSUME NEW t \in Tokens, HoldNext(t)
      PROVE  RequestOK'
  BY <1>1, HoldRequestStep DEF CreateOK, RowOK, CancelOK, Exists
<1>2. ASSUME NEW b \in Bookings, CreateNext(b)
      PROVE  RequestOK'
  BY <1>2, CreateRequestStep DEF HoldOK, CancelOK
<1>3. ASSUME NEW b \in Bookings, NEW target \in AdminTargets, AdminTransition(b, target)
      PROVE  RequestOK'
  BY <1>3, Lifecycle, SetStatusRow DEF AdminTransition, HoldOK, CreateOK, CancelOK
<1>4. ASSUME NEW b \in Bookings, NEW type \in PaymentInputs, HandlePayment(b, type)
      PROVE  RequestOK'
  BY <1>4, PaymentLifecycle, SetStatusRow DEF HandlePayment, HoldOK, CreateOK, CancelOK
<1>5. ASSUME NEW b \in Bookings, NEW k \in Cancels, CancelRead(k, b)
      PROVE  RequestOK'
  BY <1>5 DEF CancelRead, TypeOK, HoldOK, CreateOK, RowOK, CancelOK, Exists
<1>6. ASSUME NEW k \in Cancels, CancelApply(k)
      PROVE  RequestOK'
  <2>1. /\ cancel[k].booking \in Bookings /\ Exists(cancel[k].booking)
        /\ "CANCELLED" \in BookingStatus
    BY <1>6 DEF CancelApply, CancelOK, BookingStatus, Terminal
  <2>2. \A a \in Bookings : RowOK(a)' /\ (Exists(a) <=> Exists(a)')
    BY <1>6, <2>1, SetStatusRow DEF CancelApply
  <2>3. \A j \in Cancels : CancelOK(j)'
    BY <1>6, <2>2 DEF CancelApply, TypeOK, CancelOK
  <2> QED  BY <1>6, <2>2, <2>3 DEF CancelApply, HoldOK, CreateOK
<1>7. ASSUME UNCHANGED <<hold, create, booking, cancel>>
      PROVE  RequestOK'
  BY <1>7 DEF HoldOK, CreateOK, RowOK, CancelOK, Exists
<1> QED
  BY <1>1, <1>2, <1>3, <1>4, <1>5, <1>6, <1>7
     DEF Next, vars, BookingNext, InterviewerNext, SetEligibility, GenerateSlots,
         Synchronize, ExpireHolds, Tick, RedisLoss

\* The types of every variable, along every behaviour: the code's rows, Redis keys,
\* requests and outbox stay well formed.
THEOREM TypeCorrect == Spec => [](TypeOK /\ RequestOK)
<1>1. Init => TypeOK /\ RequestOK
  BY InitType, InitRequest
<1>2. TypeOK /\ RequestOK /\ [Next]_vars => (TypeOK /\ RequestOK)'
  BY NextType, NextRequest
<1> QED
  BY <1>1, <1>2, PTL DEF Spec

-----------------------------------------------------------------------------
(* The three ways a step can touch bookings and booked slots               *)

\* A step that leaves the bookings alone neither books a slot nor frees a booked one.
Quiet ==
    /\ UNCHANGED <<booking, clobbered>>
    /\ \A s \in Slots : slot[s].status = "BOOKED" \/ slot'[s].status = "BOOKED"
                            => slot'[s] = slot[s]

\* An open booking moves on.
Moves(b, target) ==
    /\ Exists(b) /\ booking[b].status \notin Terminal
    /\ target \in BookingStatus
    /\ SetStatus(b, target)
    /\ UNCHANGED clobbered

\* A booking is cancelled, open or not.
Cancelled(b) ==
    /\ Exists(b)
    /\ SetStatus(b, "CANCELLED")
    /\ clobbered' = IF Occupying(b) THEN clobbered ELSE clobbered \cup {booking[b].slot}

\* No step of a hold request touches a booked slot.
LEMMA HoldQuiet ==
    ASSUME TypeOK, RequestOK, NEW t \in Tokens, HoldNext(t)
    PROVE  Quiet
<1>1. ASSUME NEW s \in Slots, NEW c \in Candidates, HoldAcquire(t, s, c)
      PROVE  Quiet
  BY <1>1 DEF HoldAcquire, Quiet
<1>2. CASE HoldGrant(t)
  <2>1. slot[hold[t].slot].status # "BOOKED"
    BY <1>2 DEF HoldGrant, Holdable
  <2> QED  BY <1>2, <2>1 DEF HoldGrant, HeldRow, TypeOK, Quiet
<1>3. CASE HoldLock(t) \/ HoldRefuse(t) \/ HoldRelease(t) \/ HoldCrash(t)
  BY <1>3 DEF HoldLock, HoldRefuse, HoldRelease, HoldCrash, Quiet
<1>4. CASE HoldFail(t)
  <2>1. CASE UNCHANGED slot
    BY <1>4, <2>1 DEF HoldFail, Quiet
  <2>2. CASE slot' # slot
    <3>1. slot[hold[t].slot].status # "BOOKED"
      BY <1>4, <2>2 DEF HoldFail, Holdable
    <3> QED  BY <1>4, <2>2, <3>1 DEF HoldFail, HeldRow, TypeOK, Quiet
  <2> QED  BY <2>1, <2>2
<1> QED
  BY <1>1, <1>2, <1>3, <1>4 DEF HoldNext

\* Neither does a worker, a change of eligibility, the clock or Redis.
LEMMA EnvironmentQuiet ==
    ASSUME TypeOK,
           ExpireHolds \/ Tick \/ RedisLoss \/ \E i \in Interviewers : InterviewerNext(i)
    PROVE  Quiet
<1>1. CASE ExpireHolds
  BY <1>1 DEF ExpireHolds, Expired, FreeSlot, Quiet
<1>2. CASE Tick \/ RedisLoss
  BY <1>2 DEF Tick, RedisLoss, Quiet
<1>3. ASSUME NEW i \in Interviewers, NEW e \in EligibilityInputs, SetEligibility(i, e)
      PROVE  Quiet
  BY <1>3 DEF SetEligibility, Quiet
<1>4. ASSUME NEW i \in Interviewers, NEW windows, GenerateSlots(i, windows)
      PROVE  Quiet
  BY <1>4 DEF GenerateSlots, FreeSlot, Quiet
<1>5. ASSUME NEW i \in Interviewers, NEW windows, Synchronize(i, windows)
      PROVE  Quiet
  <2> DEFINE future == {s \in Slots : SlotOwner[s] = i /\ StartsAt[s] > now}
             taken  == {s \in future : Occupied(s)}
  <2>1. ASSUME NEW s \in Slots, slot[s].status = "BOOKED"
        PROVE  slot'[s] = slot[s]
    BY <1>5, <2>1 DEF Synchronize, Occupied
  <2>2. ASSUME NEW s \in Slots, slot[s].status # "BOOKED"
        PROVE  slot'[s].status # "BOOKED"
    <3>1. [slot[s] EXCEPT !.status = "AVAILABLE"].status # "BOOKED"
      BY DEF TypeOK, SlotRow
    <3> QED  BY <1>5, <2>2, <3>1 DEF Synchronize, FreeSlot
  <2> QED  BY <1>5, <2>1, <2>2 DEF Synchronize, Quiet
<1> QED
  BY <1>1, <1>2, <1>3, <1>4, <1>5 DEF InterviewerNext

\* Beside the moves of open bookings only a creation and a candidate's cancellation write
\* a booking.
LEMMA ServiceSteps ==
    ASSUME TypeOK, RequestOK, [Next]_vars
    PROVE  \/ Quiet
           \/ \E b \in Bookings : CreateCommit(b)
           \/ \E b \in Bookings, target \in BookingStatus : Moves(b, target)
           \/ \E k \in Cancels : CancelApply(k)
<1>1. CASE UNCHANGED vars
  BY <1>1 DEF vars, Quiet
<1>2. ASSUME NEW t \in Tokens, HoldNext(t)
      PROVE  Quiet
  BY <1>2, HoldQuiet
<1>3. ASSUME NEW b \in Bookings, CreateNext(b)
      PROVE  Quiet \/ CreateCommit(b)
  BY <1>3 DEF CreateNext, CreateLookup, CreateMatch, CreateLock, CreateMismatch,
              CreateConflict, CreateRelease, CreateCrash, Quiet
<1>4. ASSUME NEW b \in Bookings, NEW target \in AdminTargets, AdminTransition(b, target)
      PROVE  \E st \in BookingStatus : Moves(b, st)
  BY <1>4, Lifecycle DEF AdminTransition, Moves
<1>5. ASSUME NEW b \in Bookings, NEW type \in PaymentInputs, HandlePayment(b, type)
      PROVE  \E st \in BookingStatus : Moves(b, st)
  BY <1>5, PaymentLifecycle DEF HandlePayment, Moves
<1>6. ASSUME NEW b \in Bookings, NEW k \in Cancels, CancelRead(k, b)
      PROVE  Quiet
  BY <1>6 DEF CancelRead, Quiet
<1>7. CASE ExpireHolds \/ Tick \/ RedisLoss \/ \E i \in Interviewers : InterviewerNext(i)
  BY <1>7, EnvironmentQuiet
<1> QED
  BY <1>1, <1>2, <1>3, <1>4, <1>5, <1>6, <1>7 DEF Next, BookingNext

LEMMA CancelApplies ==
    ASSUME RequestOK, NEW k \in Cancels, CancelApply(k)
    PROVE  cancel[k].booking \in Bookings /\ Cancelled(cancel[k].booking)
BY DEF CancelApply, Cancelled, RequestOK, CancelOK

LEMMA BookingSteps ==
    ASSUME TypeOK, RequestOK, [Next]_vars
    PROVE  \/ Quiet
           \/ \E b \in Bookings : CreateCommit(b)
           \/ \E b \in Bookings, target \in BookingStatus : Moves(b, target)
           \/ \E b \in Bookings : Cancelled(b)
BY ServiceSteps, CancelApplies

-----------------------------------------------------------------------------
(* Safety                                                                  *)

\* What a status change does to a row.
LEMMA SetStatusEffect ==
    ASSUME TypeOK, RequestOK, NEW b \in Bookings, Exists(b),
           NEW target \in BookingStatus, SetStatus(b, target)
    PROVE  /\ \A a \in Bookings : a # b => booking'[a] = booking[a]
           /\ booking'[b].status = target
           /\ booking'[b].slot = booking[b].slot
           /\ booking'[b].candidate = booking[b].candidate
           /\ booking'[b].key = booking[b].key
           /\ booking[b].slot \in Slots
           /\ OccupiesTime(target) => slot' = slot
           /\ ~OccupiesTime(target) =>
                /\ slot'[booking[b].slot].status = "AVAILABLE"
                /\ \A s \in Slots : s # booking[b].slot => slot'[s] = slot[s]
           /\ target # "absent"
  BY DEF SetStatus, TypeOK, BookingRow, SlotRow, RequestOK, RowOK, BookingStatus, Terminal

\* What the commit of a create request does.
LEMMA CommitEffect ==
    ASSUME TypeOK, RequestOK, NEW b \in Bookings, CreateCommit(b)
    PROVE  /\ ~Exists(b)
           /\ \A a \in Bookings : a # b => booking'[a] = booking[a]
           /\ booking'[b].status = "PAYMENT_PENDING"
           /\ booking'[b].slot = CreateSlot(b)
           /\ booking'[b].candidate = CreateCandidate(b)
           /\ booking'[b].key = create[b].key
           /\ CreateSlot(b) \in Slots /\ CreateCandidate(b) \in Candidates
           /\ slot[CreateSlot(b)].heldBy = CreateCandidate(b)
           /\ slot'[CreateSlot(b)].status = "BOOKED"
           /\ slot'[CreateSlot(b)].heldBy = slot[CreateSlot(b)].heldBy
           /\ \A s \in Slots : s # CreateSlot(b) => slot'[s] = slot[s]
           /\ clobbered' = clobbered
<1>1. /\ ~Exists(b)
      /\ CreateSlot(b) \in Slots /\ CreateCandidate(b) \in Candidates
  BY DEF CreateCommit, RequestOK, CreateOK, HoldOK, CreateSlot, CreateCandidate
<1> QED
  BY <1>1 DEF CreateCommit, HoldMatches, TypeOK

LEMMA OverlapSelf == \A s \in Slots : Overlap(s, s)
BY BookingAssumption DEF Overlap

LEMMA OverlapSymmetric == \A s, r \in Slots : Overlap(s, r) <=> Overlap(r, s)
BY DEF Overlap

\* create_booking is the only step that takes time, and the constraints of the table
\* let it take free time only.
LEMMA NextNoDoubleBooking ==
    ASSUME TypeOK, RequestOK, NoDoubleBooking, [Next]_vars
    PROVE  NoDoubleBooking'
<1>1. CASE Quiet
  BY <1>1 DEF Quiet, NoDoubleBooking, Occupying, Exists
<1>2. ASSUME NEW b \in Bookings, CreateCommit(b)
      PROVE  NoDoubleBooking'
  <2>1. \A o \in Bookings :
            Occupying(o) /\ (\/ booking[o].candidate = CreateCandidate(b)
                             \/ SlotOwner[booking[o].slot] = SlotOwner[CreateSlot(b)])
               => /\ ~Overlap(booking[o].slot, CreateSlot(b))
                  /\ ~Overlap(CreateSlot(b), booking[o].slot)
    <3> SUFFICES ASSUME NEW o \in Bookings, Occupying(o),
                        \/ booking[o].candidate = CreateCandidate(b)
                        \/ SlotOwner[booking[o].slot] = SlotOwner[CreateSlot(b)]
                 PROVE  /\ ~Overlap(booking[o].slot, CreateSlot(b))
                        /\ ~Overlap(CreateSlot(b), booking[o].slot)
      OBVIOUS
    <3>1. ~Overlap(booking[o].slot, CreateSlot(b))
      BY <1>2 DEF CreateCommit, Refused
    <3>2. booking[o].slot \in Slots /\ CreateSlot(b) \in Slots
      BY <1>2, CommitEffect DEF RequestOK, RowOK, Occupying
    <3> QED  BY <3>1, <3>2, OverlapSymmetric
  <2>2. \A o \in Bookings : o # b => (Occupying(o)' <=> Occupying(o))
    BY <1>2, CommitEffect DEF Occupying, Exists
  <2> QED  BY <1>2, <2>1, <2>2, CommitEffect DEF NoDoubleBooking
<1>3. ASSUME NEW b \in Bookings, NEW target \in BookingStatus, SetStatus(b, target),
             Exists(b), Occupying(b)' => Occupying(b)
      PROVE  NoDoubleBooking'
  <2>1. \A a \in Bookings : /\ Occupying(a)' => Occupying(a)
                            /\ booking'[a].slot = booking[a].slot
                            /\ booking'[a].candidate = booking[a].candidate
    BY <1>3, SetStatusEffect DEF Occupying, Exists
  <2> QED  BY <2>1 DEF NoDoubleBooking
<1>4. ASSUME NEW b \in Bookings, NEW target \in BookingStatus, Moves(b, target)
      PROVE  NoDoubleBooking'
  BY <1>3, <1>4 DEF Moves, Occupying, OccupiesTime
<1>5. ASSUME NEW b \in Bookings, Cancelled(b)
      PROVE  NoDoubleBooking'
  <2>1. "CANCELLED" \in BookingStatus /\ ~OccupiesTime("CANCELLED")
    BY DEF BookingStatus, Terminal, OccupiesTime
  <2>2. ~Occupying(b)'
    BY <1>5, <2>1, SetStatusEffect DEF Cancelled, Occupying
  <2> QED  BY <1>3, <1>5, <2>1, <2>2 DEF Cancelled
<1> QED
  BY <1>1, <1>2, <1>4, <1>5, BookingSteps

LEMMA NextBookedByItsHolder ==
    ASSUME TypeOK, RequestOK, BookedByItsHolder, [Next]_vars
    PROVE  BookedByItsHolder'
<1> SUFFICES ASSUME NEW s \in Slots, slot'[s].status = "BOOKED"
             PROVE  \E b \in Bookings : /\ Occupying(b)'
                                        /\ booking'[b].slot = s
                                        /\ booking'[b].candidate = slot'[s].heldBy
  BY DEF BookedByItsHolder
<1>1. CASE Quiet
  BY <1>1 DEF Quiet, BookedByItsHolder, Occupying, Exists
<1>2. ASSUME NEW b \in Bookings, CreateCommit(b)
      PROVE  \E o \in Bookings : /\ Occupying(o)' /\ booking'[o].slot = s
                                 /\ booking'[o].candidate = slot'[s].heldBy
  <2>1. Occupying(b)'
    BY <1>2, CommitEffect DEF Occupying, Exists, OccupiesTime, Terminal
  <2>2. CASE s = CreateSlot(b)
    BY <1>2, <2>1, <2>2, CommitEffect
  <2>3. CASE s # CreateSlot(b)
    BY <1>2, <2>3, CommitEffect DEF BookedByItsHolder, Occupying, Exists
  <2> QED  BY <2>2, <2>3
<1>3. ASSUME NEW b \in Bookings, NEW target \in BookingStatus, SetStatus(b, target),
             Exists(b)
      PROVE  \E o \in Bookings : /\ Occupying(o)' /\ booking'[o].slot = s
                                 /\ booking'[o].candidate = slot'[s].heldBy
  <2>1. CASE OccupiesTime(target)
    <3>1. \A o \in Bookings : Occupying(o) => Occupying(o)'
      BY <1>3, <2>1, SetStatusEffect DEF Occupying, Exists
    <3> QED  BY <1>3, <2>1, <3>1, SetStatusEffect DEF BookedByItsHolder
  <2>2. CASE ~OccupiesTime(target)
    <3>1. s # booking[b].slot /\ slot'[s] = slot[s]
      BY <1>3, <2>2, SetStatusEffect
    <3> QED  BY <1>3, <3>1, SetStatusEffect DEF BookedByItsHolder, Occupying, Exists
  <2> QED  BY <2>1, <2>2
<1> QED
  BY <1>1, <1>2, <1>3, BookingSteps DEF Moves, Cancelled, BookingStatus, Terminal

LEMMA NextOccupiedIsBooked ==
    ASSUME TypeOK, RequestOK, NoDoubleBooking, OccupiedIsBooked, [Next]_vars
    PROVE  OccupiedIsBooked'
<1> SUFFICES ASSUME NEW a \in Bookings, Occupying(a)', booking'[a].slot \notin clobbered'
             PROVE  slot'[booking'[a].slot].status = "BOOKED"
  BY DEF OccupiedIsBooked
<1>1. CASE Quiet
  BY <1>1 DEF Quiet, OccupiedIsBooked, Occupying, Exists, RequestOK, RowOK
<1>2. ASSUME NEW b \in Bookings, CreateCommit(b)
      PROVE  slot'[booking'[a].slot].status = "BOOKED"
  <2>1. CASE a = b
    BY <1>2, <2>1, CommitEffect
  <2>2. CASE a # b
    BY <1>2, <2>2, CommitEffect DEF OccupiedIsBooked, Occupying, Exists, RequestOK, RowOK
  <2> QED  BY <2>1, <2>2
<1>3. ASSUME NEW b \in Bookings, NEW target \in BookingStatus, SetStatus(b, target),
             Exists(b), clobbered \subseteq clobbered',
             Occupying(b) \/ booking[b].slot \in clobbered', Occupying(b)' => Occupying(b)
      PROVE  slot'[booking'[a].slot].status = "BOOKED"
  <2>1. /\ Occupying(a) /\ booking'[a].slot = booking[a].slot
        /\ booking[a].slot \in Slots /\ slot[booking[a].slot].status = "BOOKED"
    BY <1>3, SetStatusEffect DEF Occupying, Exists, OccupiedIsBooked, RequestOK, RowOK
  <2>2. CASE OccupiesTime(target)
    BY <1>3, <2>1, <2>2, SetStatusEffect
  <2>3. CASE ~OccupiesTime(target)
    <3>1. a # b
      BY <1>3, <2>3, SetStatusEffect DEF Occupying
    <3>2. booking[a].slot # booking[b].slot
      BY <1>3, <2>1, <3>1, OverlapSelf DEF NoDoubleBooking
    <3> QED  BY <1>3, <2>1, <2>3, <3>2, SetStatusEffect
  <2> QED  BY <2>2, <2>3
<1>4. ASSUME NEW b \in Bookings, NEW target \in BookingStatus, Moves(b, target)
      PROVE  slot'[booking'[a].slot].status = "BOOKED"
  BY <1>3, <1>4 DEF Moves, Occupying, OccupiesTime
<1>5. ASSUME NEW b \in Bookings, Cancelled(b)
      PROVE  slot'[booking'[a].slot].status = "BOOKED"
  <2>1. "CANCELLED" \in BookingStatus /\ ~OccupiesTime("CANCELLED")
    BY DEF BookingStatus, Terminal, OccupiesTime
  <2>2. ~Occupying(b)'
    BY <1>5, <2>1, SetStatusEffect DEF Cancelled, Occupying
  <2> QED  BY <1>3, <1>5, <2>1, <2>2 DEF Cancelled
<1> QED
  BY <1>1, <1>2, <1>4, <1>5, BookingSteps

\* The inductive invariant: types, what requests carry, and the agreement of slots
\* and bookings.
IInv ==
    /\ TypeOK
    /\ RequestOK
    /\ NoDoubleBooking
    /\ BookedByItsHolder
    /\ OccupiedIsBooked

LEMMA InitIInv == Init => IInv
<1> SUFFICES ASSUME Init PROVE IInv
  OBVIOUS
<1>1. TypeOK /\ RequestOK
  BY InitType, InitRequest
<1>2. NoDoubleBooking /\ BookedByItsHolder /\ OccupiedIsBooked
  BY DEF Init, NoDoubleBooking, BookedByItsHolder, OccupiedIsBooked, Occupying, Exists,
         FreeSlot
<1> QED
  BY <1>1, <1>2 DEF IInv

LEMMA NextIInv == IInv /\ [Next]_vars => IInv'
BY NextType, NextRequest, NextNoDoubleBooking, NextBookedByItsHolder,
   NextOccupiedIsBooked DEF IInv

THEOREM Inductive == Spec => []IInv
BY InitIInv, NextIInv, PTL DEF Spec

\* No candidate and no interviewer is booked twice at one time, for any number of
\* racing requests, cancellations and payment events.
THEOREM CalendarSafe == Spec => []NoDoubleBooking
<1>1. IInv => NoDoubleBooking
  BY DEF IInv
<1> QED
  BY <1>1, Inductive, PTL

\* A slot shown as booked is booked by the candidate who held it.
THEOREM BookedSlotsAreTaken == Spec => []BookedByItsHolder
<1>1. IInv => BookedByItsHolder
  BY DEF IInv
<1> QED
  BY <1>1, Inductive, PTL

\* A booking keeps its slot unless a cancellation hits an ended booking of the slot:
\* the stale read of cancel_by_candidate is the only leak.
THEOREM OnlyStaleCancelsLeak == Spec => []OccupiedIsBooked
<1>1. IInv => OccupiedIsBooked
  BY DEF IInv
<1> QED
  BY <1>1, Inductive, PTL

-----------------------------------------------------------------------------
(* Idempotency keys                                                        *)

\* A status change keeps the candidate and the key of every row.
LEMMA MoveKeepsKeys ==
    ASSUME TypeOK, RequestOK, OneBookingPerKey, NEW b \in Bookings, Exists(b),
           NEW target \in BookingStatus, SetStatus(b, target)
    PROVE  OneBookingPerKey'
<1>1. \A a \in Bookings : /\ Exists(a)' => Exists(a)
                          /\ booking'[a].candidate = booking[a].candidate
                          /\ booking'[a].key = booking[a].key
  BY SetStatusEffect DEF Exists
<1> QED
  BY <1>1 DEF OneBookingPerKey

\* A commit inserts a key its candidate has no booking under.
LEMMA CommitTakesNewKey ==
    ASSUME TypeOK, RequestOK, OneBookingPerKey, NEW b \in Bookings, CreateCommit(b)
    PROVE  OneBookingPerKey'
<1>1. \A o \in Bookings : Exists(o) => \/ booking[o].candidate # CreateCandidate(b)
                                       \/ booking[o].key # create[b].key
  BY DEF CreateCommit, Refused, Recorded
<1>2. /\ booking'[b].candidate = CreateCandidate(b) /\ booking'[b].key = create[b].key
      /\ \A o \in Bookings : o # b => booking'[o] = booking[o]
  BY CommitEffect
<1> QED
  BY <1>1, <1>2 DEF OneBookingPerKey, Exists

LEMMA NextOneBookingPerKey ==
    ASSUME TypeOK, RequestOK, OneBookingPerKey, [Next]_vars
    PROVE  OneBookingPerKey'
<1>1. CASE Quiet
  BY <1>1 DEF Quiet, OneBookingPerKey, Exists
<1>2. ASSUME NEW b \in Bookings, NEW target \in BookingStatus, Moves(b, target)
      PROVE  OneBookingPerKey'
  BY <1>2, MoveKeepsKeys DEF Moves
<1>3. ASSUME NEW b \in Bookings, Cancelled(b)
      PROVE  OneBookingPerKey'
  BY <1>3, MoveKeepsKeys DEF Cancelled, BookingStatus, Terminal
<1> QED
  BY <1>1, <1>2, <1>3, CommitTakesNewKey, BookingSteps

\* However create requests with one idempotency key interleave, their candidate has
\* at most one booking under it.
THEOREM KeysAreUnique == Spec => []OneBookingPerKey
<1>1. Init => OneBookingPerKey
  BY DEF Init, OneBookingPerKey, Exists
<1>2. IInv /\ OneBookingPerKey /\ [Next]_vars => OneBookingPerKey'
  BY NextOneBookingPerKey DEF IInv
<1> QED
  BY <1>1, <1>2, Inductive, PTL DEF Spec

-----------------------------------------------------------------------------
(* Refinement of the calendar                                              *)

\* A row that is not on disk carries no slot and no candidate.
EmptyRows == \A b \in Bookings :
    ~Exists(b) => booking[b].slot = None /\ booking[b].candidate = None

CalendarStep == [Appointments!Next]_([b \in Bookings |-> Appointment(b)])

\* One change of one appointment is one change of the table of appointments.
LEMMA OneEntryChanges ==
    ASSUME NEW b \in Bookings, \A a \in Bookings : a # b => booking'[a] = booking[a]
    PROVE  [a \in Bookings |-> Appointment(a)]' =
               [[a \in Bookings |-> Appointment(a)] EXCEPT ![b] = Appointment(b)']
BY DEF Appointment, Exists

\* A commit takes free time, in the calendar's sense.
LEMMA CommitTakes ==
    ASSUME TypeOK, RequestOK, EmptyRows, NEW b \in Bookings, CreateCommit(b)
    PROVE  CalendarStep /\ EmptyRows'
<1> DEFINE c == CreateCandidate(b)
           s == CreateSlot(b)
<1>1. Appointment(b).state = "free" /\ c \in Candidates /\ s \in Slots
  BY CommitEffect DEF Appointment
<1>2. Appointment(b)' = [state |-> "active", candidate |-> c, slot |-> s]
  BY CommitEffect DEF Appointment, Exists, OccupiesTime, Terminal
<1>3. ASSUME NEW o \in Bookings
      PROVE  ~Appointments!Clash(c, s, Appointment(o))
  <2>1. Appointment(o).state = "active" => Occupying(o)
    BY DEF Appointment, Occupying
  <2>2. /\ Appointment(o).candidate = booking[o].candidate
        /\ Appointment(o).slot = booking[o].slot
    BY DEF Appointment
  <2>3. Occupying(o) /\ (booking[o].candidate = c \/ SlotOwner[booking[o].slot] = SlotOwner[s])
           => ~Overlap(booking[o].slot, s)
    BY DEF CreateCommit, Refused
  <2> QED  BY <2>1, <2>2, <2>3 DEF Appointments!Clash, Overlap
<1>4. Appointments!Take(b, c, s)
  BY <1>1, <1>2, <1>3, OneEntryChanges, CommitEffect DEF Appointments!Take
<1>5. EmptyRows'
  BY CommitEffect DEF EmptyRows, Exists
<1> QED
  BY <1>1, <1>4, <1>5 DEF CalendarStep, Appointments!Next

\* A status change gives the time back or leaves the appointment as it is.
LEMMA MoveGivesBack ==
    ASSUME TypeOK, RequestOK, EmptyRows, NEW b \in Bookings, Exists(b),
           NEW target \in BookingStatus, SetStatus(b, target),
           Occupying(b)' => Occupying(b)
    PROVE  CalendarStep /\ EmptyRows'
<1>1. EmptyRows'
  BY SetStatusEffect DEF EmptyRows, Exists
<1>2. CASE Occupying(b) /\ ~Occupying(b)'
  <2>1. Appointment(b).state = "active"
    BY <1>2 DEF Appointment, Occupying
  <2>2. Appointment(b)' = [Appointment(b) EXCEPT !.state = "ended"]
    BY <1>2, SetStatusEffect DEF Appointment, Occupying, Exists
  <2>3. Appointments!GiveBack(b)
    BY <2>1, <2>2, OneEntryChanges, SetStatusEffect DEF Appointments!GiveBack
  <2> QED  BY <1>1, <2>3 DEF CalendarStep, Appointments!Next
<1>3. CASE Occupying(b)' <=> Occupying(b)
  <2>1. Appointment(b)' = Appointment(b)
    BY <1>3, SetStatusEffect DEF Appointment, Occupying, Exists
  <2>2. [a \in Bookings |-> Appointment(a)]' = [a \in Bookings |-> Appointment(a)]
    BY <2>1, SetStatusEffect DEF Appointment, Exists
  <2> QED  BY <1>1, <2>2 DEF CalendarStep
<1> QED
  BY <1>2, <1>3

LEMMA NextCalendar ==
    ASSUME TypeOK, RequestOK, EmptyRows, [Next]_vars
    PROVE  CalendarStep /\ EmptyRows'
<1>1. CASE Quiet
  <2>1. [a \in Bookings |-> Appointment(a)]' = [a \in Bookings |-> Appointment(a)]
    BY <1>1 DEF Quiet, Appointment, Exists
  <2> QED  BY <1>1, <2>1 DEF Quiet, CalendarStep, EmptyRows, Exists
<1>2. ASSUME NEW b \in Bookings, NEW target \in BookingStatus, Moves(b, target)
      PROVE  CalendarStep /\ EmptyRows'
  BY <1>2, MoveGivesBack DEF Moves, Occupying, OccupiesTime
<1>3. ASSUME NEW b \in Bookings, Cancelled(b)
      PROVE  CalendarStep /\ EmptyRows'
  <2>1. "CANCELLED" \in BookingStatus /\ ~OccupiesTime("CANCELLED")
    BY DEF BookingStatus, Terminal, OccupiesTime
  <2>2. ~Occupying(b)'
    BY <1>3, <2>1, SetStatusEffect DEF Cancelled, Occupying
  <2> QED  BY <1>3, <2>1, <2>2, MoveGivesBack DEF Cancelled
<1> QED
  BY <1>1, <1>2, <1>3, CommitTakes, BookingSteps

LEMMA InitCalendar == Init => Appointments!Init /\ EmptyRows
<1> SUFFICES ASSUME Init PROVE Appointments!Init /\ EmptyRows
  OBVIOUS
<1>1. \A b \in Bookings :
        Appointment(b) = [state |-> "free", candidate |-> None, slot |-> None]
  BY DEF Init, Appointment, Exists
<1> QED
  BY <1>1 DEF Init, EmptyRows, Exists, Appointments!Init

\* booking-service implements the calendar: every step of every handler takes free
\* time for one booking, gives the time of one booking back for good, or changes no
\* appointment.
THEOREM Refinement == Spec => ImplementsCalendar
<1>1. IInv /\ EmptyRows /\ [Next]_vars => CalendarStep /\ EmptyRows'
  BY NextCalendar DEF IInv
<1>2. CalendarStep => [Appointments!Next]_([b \in Bookings |-> Appointment(b)])
  BY DEF CalendarStep
<1> QED
  BY InitCalendar, <1>1, <1>2, Inductive, PTL DEF Spec, ImplementsCalendar, Appointments!Spec

-----------------------------------------------------------------------------
(* What the outbox tells                                                   *)

\* What holds up OutboxTellsTheStory: rows not on disk are empty, so their slot is
\* not one of the clobbered ones.
OutboxInv == EmptyRows /\ OutboxTellsTheStory

\* A step that touches neither bookings nor outbox.
LEMMA SilentStep ==
    ASSUME OutboxInv, UNCHANGED <<booking, outbox, clobbered>>
    PROVE  OutboxInv'
BY DEF OutboxInv, EmptyRows, Exists, OutboxTellsTheStory, OutboxStory

\* One row and its announcement: the other rows keep their stories.
LEMMA OneStory ==
    ASSUME OutboxInv, NEW b \in Bookings, Exists(b)',
           \A a \in Bookings : a # b => booking'[a] = booking[a] /\ outbox'[a] = outbox[a],
           clobbered \subseteq clobbered',
           booking'[b].slot \notin clobbered' => outbox'[b] \in OutboxStory(b)'
    PROVE  OutboxInv'
<1>1. ASSUME NEW a \in Bookings
      PROVE  /\ ~Exists(a)' => booking'[a].slot = None /\ booking'[a].candidate = None
             /\ booking'[a].slot \notin clobbered' => outbox'[a] \in OutboxStory(a)'
  <2>1. CASE a = b
    BY <2>1
  <2>2. CASE a # b
    <3>1. OutboxStory(a)' = OutboxStory(a)
      BY <2>2 DEF OutboxStory
    <3> QED  BY <2>2, <3>1 DEF OutboxInv, EmptyRows, Exists, OutboxTellsTheStory
  <2> QED  BY <2>1, <2>2
<1> QED
  BY <1>1 DEF OutboxInv, EmptyRows, OutboxTellsTheStory

\* One more announcement.
LEMMA StoryGrows ==
    ASSUME NEW n \in 0 .. 2, NEW s \in Seq(EventType), NEW t \in Seq(EventType),
           NEW e \in EventType, Len(s) = n, Len(t) = n + 1, t[n + 1] = e,
           \A i \in 1 .. n : t[i] = s[i]
    PROVE  Append(s, e) = t
<1> DEFINE u == Append(s, e)
<1>1. /\ u \in Seq(EventType) /\ Len(u) = Len(s) + 1 /\ u[Len(s) + 1] = e
      /\ \A i \in 1 .. Len(s) : u[i] = s[i]
  BY AppendProperties
<1> HIDE DEF u
<1>2. u = t
  BY <1>1, SeqEqual
<1> QED  BY <1>2 DEF u

\* How the story of a booking goes on.
LEMMA StoryGoesOn ==
    /\ Append(<<>>, "created") = <<"created">>
    /\ \A e \in EventType : /\ Append(<<"created">>, e) = <<"created", e>>
                            /\ Append(<<"created", "confirmed">>, e) = <<"created", "confirmed", e>>
<1>1. {"created", "confirmed"} \subseteq EventType
  BY DEF EventType
<1> DEFINE none == <<>>
           one  == <<"created">>
           two  == <<"created", "confirmed">>
<1>2. none \in Seq(EventType) /\ Len(none) = 0
  OBVIOUS
<1>3. one \in Seq(EventType) /\ Len(one) = 1 /\ one[1] = "created"
  BY <1>1
<1>4. two \in Seq(EventType) /\ Len(two) = 2 /\ two[1] = "created" /\ two[2] = "confirmed"
  BY <1>1
<1>5. ASSUME NEW e \in EventType
      PROVE  Append(one, e) = <<"created", e>> /\ Append(two, e) = <<"created", "confirmed", e>>
  <2> DEFINE s2 == <<"created", e>>
             s3 == <<"created", "confirmed", e>>
  <2>1. s2 \in Seq(EventType) /\ Len(s2) = 2 /\ s2[1] = "created" /\ s2[2] = e
    BY <1>1
  <2>2. /\ s3 \in Seq(EventType) /\ Len(s3) = 3
        /\ s3[1] = "created" /\ s3[2] = "confirmed" /\ s3[3] = e
    BY <1>1
  <2> HIDE DEF one, two, s2, s3
  <2>3. Append(one, e) = s2
    BY <1>3, <2>1, StoryGrows
  <2>4. Append(two, e) = s3
    BY <1>4, <2>2, StoryGrows
  <2> QED  BY <2>3, <2>4 DEF s2, s3
<1> HIDE DEF none, one
<1>6. Append(none, "created") = one
  BY <1>1, <1>2, <1>3, StoryGrows
<1> QED  BY <1>5, <1>6 DEF none, one, two

LEMMA CommitTells ==
    ASSUME TypeOK, RequestOK, OutboxInv, NEW b \in Bookings, CreateCommit(b)
    PROVE  OutboxInv'
<1>1. outbox[b] = <<>>
  <2>1. booking[b].slot = None /\ None \notin clobbered /\ booking[b].status = "absent"
    BY CommitEffect, BookingAssumption DEF OutboxInv, EmptyRows, TypeOK, Exists
  <2> QED  BY <2>1 DEF OutboxInv, OutboxTellsTheStory, OutboxStory
<1>2. outbox'[b] = <<"created">> /\ \A a \in Bookings : a # b => outbox'[a] = outbox[a]
  BY <1>1, StoryGoesOn DEF CreateCommit, TypeOK
<1>3. Exists(b)' /\ outbox'[b] \in OutboxStory(b)'
  BY <1>2, CommitEffect DEF Exists, OutboxStory
<1> QED
  BY <1>2, <1>3, CommitEffect, OneStory

LEMMA AdminTells ==
    ASSUME TypeOK, RequestOK, OutboxInv, NEW b \in Bookings, NEW target \in AdminTargets,
           AdminTransition(b, target)
    PROVE  OutboxInv'
<1>1. target \in BookingStatus /\ SetStatus(b, target) /\ Exists(b)
  BY Lifecycle DEF AdminTransition
<1>2. Exists(b)' /\ booking'[b].status = target /\ booking'[b].slot = booking[b].slot
  BY <1>1, SetStatusEffect DEF Exists
<1>3. \A a \in Bookings : a # b => booking'[a] = booking[a] /\ outbox'[a] = outbox[a]
  BY <1>1, SetStatusEffect DEF AdminTransition, Announce, TypeOK
<1>4. ASSUME booking[b].slot \notin clobbered
      PROVE  outbox'[b] \in OutboxStory(b)'
  <2>1. outbox[b] \in OutboxStory(b)
    BY <1>4 DEF OutboxInv, OutboxTellsTheStory
  <2>2. outbox'[b] = CASE target = "CONFIRMED"   -> Append(outbox[b], "confirmed")
                       [] target = "CANCELLED"   -> Append(outbox[b], "cancelled")
                       [] target = "RESCHEDULED" -> Append(outbox[b], "rescheduled")
                       [] OTHER                  -> outbox[b]
    BY DEF AdminTransition, Announce, TypeOK
  <2>3. CanTransition(booking[b].status, target)
    BY DEF AdminTransition
  <2> HIDE DEF OutboxInv
  <2>4. CASE booking[b].status \in {"PAYMENT_PENDING", "BOOKED"}
    <3>1. OutboxStory(b) = {<<"created">>}
      BY <2>4 DEF OutboxStory
    <3>2. target \in {"BOOKED", "PAYMENT_FAILED", "CONFIRMED", "CANCELLED", "REFUNDED"}
      BY <2>3, <2>4 DEF CanTransition, Allowed
    <3>3. "cancelled" \in EventType /\ "confirmed" \in EventType
      BY DEF EventType
    <3>4. CASE target = "CANCELLED"
      BY <1>2, <2>1, <2>2, <3>1, <3>3, <3>4, StoryGoesOn DEF OutboxStory
    <3>5. CASE target = "CONFIRMED"
      BY <1>2, <2>1, <2>2, <3>1, <3>3, <3>5, StoryGoesOn DEF OutboxStory
    <3>6. CASE target \in {"BOOKED", "PAYMENT_FAILED", "REFUNDED"}
      BY <1>2, <2>1, <2>2, <3>1, <3>6 DEF OutboxStory
    <3> QED  BY <3>2, <3>4, <3>5, <3>6
  <2>5. CASE booking[b].status = "CONFIRMED"
    <3>1. OutboxStory(b) = {<<"created", "confirmed">>}
      BY <2>5 DEF OutboxStory
    <3>2. target \in {"READY", "CANCELLED", "RESCHEDULED", "REFUNDED"}
      BY <2>3, <2>5 DEF CanTransition, Allowed
    <3>3. "cancelled" \in EventType /\ "rescheduled" \in EventType
      BY DEF EventType
    <3> QED  BY <1>2, <2>1, <2>2, <3>1, <3>2, <3>3, StoryGoesOn DEF OutboxStory
  <2>6. CASE booking[b].status \notin {"PAYMENT_PENDING", "BOOKED", "CONFIRMED"}
    <3>1. booking[b].status \in {"READY", "IN_PROGRESS", "COMPLETED", "FEEDBACK_PENDING",
                                 "FEEDBACK_SUBMITTED"}
      BY <2>3, <2>6 DEF CanTransition, Allowed
    <3>2. OutboxStory(b) = {<<"created", "confirmed">>}
      BY <3>1 DEF OutboxStory
    <3>3. target \in {"IN_PROGRESS", "CANDIDATE_NO_SHOW", "INTERVIEWER_NO_SHOW",
                      "TECHNICAL_FAILURE", "COMPLETED", "FEEDBACK_PENDING",
                      "FEEDBACK_SUBMITTED", "SETTLED"}
      BY <2>3, <3>1 DEF CanTransition, Allowed
    <3>4. OutboxStory(b)' = {<<"created", "confirmed">>} /\ outbox'[b] = outbox[b]
      BY <1>2, <2>2, <3>3 DEF OutboxStory
    <3> QED  BY <2>1, <3>2, <3>4
  <2> QED  BY <2>4, <2>5, <2>6
<1> QED
  BY <1>1, <1>2, <1>3, <1>4, OneStory DEF AdminTransition

LEMMA PaymentTells ==
    ASSUME TypeOK, RequestOK, OutboxInv, NEW b \in Bookings, NEW type \in PaymentInputs,
           HandlePayment(b, type)
    PROVE  OutboxInv'
<1> DEFINE path == PaymentPath(type)
           target == path[Len(path)]
<1>1. target \in BookingStatus /\ SetStatus(b, target) /\ Exists(b)
  BY PaymentLifecycle DEF HandlePayment
<1>2. /\ Exists(b)' /\ booking'[b].status = target /\ booking'[b].slot = booking[b].slot
      /\ \A a \in Bookings : a # b => booking'[a] = booking[a]
  BY <1>1, SetStatusEffect DEF Exists
<1>3. /\ \A a \in Bookings : a # b => outbox'[a] = outbox[a]
      /\ outbox'[b] = IF target = "CONFIRMED" THEN Append(outbox[b], "confirmed")
                      ELSE outbox[b]
  BY DEF HandlePayment, TypeOK
<1>4. /\ target \in {"CONFIRMED", "PAYMENT_FAILED", "REFUNDED"}
      /\ target = "CONFIRMED" => booking[b].status = "PAYMENT_PENDING"
      /\ target = "PAYMENT_FAILED" => booking[b].status = "PAYMENT_PENDING"
      /\ target = "REFUNDED" => booking[b].status \in {"BOOKED", "CONFIRMED"}
  <2>1. CASE type = "captured"
    <3>1. path = <<"BOOKED", "CONFIRMED">>
      BY <2>1 DEF PaymentPath
    <3>2. CanTransition(booking[b].status, "BOOKED")
      BY <3>1 DEF HandlePayment, PaymentAllowed
    <3> QED  BY <3>1, <3>2 DEF CanTransition, Allowed
  <2>2. CASE type = "failed"
    <3>1. path = <<"PAYMENT_FAILED">>
      BY <2>2 DEF PaymentPath
    <3>2. CanTransition(booking[b].status, "PAYMENT_FAILED")
      BY <3>1 DEF HandlePayment, PaymentAllowed
    <3> QED  BY <3>1, <3>2 DEF CanTransition, Allowed
  <2>3. CASE type = "refunded"
    <3>1. path = <<"REFUNDED">>
      BY <2>3 DEF PaymentPath
    <3>2. CanTransition(booking[b].status, "REFUNDED")
      BY <3>1 DEF HandlePayment, PaymentAllowed
    <3> QED  BY <3>1, <3>2 DEF CanTransition, Allowed
  <2> QED  BY <2>1, <2>2, <2>3, BookingAssumption
<1>5. ASSUME booking[b].slot \notin clobbered
      PROVE  outbox'[b] \in OutboxStory(b)'
  <2>1. outbox[b] \in OutboxStory(b)
    BY <1>5 DEF OutboxInv, OutboxTellsTheStory
  <2> HIDE DEF target, OutboxInv
  <2>2. CASE target = "CONFIRMED"
    BY <1>2, <1>3, <1>4, <2>1, <2>2, StoryGoesOn DEF OutboxStory, EventType
  <2>3. CASE target = "PAYMENT_FAILED"
    BY <1>2, <1>3, <1>4, <2>1, <2>3 DEF OutboxStory
  <2>4. CASE target = "REFUNDED"
    BY <1>2, <1>3, <1>4, <2>1, <2>4 DEF OutboxStory
  <2> QED  BY <1>4, <2>2, <2>3, <2>4
<1>6. clobbered' = clobbered
  BY DEF HandlePayment
<1> QED
  BY <1>2, <1>3, <1>5, <1>6, OneStory

\* A cancellation of a booking that is open by then tells it; of one that has ended,
\* it marks the slot.
LEMMA CancelTells ==
    ASSUME TypeOK, RequestOK, OutboxInv, NEW k \in Cancels, CancelApply(k)
    PROVE  OutboxInv'
<1>0. PICK b \in Bookings : b = cancel[k].booking /\ Exists(b)
  BY DEF CancelApply, RequestOK, CancelOK
<1>1. SetStatus(b, "CANCELLED")
  BY <1>0 DEF CancelApply
<1>2. "CANCELLED" \in BookingStatus
  BY DEF BookingStatus, Terminal
<1>3. /\ outbox'[b] = Append(outbox[b], "cancelled")
      /\ \A a \in Bookings : a # b => outbox'[a] = outbox[a]
  BY <1>0 DEF CancelApply, Announce, TypeOK
<1>4. /\ clobbered \subseteq clobbered'
      /\ booking[b].slot \notin clobbered' => Occupying(b) /\ booking[b].slot \notin clobbered
  BY <1>0 DEF CancelApply
<1>5. /\ Exists(b)' /\ booking'[b].status = "CANCELLED" /\ booking'[b].slot = booking[b].slot
      /\ \A a \in Bookings : a # b => booking'[a] = booking[a]
  BY <1>0, <1>1, <1>2, SetStatusEffect DEF Exists
<1>6. ASSUME booking[b].slot \notin clobbered'
      PROVE  outbox'[b] \in OutboxStory(b)'
  <2>1. outbox[b] \in OutboxStory(b) /\ Occupying(b)
    BY <1>0, <1>4, <1>6 DEF OutboxInv, OutboxTellsTheStory
  <2>2. outbox[b] \in {<<"created">>, <<"created", "confirmed">>}
    BY <2>1 DEF OutboxStory, Occupying, Exists, OccupiesTime, Terminal
  <2>3. OutboxStory(b)' = {<<"created", "cancelled">>, <<"created", "confirmed", "cancelled">>}
    BY <1>5 DEF OutboxStory
  <2> QED  BY <1>3, <2>2, <2>3, StoryGoesOn DEF EventType
<1> QED
  BY <1>3, <1>4, <1>5, <1>6, OneStory

LEMMA NextOutbox ==
    ASSUME TypeOK, RequestOK, OutboxInv, [Next]_vars
    PROVE  OutboxInv'
<1>1. CASE UNCHANGED vars
  BY <1>1, SilentStep DEF vars
<1>2. ASSUME NEW t \in Tokens, HoldNext(t)
      PROVE  UNCHANGED <<booking, outbox, clobbered>>
  BY <1>2 DEF HoldNext, HoldAcquire, HoldLock, HoldGrant, HoldRefuse, HoldFail,
              HoldRelease, HoldCrash
<1>3. ASSUME NEW b \in Bookings, CreateNext(b)
      PROVE  CreateCommit(b) \/ UNCHANGED <<booking, outbox, clobbered>>
  BY <1>3 DEF CreateNext, CreateLookup, CreateMatch, CreateLock, CreateMismatch,
              CreateConflict, CreateRelease, CreateCrash
<1>4. ASSUME NEW b \in Bookings, NEW k \in Cancels, CancelRead(k, b)
      PROVE  UNCHANGED <<booking, outbox, clobbered>>
  BY <1>4 DEF CancelRead
<1>5. ASSUME ExpireHolds \/ Tick \/ RedisLoss \/ \E i \in Interviewers : InterviewerNext(i)
      PROVE  UNCHANGED <<booking, outbox, clobbered>>
  BY <1>5 DEF ExpireHolds, Tick, RedisLoss, InterviewerNext, SetEligibility,
              GenerateSlots, Synchronize
<1> QED
  BY <1>1, <1>2, <1>3, <1>4, <1>5, SilentStep, CommitTells, AdminTells, PaymentTells,
     CancelTells DEF Next, BookingNext

\* What is announced of a booking fits what became of it, unless a stale cancellation
\* hit an ended booking of its slot.
THEOREM OutboxIsTrue == Spec => []OutboxTellsTheStory
<1>1. Init => OutboxInv
  BY InitCalendar DEF Init, OutboxInv, OutboxTellsTheStory, OutboxStory
<1>2. IInv /\ OutboxInv /\ [Next]_vars => OutboxInv'
  BY NextOutbox DEF IInv
<1>3. OutboxInv => OutboxTellsTheStory
  BY DEF OutboxInv
<1> QED
  BY <1>1, <1>2, <1>3, Inductive, PTL DEF Spec

-----------------------------------------------------------------------------
(* Holds                                                                   *)

\* A request that is past its commit, answered or not.
Past == {"granted", "refused", "done"}

\* A hold is written to the slot row, and its request told of it or not.
Writes(t) ==
    /\ hold[t].pc = "locked"
    /\ Holdable(hold[t])
    /\ slot' = [slot EXCEPT ![hold[t].slot] = HeldRow(t)]
    /\ \E pc \in {"granted", "refused"} : hold' = [hold EXCEPT ![t].pc = pc]
    /\ UNCHANGED <<now, create>>

\* What keeps holds and their keys together: no request is ahead of the clock, a held
\* slot carries the token of a request past its commit, and no committed create request
\* still has the token of a held slot.
HoldsInv ==
    /\ \A t \in Tokens : hold[t].at <= now
    /\ \A s \in Slots : slot[s].status = "HELD" =>
          /\ slot[s].token \in Tokens
          /\ hold[slot[s].token].pc \in Past /\ hold[slot[s].token].slot = s
    /\ \A b \in Bookings, s \in Slots :
          create[b].pc = "committed" /\ slot[s].status = "HELD"
              => slot[s].token # create[b].token

\* No slot becomes held, and no request gets ahead of the clock, goes back before its
\* commit or commits.
Still ==
    /\ \A s \in Slots : slot'[s].status = "HELD" => slot'[s] = slot[s]
    /\ \A t \in Tokens : /\ hold[t].pc \in Past =>
                              hold'[t].pc \in Past /\ hold'[t].slot = hold[t].slot
                         /\ hold'[t].at <= now'
    /\ \A b \in Bookings : create'[b].pc = "committed" => create'[b] = create[b]

LEMMA StillHolds ==
    ASSUME HoldsInv, Still
    PROVE  HoldsInv'
<1>1. \A t \in Tokens : hold'[t].at <= now'
  BY DEF Still
<1>2. ASSUME NEW s \in Slots, slot'[s].status = "HELD"
      PROVE  /\ slot'[s].token \in Tokens
             /\ hold'[slot'[s].token].pc \in Past /\ hold'[slot'[s].token].slot = s
  <2>1. slot'[s] = slot[s]
    BY <1>2 DEF Still
  <2> QED  BY <1>2, <2>1 DEF HoldsInv, Still
<1>3. ASSUME NEW b \in Bookings, NEW s \in Slots, create'[b].pc = "committed",
             slot'[s].status = "HELD"
      PROVE  slot'[s].token # create'[b].token
  BY <1>3 DEF HoldsInv, Still
<1> QED
  BY <1>1, <1>2, <1>3 DEF HoldsInv

\* A hold is written only by the request that has locked the row, with a new token.
LEMMA WriteHolds ==
    ASSUME TypeOK, RequestOK, HoldsInv, NEW t \in Tokens, Writes(t)
    PROVE  HoldsInv'
<1>1. /\ hold[t].slot \in Slots /\ hold[t].pc = "locked" /\ hold \in [Tokens -> HoldRequest]
      /\ hold[t].candidate \in Candidates
  BY DEF Writes, RequestOK, HoldOK, TypeOK
<1>2. /\ hold'[t].pc \in Past /\ hold'[t].slot = hold[t].slot /\ hold'[t].at = hold[t].at
      /\ \A u \in Tokens : u # t => hold'[u] = hold[u]
  BY <1>1 DEF Writes, HoldRequest, Past
<1>3. /\ slot'[hold[t].slot].token = t
      /\ \A s \in Slots : s # hold[t].slot => slot'[s] = slot[s]
  BY <1>1 DEF Writes, HeldRow, TypeOK
<1>4. /\ \A b \in Bookings : create[b].pc = "committed" => create[b].token # t
      /\ create' = create /\ now' = now
  BY <1>1 DEF RequestOK, CreateOK, Writes
<1> QED
  BY <1>1, <1>2, <1>3, <1>4 DEF HoldsInv

\* A commit turns the hold of its token into a booking.
LEMMA CommitHolds ==
    ASSUME TypeOK, RequestOK, HoldsInv, NEW b \in Bookings, CreateCommit(b)
    PROVE  HoldsInv'
<1>1. /\ CreateSlot(b) \in Slots
      /\ slot'[CreateSlot(b)].status = "BOOKED"
      /\ \A s \in Slots : s # CreateSlot(b) => slot'[s] = slot[s]
  BY CommitEffect
<1>2. /\ create'[b].token = create[b].token
      /\ \A a \in Bookings : a # b => create'[a] = create[a]
      /\ hold' = hold /\ now' = now
  BY DEF CreateCommit, TypeOK, CreateRequest
<1>3. ASSUME NEW s \in Slots, slot'[s].status = "HELD"
      PROVE  slot'[s].token # create[b].token
  BY <1>1, <1>3 DEF HoldsInv, CreateSlot
<1> QED
  BY <1>1, <1>2, <1>3 DEF HoldsInv

LEMMA StatusStill ==
    ASSUME TypeOK, NEW b \in Bookings, booking[b].slot \in Slots, NEW target,
           SetStatus(b, target)
    PROVE  \A s \in Slots : slot'[s].status = "HELD" => slot'[s] = slot[s]
BY DEF SetStatus, TypeOK, SlotRow

LEMMA NextHolds ==
    ASSUME TypeOK, RequestOK, HoldsInv, [Next]_vars
    PROVE  HoldsInv'
<1>0. /\ now \in Nat /\ hold \in [Tokens -> HoldRequest]
      /\ create \in [Bookings -> CreateRequest] /\ slot \in [Slots -> SlotRow]
      /\ \A t \in Tokens : hold[t].at \in Nat /\ hold[t].at <= now
  BY DEF TypeOK, HoldRequest, HoldsInv
<1>1. CASE UNCHANGED vars
  BY <1>0, <1>1, StillHolds DEF vars, Still
<1>2. ASSUME NEW t \in Tokens, HoldNext(t)
      PROVE  Still \/ Writes(t)
  <2>1. ASSUME NEW s \in Slots, NEW c \in Candidates, HoldAcquire(t, s, c)
        PROVE  Still
    BY <1>0, <2>1 DEF HoldAcquire, Still, Past
  <2>2. CASE HoldLock(t)
    BY <1>0, <2>2 DEF HoldLock, Still, Past
  <2>3. CASE HoldRefuse(t) \/ HoldRelease(t) \/ HoldCrash(t)
    BY <1>0, <2>3 DEF HoldRefuse, HoldRelease, HoldCrash, Still, HoldRequest, Past
  <2>4. CASE HoldFail(t) /\ UNCHANGED slot
    BY <1>0, <2>4 DEF HoldFail, Still, HoldRequest, Past
  <2>5. CASE HoldGrant(t) \/ (HoldFail(t) /\ slot' # slot)
    BY <2>5 DEF HoldGrant, HoldFail, Writes
  <2> QED  BY <1>2, <2>1, <2>2, <2>3, <2>4, <2>5 DEF HoldNext
<1>3. ASSUME NEW b \in Bookings, CreateNext(b)
      PROVE  Still \/ CreateCommit(b)
  <2>1. ASSUME NEW t \in Tokens, NEW k \in Keys, CreateLookup(b, t, k)
        PROVE  Still
    BY <1>0, <2>1 DEF CreateLookup, Still
  <2>2. CASE CreateMatch(b) \/ CreateLock(b)
    BY <1>0, <2>2 DEF CreateMatch, CreateLock, Still, CreateRequest
  <2>3. CASE CreateMismatch(b) \/ CreateConflict(b) \/ CreateRelease(b) \/ CreateCrash(b)
    BY <1>0, <2>3 DEF CreateMismatch, CreateConflict, CreateRelease, CreateCrash, Still,
                      CreateRequest
  <2> QED  BY <1>3, <2>1, <2>2, <2>3 DEF CreateNext
<1>4. ASSUME NEW b \in Bookings, BookingNext(b)
      PROVE  Still
  <2>1. Exists(b) => booking[b].slot \in Slots
    BY DEF RequestOK, RowOK
  <2>2. ASSUME NEW target \in AdminTargets, AdminTransition(b, target)
        PROVE  Still
    BY <1>0, <2>1, <2>2, StatusStill DEF AdminTransition, Still
  <2>3. ASSUME NEW k \in Cancels, CancelRead(k, b)
        PROVE  Still
    BY <1>0, <2>3 DEF CancelRead, Still
  <2>4. ASSUME NEW type \in PaymentInputs, HandlePayment(b, type)
        PROVE  Still
    BY <1>0, <2>1, <2>4, StatusStill DEF HandlePayment, Still
  <2> QED  BY <1>4, <2>2, <2>3, <2>4 DEF BookingNext
<1>5. ASSUME NEW k \in Cancels, CancelApply(k)
      PROVE  Still
  <2>1. PICK b \in Bookings : b = cancel[k].booking /\ booking[b].slot \in Slots
    BY <1>5 DEF CancelApply, RequestOK, CancelOK, RowOK
  <2>2. SetStatus(b, "CANCELLED") /\ UNCHANGED <<hold, create, now>>
    BY <1>5, <2>1 DEF CancelApply
  <2>3. \A s \in Slots : slot'[s].status = "HELD" => slot'[s] = slot[s]
    BY <2>1, <2>2, StatusStill
  <2> QED  BY <1>0, <2>2, <2>3 DEF Still
<1>6. ASSUME ExpireHolds \/ Tick \/ RedisLoss
      PROVE  Still
  BY <1>0, <1>6 DEF ExpireHolds, Tick, RedisLoss, FreeSlot, Still
<1>7. ASSUME NEW i \in Interviewers, InterviewerNext(i)
      PROVE  Still
  <2>1. ASSUME NEW e \in EligibilityInputs, SetEligibility(i, e)
        PROVE  Still
    BY <1>0, <2>1 DEF SetEligibility, Still
  <2>2. ASSUME NEW windows, GenerateSlots(i, windows)
        PROVE  Still
    BY <1>0, <2>2 DEF GenerateSlots, FreeSlot, Still
  <2>3. ASSUME NEW windows, Synchronize(i, windows)
        PROVE  Still
    <3>1. \A s \in Slots : [slot[s] EXCEPT !.status = "AVAILABLE"].status # "HELD"
      BY <1>0 DEF SlotRow
    <3>2. \A s \in Slots : slot'[s].status = "HELD" => slot'[s] = slot[s]
      BY <2>3, <3>1 DEF Synchronize, FreeSlot
    <3> QED  BY <1>0, <2>3, <3>2 DEF Synchronize, Still
  <2> QED  BY <1>7, <2>1, <2>2, <2>3 DEF InterviewerNext
<1> QED
  BY <1>1, <1>2, <1>3, <1>4, <1>5, <1>6, <1>7, StillHolds, WriteHolds, CommitHolds DEF Next

THEOREM HoldsFit == Spec => []HoldsInv
<1>1. Init => HoldsInv
  BY DEF Init, HoldsInv, FreeSlot
<1>2. IInv /\ HoldsInv /\ [Next]_vars => HoldsInv'
  BY NextHolds DEF IInv
<1> QED
  BY <1>1, <1>2, Inductive, PTL DEF Spec

\* A status change touches a live hold only where a cancellation was late.
LEMMA StatusHonours ==
    ASSUME IInv, NEW b \in Bookings, Exists(b), NEW target, SetStatus(b, target),
           Occupying(b) \/ booking[b].slot \in clobbered', clobbered \subseteq clobbered',
           NEW s \in Slots, LiveHold(s), slot'[s] # slot[s]
    PROVE  s \in clobbered'
<1>1. s = booking[b].slot
  BY DEF SetStatus, IInv, TypeOK
<1>2. slot[s].status # "BOOKED"
  BY DEF LiveHold
<1> QED
  BY <1>1, <1>2 DEF IInv, OccupiedIsBooked

\* Nothing but its own booking ends a live hold before its time.
THEOREM HoldsAreHonoured == Spec => HoldHonoured
<1> DEFINE Honours == \A s \in Slots :
         LiveHold(s) /\ slot'[s] # slot[s] /\ s \notin clobbered' =>
            slot'[s].status = "BOOKED" /\ slot'[s].heldBy = slot[s].heldBy
<1>1. ASSUME IInv, HoldsInv, [Next]_vars PROVE Honours
  <2> SUFFICES ASSUME NEW s \in Slots, LiveHold(s), slot'[s] # slot[s], s \notin clobbered'
               PROVE  slot'[s].status = "BOOKED" /\ slot'[s].heldBy = slot[s].heldBy
    OBVIOUS
  <2>0. slot[s].status = "HELD" /\ slot[s].expires > now /\ slot \in [Slots -> SlotRow]
    BY <1>1 DEF LiveHold, IInv, TypeOK
  <2>1. CASE UNCHANGED slot
    BY <2>1
  <2>2. ASSUME NEW t \in Tokens, Writes(t)
        PROVE  FALSE
    <3>1. hold[t].slot = s
      BY <2>0, <2>2 DEF Writes
    <3>2. slot[s].expires <= hold[t].at
      BY <2>0, <2>2, <3>1 DEF Writes, Holdable
    <3>3. hold[t].at \in Nat /\ now \in Nat /\ slot[s].expires \in Nat /\ hold[t].at <= now
      BY <1>1, <2>0 DEF HoldsInv, IInv, TypeOK, HoldRequest, SlotRow
    <3> QED  BY <2>0, <3>2, <3>3
  <2>3. ASSUME NEW b \in Bookings, CreateCommit(b)
        PROVE  slot'[s].status = "BOOKED" /\ slot'[s].heldBy = slot[s].heldBy
    BY <1>1, <2>3, CommitEffect DEF IInv
  <2>4. ASSUME NEW b \in Bookings, BookingNext(b)
        PROVE  FALSE
    <3>1. UNCHANGED clobbered
      BY <2>4 DEF BookingNext, AdminTransition, CancelRead, HandlePayment
    <3>2. ASSUME NEW target, SetStatus(b, target), Exists(b),
                 booking[b].status \in BookingStatus \ Terminal
          PROVE  FALSE
      BY <1>1, <3>1, <3>2, StatusHonours DEF Occupying, OccupiesTime
    <3>3. ASSUME NEW target \in AdminTargets, AdminTransition(b, target)
          PROVE  FALSE
      BY <3>2, <3>3, Lifecycle DEF AdminTransition
    <3>4. ASSUME NEW type \in PaymentInputs, HandlePayment(b, type)
          PROVE  FALSE
      BY <3>2, <3>4, PaymentLifecycle DEF HandlePayment
    <3>5. ASSUME NEW k \in Cancels, CancelRead(k, b)
          PROVE  FALSE
      BY <3>5 DEF CancelRead
    <3> QED  BY <2>4, <3>3, <3>4, <3>5 DEF BookingNext
  <2>5. ASSUME NEW k \in Cancels, CancelApply(k)
        PROVE  FALSE
    <3>1. PICK b \in Bookings : b = cancel[k].booking /\ Exists(b)
      BY <1>1, <2>5 DEF CancelApply, IInv, RequestOK, CancelOK
    <3>2. /\ Occupying(b) \/ booking[b].slot \in clobbered'
          /\ clobbered \subseteq clobbered' /\ SetStatus(b, "CANCELLED")
      BY <2>5, <3>1 DEF CancelApply
    <3> QED  BY <1>1, <3>1, <3>2, StatusHonours
  <2>6. CASE ExpireHolds
    BY <1>1, <2>0, <2>6 DEF ExpireHolds, Expired, IInv, TypeOK, SlotRow
  <2>7. ASSUME NEW i \in Interviewers, InterviewerNext(i)
        PROVE  FALSE
    <3>1. ASSUME NEW windows, Synchronize(i, windows)
          PROVE  FALSE
      BY <3>1, <2>0 DEF Synchronize, Occupied, LiveHold
    <3>2. ASSUME NEW windows, GenerateSlots(i, windows)
          PROVE  FALSE
      BY <3>2, <2>0 DEF GenerateSlots
    <3> QED  BY <2>7, <3>1, <3>2 DEF InterviewerNext, SetEligibility
  <2>8. ASSUME NEW t \in Tokens, HoldNext(t)
        PROVE  UNCHANGED slot
    <3>1. CASE HoldGrant(t) \/ HoldFail(t)
      BY <2>2, <3>1 DEF HoldGrant, HoldFail, Writes
    <3> QED
      BY <2>8, <3>1 DEF HoldNext, HoldAcquire, HoldLock, HoldRefuse, HoldRelease, HoldCrash
  <2>9. ASSUME NEW b \in Bookings, CreateNext(b)
        PROVE  CreateCommit(b)
    BY <2>9 DEF CreateNext, CreateLookup, CreateMatch, CreateLock, CreateMismatch,
                CreateConflict, CreateRelease, CreateCrash
  <2>10. CASE Tick \/ RedisLoss \/ UNCHANGED vars
    BY <2>10 DEF Tick, RedisLoss, vars
  <2> QED
    BY <1>1, <2>3, <2>4, <2>5, <2>6, <2>7, <2>8, <2>9, <2>10 DEF Next
<1>2. IInv /\ HoldsInv /\ [Next]_vars => [Honours]_vars
  BY <1>1
<1> QED
  BY <1>2, Inductive, HoldsFit, PTL DEF Spec, HoldHonoured

\* While a hold is live its key goes only with time, with Redis, or by the hand of the
\* request whose commit was never answered.
THEOREM KeysAreKept == Spec => HoldKeepsItsKey
<1> DEFINE Keeps == \A s \in Slots :
         /\ lock[s].token # None
         /\ LiveHold(s) /\ slot[s].token = lock[s].token
         /\ lock'[s] # lock[s]
         => \/ now' > now
            \/ redisLost'
            \/ hold[slot[s].token].pc = "refused"
                 /\ hold'[slot[s].token].pc = "done"
<1>1. ASSUME IInv, HoldsInv, [Next]_vars PROVE Keeps
  <2> SUFFICES ASSUME NEW s \in Slots, lock[s].token # None, LiveHold(s),
                      slot[s].token = lock[s].token, lock'[s] # lock[s]
               PROVE  \/ now' > now
                      \/ redisLost'
                      \/ hold[slot[s].token].pc = "refused"
                           /\ hold'[slot[s].token].pc = "done"
    OBVIOUS
  <2>0. /\ slot[s].status = "HELD" /\ slot[s].token \in Tokens
        /\ \A b \in Bookings : create[b].pc = "committed" => create[b].token # slot[s].token
        /\ lock \in [Slots -> LockRow] /\ hold \in [Tokens -> HoldRequest] /\ now \in Nat
    BY <1>1 DEF LiveHold, HoldsInv, IInv, TypeOK
  <2>1. ASSUME NEW r, NEW t, Release(r, t), t # lock[s].token
        PROVE  FALSE
    BY <2>0, <2>1 DEF Release
  <2>2. ASSUME NEW t \in Tokens, HoldNext(t)
        PROVE  t = slot[s].token /\ HoldRelease(t)
    <3>1. ASSUME NEW r \in Slots, NEW c \in Candidates, HoldAcquire(t, r, c)
          PROVE  FALSE
      BY <2>0, <3>1 DEF HoldAcquire, NoLock
    <3>2. CASE HoldRelease(t)
      BY <2>1, <3>2 DEF HoldRelease
    <3> QED
      BY <2>2, <3>1, <3>2 DEF HoldNext, HoldLock, HoldGrant, HoldRefuse, HoldFail, HoldCrash
  <2>7. ASSUME NEW t \in Tokens, t = slot[s].token, HoldRelease(t)
        PROVE  hold[slot[s].token].pc = "refused" /\ hold'[slot[s].token].pc = "done"
    BY <2>0, <2>7 DEF HoldRelease, HoldRequest
  <2>3. ASSUME NEW b \in Bookings, CreateNext(b)
        PROVE  FALSE
    <3>1. CASE CreateRelease(b)
      BY <2>0, <2>1, <3>1 DEF CreateRelease
    <3> QED  BY <2>3, <3>1 DEF CreateNext, CreateLookup, CreateMatch, CreateLock,
                 CreateCommit, CreateMismatch, CreateConflict, CreateCrash
  <2>4. CASE Tick
    BY <2>0, <2>4 DEF Tick
  <2>5. CASE RedisLoss
    BY <2>5 DEF RedisLoss
  <2>6. ASSUME \/ \E b \in Bookings : BookingNext(b)
               \/ \E k \in Cancels : CancelApply(k)
               \/ \E i \in Interviewers : InterviewerNext(i)
               \/ ExpireHolds \/ UNCHANGED vars
        PROVE  FALSE
    BY <2>6 DEF BookingNext, AdminTransition, CancelRead, HandlePayment, CancelApply,
                InterviewerNext, SetEligibility, GenerateSlots, Synchronize, ExpireHolds, vars
  <2> QED
    BY <1>1, <2>2, <2>3, <2>4, <2>5, <2>6, <2>7 DEF Next
<1>2. IInv /\ HoldsInv /\ [Next]_vars => [Keeps]_vars
  BY <1>1
<1> QED
  BY <1>2, Inductive, HoldsFit, PTL DEF Spec, HoldKeepsItsKey

-----------------------------------------------------------------------------
(* Ended bookings                                                          *)

\* TerminalIsFinal does not hold.  What holds instead: a booking leaves an end only for
\* CANCELLED, only by a candidate's cancellation that read the booking while it was open,
\* and the slot is recorded as one given back twice.
EndedUnlessStale ==
    [][\A b \in Bookings :
         booking[b].status \in Terminal /\ booking'[b].status # booking[b].status =>
            /\ booking'[b].status = "CANCELLED" /\ booking[b].slot \in clobbered'
            /\ \E k \in Cancels : /\ cancel[k].pc = "read" /\ cancel'[k].pc = "done"
                                  /\ cancel[k].booking = b
                                  /\ cancel[k].seen \notin Terminal]_vars

\* What a candidate's cancellation does to the booking it names.
LEMMA CancelEffect ==
    ASSUME TypeOK, RequestOK, NEW k \in Cancels, CancelApply(k),
           NEW b \in Bookings, booking[b].status \in Terminal,
           booking'[b].status # booking[b].status
    PROVE  /\ booking'[b].status = "CANCELLED" /\ booking[b].slot \in clobbered'
           /\ cancel[k].pc = "read" /\ cancel'[k].pc = "done"
           /\ cancel[k].booking = b /\ cancel[k].seen \notin Terminal
<1> DEFINE c == cancel[k].booking
<1>1. c \in Bookings /\ Cancelled(c) /\ "CANCELLED" \in BookingStatus
  BY CancelApplies DEF BookingStatus, Terminal
<1>2. /\ \A a \in Bookings : a # c => booking'[a] = booking[a]
      /\ booking'[c].status = "CANCELLED"
  BY <1>1, SetStatusEffect DEF Cancelled
<1>3. c = b
  BY <1>2
<1>4. ~Occupying(b)
  BY DEF Occupying, OccupiesTime
<1>5. booking[b].slot \in clobbered'
  BY <1>1, <1>3, <1>4 DEF Cancelled
<1>6. cancel[k].pc = "read" /\ cancel[k].seen \notin Terminal
  BY Lifecycle DEF CancelApply
<1>7. cancel'[k].pc = "done"
  BY DEF CancelApply, TypeOK
<1> QED  BY <1>2, <1>3, <1>5, <1>6, <1>7

\* Payment events, administrators and creations leave an ended booking ended; a stale
\* cancellation is the one way on.
THEOREM EndedStaysEnded == Spec => EndedUnlessStale
<1> DEFINE Ended ==
      \A b \in Bookings :
         booking[b].status \in Terminal /\ booking'[b].status # booking[b].status =>
            /\ booking'[b].status = "CANCELLED" /\ booking[b].slot \in clobbered'
            /\ \E k \in Cancels : /\ cancel[k].pc = "read" /\ cancel'[k].pc = "done"
                                  /\ cancel[k].booking = b
                                  /\ cancel[k].seen \notin Terminal
<1>1. ASSUME TypeOK, RequestOK, [Next]_vars  PROVE Ended
  <2> SUFFICES ASSUME NEW b \in Bookings, booking[b].status \in Terminal,
                      booking'[b].status # booking[b].status
               PROVE  /\ booking'[b].status = "CANCELLED" /\ booking[b].slot \in clobbered'
                      /\ \E k \in Cancels : /\ cancel[k].pc = "read" /\ cancel'[k].pc = "done"
                                            /\ cancel[k].booking = b
                                            /\ cancel[k].seen \notin Terminal
    OBVIOUS
  <2>1. ~Quiet
    BY DEF Quiet
  <2>2. ASSUME NEW o \in Bookings, CreateCommit(o)  PROVE FALSE
    <3>1. ~Exists(o) /\ \A a \in Bookings : a # o => booking'[a] = booking[a]
      BY <1>1, <2>2, CommitEffect
    <3>2. "absent" \notin Terminal
      BY DEF Terminal
    <3> QED  BY <3>1, <3>2 DEF Exists
  <2>3. ASSUME NEW o \in Bookings, NEW target \in BookingStatus, Moves(o, target)  PROVE FALSE
    <3>1. \A a \in Bookings : a # o => booking'[a] = booking[a]
      BY <1>1, <2>3, SetStatusEffect DEF Moves
    <3> QED  BY <2>3, <3>1 DEF Moves
  <2>4. PICK k \in Cancels : CancelApply(k)
    BY <1>1, <2>1, <2>2, <2>3, ServiceSteps
  <2> QED  BY <1>1, <2>4, CancelEffect
<1>2. TypeOK /\ RequestOK /\ [Next]_vars => [Ended]_vars
  BY <1>1
<1> QED  BY TypeCorrect, <1>2, PTL DEF Spec, EndedUnlessStale
=============================================================================

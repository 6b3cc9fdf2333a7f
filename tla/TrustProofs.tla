---------------------------- MODULE TrustProofs -----------------------------
(***************************************************************************)
(* Theorems about Lifecycle and Trust for every number of events and every *)
(* set of bookings.                                                        *)
(***************************************************************************)
EXTENDS Trust, TLAPS

-----------------------------------------------------------------------------
(* interviewer-service.                                                    *)

\* A change starts from a standing that allows it and holds the profile until it ends,
\* and a deletion is the last change.
StandingInv ==
    /\ txn.kind = "none" => txn.at = 0
    /\ txn.kind # "none" => standing \in From(txn.kind)
    /\ txn.at <= clock
    /\ \A e \in events : e.kind = "deleted" => standing = "deleted"

LInv == TypeOK /\ LatestTellsTheStanding /\ StampsGrow /\ StandingInv

LEMMA LInitInv == Init => LInv
BY LifecycleAssumption DEF Init, LInv, TypeOK, LatestTellsTheStanding, StampsGrow, StandingInv,
   Standing, Txn, NoTxn, Kind

\* Facts about the values a change goes through.
LEMMA Standings ==
    ASSUME NEW kind \in Kind
    PROVE  /\ Becomes(kind) \in Standing
           /\ Becomes(kind) = "deleted" <=> kind = "deleted"
           /\ From(kind) \subseteq {"unverified", "verified"}
BY DEF Becomes, From, Standing, Kind

LEMMA LStepInv ==
    ASSUME LInv, [Next]_vars
    PROVE  LInv'
<1> USE LifecycleAssumption
<1>1. ASSUME NEW kind \in Kind, Lock(kind)  PROVE LInv'
  <2> USE <1>1 DEF LInv, Lock
  <2>1. TypeOK' /\ LatestTellsTheStanding'
    BY DEF TypeOK, Txn, LatestTellsTheStanding
  <2>2. StampsGrow' /\ StandingInv'
    BY DEF TypeOK, StampsGrow, StandingInv, NoTxn, Kind
  <2> QED  BY <2>1, <2>2
<1>2. ASSUME Stamp  PROVE LInv'
  <2> USE <1>2 DEF LInv, Stamp
  <2>1. TypeOK' /\ LatestTellsTheStanding'
    BY DEF TypeOK, Txn, LatestTellsTheStanding
  <2>2. StampsGrow'
    BY DEF TypeOK, Txn, StampsGrow, Event
  <2>3. StandingInv'
    BY DEF TypeOK, Txn, StandingInv
  <2> QED  BY <2>1, <2>2, <2>3
<1>3. ASSUME Commit  PROVE LInv'
  <2>1. /\ txn \in Event
        /\ txn.kind \in Kind
        /\ txn.kind # "none"
        /\ standing \in From(txn.kind)
    BY <1>3 DEF Commit, LInv, TypeOK, Txn, Event, StandingInv, Kind
  <2>2. TypeOK'
    BY <1>3, <2>1, Standings DEF Commit, LInv, TypeOK, Txn, NoTxn
  <2>3. \A e \in events : e \in Event /\ e.at \in Nat /\ e.at < txn.at /\ e.at <= clock
    BY <1>3 DEF Commit, LInv, TypeOK, StampsGrow, Event
  <2>4. LatestTellsTheStanding'
    BY <1>3, <2>1, <2>3 DEF Commit, LatestTellsTheStanding, Event
  <2>5. StampsGrow'
    BY <1>3, <2>1, <2>3 DEF Commit, LInv, TypeOK, StampsGrow, StandingInv, NoTxn, Event
  <2>6. StandingInv'
    BY <1>3, <2>1, <2>3, Standings DEF Commit, LInv, TypeOK, StandingInv, NoTxn
  <2> QED  BY <2>2, <2>4, <2>5, <2>6 DEF LInv
<1>4. ASSUME Abort  PROVE LInv'
  BY <1>4 DEF LInv, Abort, TypeOK, Txn, NoTxn, LatestTellsTheStanding, StampsGrow, StandingInv
<1>5. ASSUME UNCHANGED vars  PROVE LInv'
  BY <1>5 DEF LInv, vars, TypeOK, LatestTellsTheStanding, StampsGrow, StandingInv
<1> QED  BY <1>1, <1>2, <1>3, <1>4, <1>5 DEF Next

\* Whoever orders the lifecycle events by occurred_at ends with the standing of the
\* profile, and no two of them carry one stamp, whatever calls overlap and abort.
THEOREM StampsTellTheStanding == Spec => [](TypeOK /\ LatestTellsTheStanding /\ StampsGrow)
<1>1. LInv => TypeOK /\ LatestTellsTheStanding /\ StampsGrow
  BY DEF LInv
<1> QED  BY LInitInv, LStepInv, <1>1, PTL DEF Spec

-----------------------------------------------------------------------------
(* booking-service's copy.                                                 *)

\* An event that was processed has reached the copy.
CopyInv ==
    /\ elig.at <= 2 * clock + 1
    /\ \A e \in processed :
          elig.state # "unknown" /\ (2 * e.at <= elig.at \/ elig.state = "deleted")
    /\ txn.at # 0 => elig.stale \/ elig.at < 2 * txn.at

\* A snapshot in hand that is not the standing any more was read too early for a change
\* that is being committed, or that change announces itself with a later event.
SyncInv ==
    /\ sync.pc # "idle" => \E k \in 0 .. clock : sync.when = 2 * k + 1
    /\ sync.pc = "read" =>
          /\ sync.standing = "deleted" => standing = "deleted"
          /\ sync.standing # standing =>
                sync.stale \/ \E e \in events : sync.when < 2 * e.at
          /\ txn.at # 0 => sync.stale \/ sync.when < 2 * txn.at

\* From the moment a deletion holds the profile, new bookings are late.
BookingInv == txn.kind = "deleted" \/ standing = "deleted" => Active \subseteq late

IInv ==
    /\ LInv
    /\ TrustTypeOK
    /\ CopyInv
    /\ SyncInv
    /\ KnownUnlessPending
    /\ BookingInv

LEMMA InitInv == TrustInit => IInv
<1> SUFFICES ASSUME TrustInit PROVE IInv
  OBVIOUS
<1> USE LifecycleAssumption
<1>1. LInv /\ TypeOK /\ txn = NoTxn /\ events = {} /\ clock = 0 /\ standing = "unverified"
  BY LInitInv DEF TrustInit, LInv, Init
<1>2. TrustTypeOK
  BY <1>1 DEF TrustInit, TrustTypeOK, Time, Snapshot, NoSnapshot, Standing
<1>3. CopyInv /\ SyncInv /\ KnownUnlessPending /\ BookingInv
  BY <1>1 DEF TrustInit, CopyInv, SyncInv, KnownUnlessPending, BookingInv, NoSnapshot, NoTxn
<1> QED  BY <1>1, <1>2, <1>3 DEF IInv

\* The copy after a write that interviewer-service's own state does not see.
LEMMA Timing ==
    ASSUME IInv
    PROVE  /\ clock \in Nat /\ txn.at \in Nat /\ elig.at \in Nat /\ sync.when \in Nat
           /\ txn.at <= clock /\ clock <= MaxEvents
           /\ \A e \in events : e \in Event /\ e.at \in Nat /\ e.at >= 1 /\ e.at <= clock
           /\ \A e \in events : txn.at # 0 => e.at < txn.at
           /\ processed \subseteq events
BY LifecycleAssumption
   DEF IInv, LInv, TypeOK, TrustTypeOK, Txn, Event, Snapshot, Time, StampsGrow, StandingInv

LEMMA InterviewerStepInv ==
    ASSUME IInv, InterviewerStep
    PROVE  IInv'
<1> USE LifecycleAssumption
<1>0. LInv' /\ [Next]_vars
  BY LStepInv DEF IInv, InterviewerStep, Next, Kind
<1>1. TrustTypeOK'
  <2>1. events \subseteq events'
    BY DEF InterviewerStep, Lock, Stamp, Commit, Abort
  <2> QED  BY <1>0, <2>1 DEF IInv, LInv, TrustTypeOK, InterviewerStep, projection
<1>2. ASSUME NEW kind \in Kind, Lock(kind), kind = "deleted" => MayDelete  PROVE IInv'
  <2>1. CopyInv' /\ SyncInv' /\ KnownUnlessPending'
    BY <1>2 DEF IInv, CopyInv, SyncInv, KnownUnlessPending, Lock, InterviewerStep, projection
  <2>2. standing # "deleted"
    BY <1>2, Standings DEF Lock
  <2>3. BookingInv'
    BY <1>2, <2>2 DEF BookingInv, Lock, MayDelete, Active, InterviewerStep, projection
  <2> QED  BY <1>0, <1>1, <2>1, <2>3 DEF IInv
<1>3. ASSUME Stamp  PROVE IInv'
  <2>1. CopyInv'
    BY <1>3, Timing DEF IInv, LInv, TypeOK, Txn, CopyInv, Stamp, InterviewerStep, projection
  <2>2. SyncInv'
    <3>1. clock' = clock + 1 /\ txn'.at = clock + 1 /\ UNCHANGED <<standing, events, sync>>
      BY <1>3 DEF Stamp, InterviewerStep, projection, IInv, LInv, TypeOK, Txn
    <3>2. sync.pc # "idle" => sync.when < 2 * (clock + 1) /\ \E k \in 0 .. clock + 1 : sync.when = 2 * k + 1
      BY Timing DEF IInv, SyncInv
    <3> QED  BY <3>1, <3>2 DEF IInv, SyncInv
  <2>3. KnownUnlessPending' /\ BookingInv'
    BY <1>3 DEF IInv, LInv, TypeOK, Txn, KnownUnlessPending, BookingInv, Active, Stamp,
       InterviewerStep, projection
  <2> QED  BY <1>0, <1>1, <2>1, <2>2, <2>3 DEF IInv
<1>4. ASSUME Commit  PROVE IInv'
  <2>1. /\ txn'.at = 0 /\ txn'.kind = "none"
        /\ events' = events \cup {txn}
        /\ txn \notin events
        /\ UNCHANGED <<clock, elig, processed, sync, booking, late>>
        /\ standing # "deleted"
        /\ standing' = "deleted" => txn.kind = "deleted"
    <3>1. txn.kind \in Kind /\ standing \in From(txn.kind)
      BY <1>4 DEF Commit, IInv, LInv, TypeOK, Txn, StandingInv
    <3> QED  BY <1>4, <3>1, Standings, Timing DEF Commit, NoTxn, InterviewerStep, projection
  <2>2. CopyInv'
    BY <2>1 DEF IInv, CopyInv
  <2>3. SyncInv'
    BY <1>4, <2>1 DEF IInv, SyncInv, Commit
  <2>4. KnownUnlessPending'
    <3>1. elig.state # "deleted"
      BY <2>1 DEF IInv, KnownUnlessPending
    <3>2. txn \notin processed /\ (elig.stale \/ elig.at < 2 * txn.at)
      BY <1>4, <2>1, Timing DEF IInv, CopyInv, Commit
    <3> QED  BY <2>1, <3>1, <3>2 DEF KnownUnlessPending
  <2>5. BookingInv'
    BY <2>1 DEF IInv, BookingInv, Active
  <2> QED  BY <1>0, <1>1, <2>2, <2>3, <2>4, <2>5 DEF IInv
<1>5. ASSUME Abort  PROVE IInv'
  <2>1. CopyInv' /\ SyncInv' /\ KnownUnlessPending' /\ BookingInv'
    BY <1>5 DEF IInv, CopyInv, SyncInv, KnownUnlessPending, BookingInv, Active, Abort, NoTxn,
       InterviewerStep, projection
  <2> QED  BY <1>0, <1>1, <2>1 DEF IInv
<1>6. Lock("deleted") /\ MayDelete => IInv'
  BY <1>2 DEF Kind
<1> QED  BY <1>2, <1>3, <1>4, <1>5, <1>6 DEF InterviewerStep

\* The event or the snapshot that is written and found different is not the last word.
LEMMA DeliverInv ==
    ASSUME IInv, NEW e \in events, Deliver(e)
    PROVE  IInv'
<1> USE LifecycleAssumption
<1>0. /\ UNCHANGED <<standing, txn, clock, events, sync, booking, late>>
      /\ processed' = processed \cup {e}
      /\ e \notin processed
      /\ e.at \in 1 .. MaxEvents /\ e.kind \in Kind
  BY Timing DEF Deliver, vars, Event
<1>1. LInv' /\ SyncInv' /\ BookingInv'
  BY <1>0, LStepInv DEF vars, IInv, SyncInv, BookingInv, Active
<1>2. CASE Writes(2 * e.at)
  <2>1. /\ elig'.state = Becomes(e.kind)
        /\ elig'.at = 2 * e.at
        /\ elig'.stale = FALSE
        /\ elig' \in [state : Standing \cup {"unknown"}, at : Time, stale : BOOLEAN]
    BY <1>0, <1>2, Standings DEF Deliver, Time
  <2>2. TrustTypeOK'
    BY <1>0, <1>1, <2>1 DEF IInv, LInv, TrustTypeOK
  <2>3. elig.state # "deleted" /\ \A o \in processed : o.at < e.at
    <3>1. ASSUME NEW o \in processed  PROVE elig.state # "deleted" /\ o.at < e.at
      BY <1>0, <1>2, Timing DEF IInv, CopyInv, Writes
    <3>2. elig.state # "deleted"
      BY <1>2 DEF Writes
    <3> QED  BY <3>1, <3>2
  <2>4. CopyInv'
    <3>1. Becomes(e.kind) # "unknown"
      BY <1>0, Standings DEF Standing
    <3> QED  BY <1>0, <2>1, <2>3, <3>1, Timing DEF CopyInv
  <2>5. KnownUnlessPending'
    <3>1. e.kind = "deleted" => standing = "deleted"
      BY DEF IInv, LInv, StandingInv
    <3>2. Becomes(e.kind) # standing => \E o \in events \ processed' : e.at < o.at
      <4>1. Becomes(e.kind) # standing => \E o \in events : ~(o.at <= e.at)
        BY DEF IInv, LInv, LatestTellsTheStanding
      <4> QED  BY <1>0, <2>3, <4>1, Timing
    <3> QED  BY <1>0, <2>1, <3>1, <3>2, Standings, Timing DEF KnownUnlessPending
  <2> QED  BY <1>1, <2>2, <2>4, <2>5 DEF IInv
<1>3. CASE ~Writes(2 * e.at)
  <2>1. elig' = elig
    BY <1>3 DEF Deliver
  <2>2. elig.state # "unknown" /\ (2 * e.at <= elig.at \/ elig.state = "deleted")
    BY <1>0, <1>3, Timing DEF Writes
  <2>3. TrustTypeOK' /\ CopyInv'
    BY <1>0, <1>1, <2>1, <2>2 DEF IInv, LInv, TrustTypeOK, CopyInv
  <2>4. KnownUnlessPending'
    BY <1>0, <2>1, <2>2, Timing DEF IInv, KnownUnlessPending
  <2> QED  BY <1>1, <2>3, <2>4 DEF IInv
<1> QED  BY <1>2, <1>3

LEMMA SyncStepInv ==
    ASSUME IInv, SyncObserve \/ SyncRead \/ SyncWrite \/ SyncFail
    PROVE  IInv'
<1> USE LifecycleAssumption
<1>0. /\ UNCHANGED <<standing, txn, clock, events, processed, booking, late>>
      /\ LInv' /\ BookingInv'
  <2>1. UNCHANGED <<standing, txn, clock, events, processed, booking, late>>
    BY DEF SyncObserve, SyncRead, SyncWrite, SyncFail, vars
  <2> QED  BY <2>1, LStepInv DEF IInv, vars, BookingInv, Active
<1>1. CASE SyncObserve
  <2>1. sync' = [pc |-> "observed", when |-> 2 * clock + 1, standing |-> "unverified",
                 stale |-> FALSE] /\ elig' = elig
    BY <1>1 DEF SyncObserve, NoSnapshot
  <2>2. TrustTypeOK'
    BY <1>0, <2>1, Timing DEF IInv, LInv, TrustTypeOK, Snapshot, Time, Standing
  <2>3. CopyInv' /\ SyncInv' /\ KnownUnlessPending'
    BY <1>0, <2>1, Timing DEF IInv, CopyInv, SyncInv, KnownUnlessPending
  <2> QED  BY <1>0, <2>2, <2>3 DEF IInv
<1>2. CASE SyncRead
  <2>1. /\ sync.pc = "observed" /\ sync'.pc = "read" /\ sync'.when = sync.when
        /\ sync'.standing = standing
        /\ sync'.stale = (txn.at # 0 /\ 2 * txn.at < sync.when)
        /\ elig' = elig
        /\ sync' \in Snapshot
    BY <1>2 DEF SyncRead, IInv, LInv, TypeOK, TrustTypeOK, Snapshot
  <2>2. TrustTypeOK'
    BY <1>0, <2>1 DEF IInv, LInv, TrustTypeOK
  <2>3. SyncInv'
    <3>1. PICK k \in 0 .. clock : sync.when = 2 * k + 1
      BY <2>1 DEF IInv, SyncInv
    <3>2. txn.at # 0 => sync'.stale \/ sync.when < 2 * txn.at
      <4>1. k \in Nat /\ txn.at \in Nat /\ clock \in Nat
        BY Timing
      <4>2. txn.at # 0 /\ 2 * txn.at < sync.when => sync'.stale
        BY <2>1
      <4>3. ~(2 * txn.at < sync.when) => sync.when < 2 * txn.at
        BY <3>1, <4>1
      <4> QED  BY <4>2, <4>3
    <3> QED  BY <1>0, <2>1, <3>1, <3>2 DEF SyncInv
  <2>4. CopyInv' /\ KnownUnlessPending'
    BY <1>0, <2>1 DEF IInv, CopyInv, KnownUnlessPending
  <2> QED  BY <1>0, <2>2, <2>3, <2>4 DEF IInv
<1>3. CASE SyncFail
  <2>1. TrustTypeOK'
    BY <1>0, <1>3 DEF IInv, LInv, TrustTypeOK, Snapshot, NoSnapshot, Time, Standing, SyncFail
  <2>2. CopyInv' /\ SyncInv' /\ KnownUnlessPending'
    BY <1>0, <1>3 DEF IInv, CopyInv, SyncInv, KnownUnlessPending, NoSnapshot, SyncFail
  <2> QED  BY <1>0, <2>1, <2>2 DEF IInv
<1>4. CASE SyncWrite
  <2>0. sync.pc = "read" /\ sync' = NoSnapshot /\ sync \in Snapshot
    BY <1>4 DEF SyncWrite, IInv, TrustTypeOK
  <2>1. SyncInv' /\ sync' \in Snapshot
    BY <2>0 DEF SyncInv, NoSnapshot, Snapshot, Time, Standing
  <2>2. CASE Writes(sync.when + 1)
    <3>1. elig' = [state |-> sync.standing, at |-> sync.when, stale |-> sync.stale]
      BY <1>4, <2>2 DEF SyncWrite
    <3>2. TrustTypeOK'
      BY <1>0, <2>0, <2>1, <3>1 DEF IInv, LInv, TrustTypeOK, Snapshot
    <3>3. elig.state # "deleted" /\ \A e \in processed : 2 * e.at <= sync.when
      <4>1. ASSUME NEW e \in processed  PROVE 2 * e.at <= sync.when
        BY <2>2, Timing DEF IInv, CopyInv, Writes
      <4>2. elig.state # "deleted"
        BY <2>2 DEF Writes
      <4> QED  BY <4>1, <4>2
    <3>4. CopyInv'
      <4>1. sync.standing # "unknown"
        BY <2>0 DEF Snapshot, Standing
      <4>2. sync.when <= 2 * clock + 1
        BY <2>0, Timing DEF IInv, SyncInv
      <4> QED  BY <1>0, <2>0, <3>1, <3>3, <4>1, <4>2, Timing DEF IInv, SyncInv, CopyInv
    <3>5. KnownUnlessPending'
      <4>1. \A e \in events : sync.when < 2 * e.at => e \notin processed
        BY <3>3, Timing
      <4> QED  BY <1>0, <2>0, <3>1, <4>1 DEF IInv, SyncInv, KnownUnlessPending
    <3> QED  BY <1>0, <2>1, <3>2, <3>4, <3>5 DEF IInv
  <2>3. CASE ~Writes(sync.when + 1)
    <3>1. elig' = elig
      BY <1>4, <2>3 DEF SyncWrite
    <3>2. TrustTypeOK' /\ CopyInv' /\ KnownUnlessPending'
      BY <1>0, <2>1, <3>1 DEF IInv, LInv, TrustTypeOK, CopyInv, KnownUnlessPending
    <3> QED  BY <1>0, <2>1, <3>2 DEF IInv
  <2> QED  BY <2>2, <2>3
<1> QED  BY <1>1, <1>2, <1>3, <1>4

LEMMA BookingStepInv ==
    ASSUME IInv, NEW b \in Bookings, Hold(b) \/ CreateRead(b) \/ CreateCommit(b) \/ End(b)
    PROVE  IInv'
<1>0. /\ UNCHANGED <<standing, txn, clock, events, elig, processed, sync>>
      /\ LInv'
  <2>1. UNCHANGED <<standing, txn, clock, events, elig, processed, sync>>
    BY DEF Hold, CreateRead, CreateCommit, End, vars, projection
  <2> QED  BY <2>1, LStepInv DEF IInv, vars
<1>1. CopyInv' /\ SyncInv' /\ KnownUnlessPending'
  BY <1>0 DEF IInv, CopyInv, SyncInv, KnownUnlessPending
<1>2. TrustTypeOK'
  BY <1>0 DEF IInv, LInv, TrustTypeOK, Hold, CreateRead, CreateCommit, End
<1>3. BookingInv'
  BY <1>0 DEF IInv, TrustTypeOK, BookingInv, Active, Hold, CreateRead, CreateCommit, End
<1> QED  BY <1>0, <1>1, <1>2, <1>3 DEF IInv

LEMMA StepInv ==
    ASSUME IInv, [TrustNext]_trustVars
    PROVE  IInv'
<1>1. ASSUME UNCHANGED trustVars  PROVE IInv'
  <2>1. LInv'
    BY <1>1, LStepInv DEF IInv, trustVars
  <2> QED  BY <1>1, <2>1 DEF IInv, LInv, trustVars, vars, TrustTypeOK, CopyInv, SyncInv,
              KnownUnlessPending, BookingInv, Active
<1> QED  BY <1>1, InterviewerStepInv, DeliverInv, SyncStepInv, BookingStepInv DEF TrustNext

-----------------------------------------------------------------------------
(* Theorems.                                                               *)

\* In every state of every behaviour the rows of both services have their types.
THEOREM TrustTypeCorrect == TrustSpec => []TrustTypeOK
<1>1. IInv => TrustTypeOK
  BY DEF IInv
<1> QED  BY InitInv, StepInv, <1>1, PTL DEF TrustSpec

\* However events and snapshots are delayed, doubled and reordered, the copy differs from
\* the standing only while a later event is under way or after a snapshot that was read
\* between a stamp and its commit.
THEOREM CopyIsKnown == TrustSpec => []KnownUnlessPending
<1>1. IInv => KnownUnlessPending
  BY DEF IInv
<1> QED  BY InitInv, StepInv, <1>1, PTL DEF TrustSpec

\* A deletion that finds no active booking leaves none behind but late ones.
THEOREM DeletionIsClean == TrustSpec => []DeletedHasNoBookings
<1>1. IInv => DeletedHasNoBookings
  BY DEF IInv, BookingInv, DeletedHasNoBookings
<1> QED  BY InitInv, StepInv, <1>1, PTL DEF TrustSpec

\* booking-service does to the interviewer nothing that interviewer-service does not
\* allow: the composition keeps the lifecycle.
THEOREM TrustKeepsLifecycle == TrustSpec => Spec
<1>1. TrustInit => Init
  BY DEF TrustInit
<1>2. ASSUME [TrustNext]_trustVars  PROVE [Next]_vars
  BY <1>2 DEF TrustNext, trustVars, InterviewerStep, Next, Deliver, SyncObserve, SyncRead,
     SyncWrite, SyncFail, Hold, CreateRead, CreateCommit, End, Kind
<1> QED  BY <1>1, <1>2, PTL DEF TrustSpec, Spec
=============================================================================

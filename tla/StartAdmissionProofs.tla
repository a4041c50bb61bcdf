----------------------- MODULE StartAdmissionProofs -----------------------
(***************************************************************************)
(* Proofs about StartAdmission, for any set of streams, any number of      *)
(* overlapping requests and scheduler runs, and any limit.                 *)
(***************************************************************************)
EXTENDS StartAdmission, FiniteSetTheorems, TLAPS

-----------------------------------------------------------------------------
(* Type correctness. *)

\* With no session begun and every stream down the types hold.
THEOREM InitType == Init => TypeOK
BY DEF Init, TypeOK, Status, Label

\* The end of a transaction keeps the locks well typed.
LEMMA ReleaseType ==
    ASSUME TypeOK, NEW x \in Sessions, ReleaseLocks(x)
    PROVE  /\ userLock' \in Sessions \cup {None}
           /\ rowLock' \in [Streams -> Sessions \cup {None}]
BY DEF TypeOK, ReleaseLocks

\* The end of one start keeps the session's place and target well typed.
LEMMA FinishType ==
    ASSUME TypeOK, NEW x \in Sessions, Finish(x)
    PROVE  /\ pc' \in [Sessions -> Label]
           /\ target' \in [Sessions -> Streams \cup {None}]
BY DEF TypeOK, Finish, Goto, Label

\* The steps that wait for a PostgreSQL lock keep the types.
LEMMA LockStepType ==
    ASSUME TypeOK, NEW x \in Sessions, LockStep(x)
    PROVE  TypeOK'
<1>1. CASE AcquireUserLock(x)
  BY <1>1 DEF AcquireUserLock, Goto, TypeOK, Label
<1>2. CASE FlushAttempt(x)
  BY <1>2 DEF FlushAttempt, Goto, TypeOK, Label
<1>3. CASE SkipDue(x)
  BY <1>3, ReleaseType, FinishType DEF SkipDue, TypeOK
<1>4. CASE CommitStart(x)
  <2>1. status' \in [Streams -> Status]
    BY <1>4 DEF CommitStart, TypeOK, Status
  <2>2. pc' \in [Sessions -> Label]
    BY <1>4 DEF CommitStart, Goto, TypeOK, Label
  <2> QED
    BY <1>4, <2>1, <2>2, ReleaseType DEF CommitStart, TypeOK
<1> QED
  BY <1>1, <1>2, <1>3, <1>4 DEF LockStep

\* The other steps of a request or a scheduler run keep the types.
LEMMA FreeStepType ==
    ASSUME TypeOK, NEW x \in Sessions, FreeStep(x)
    PROVE  TypeOK'
<1>1. CASE CheckQuota(x)
  BY <1>1 DEF CheckQuota, Goto, TypeOK, Label
<1>2. CASE Refuse(x)
  BY <1>2, ReleaseType, FinishType DEF Refuse, TypeOK
<1>3. CASE LaunchSucceeds(x)
  BY <1>3, FinishType DEF LaunchSucceeds, TypeOK
<1>4. CASE LaunchFails(x)
  <2>1. status' \in [Streams -> Status]
    BY <1>4 DEF LaunchFails, TypeOK, Status
  <2> QED
    BY <1>4, <2>1, FinishType DEF LaunchFails, TypeOK
<1>5. ASSUME NEW s \in Streams, PickDue(x, s)
      PROVE  TypeOK'
  BY <1>5 DEF PickDue, Goto, TypeOK, Label
<1>6. CASE EndBatch(x)
  BY <1>6 DEF EndBatch, Goto, TypeOK, Label
<1>7. CASE Precheck(x)
  <2>1. /\ userLock' \in Sessions \cup {None}
        /\ rowLock' \in [Streams -> Sessions \cup {None}]
    BY <1>7, ReleaseType DEF Precheck, TypeOK
  <2>2. /\ pc' \in [Sessions -> Label]
        /\ target' \in [Sessions -> Streams \cup {None}]
    BY <1>7, FinishType DEF Precheck, Goto, TypeOK, Label
  <2> QED
    BY <1>7, <2>1, <2>2 DEF Precheck, TypeOK
<1>8. CASE AbortDeadlocked(x)
  <2>1. /\ pc' \in [Sessions -> Label]
        /\ target' \in [Sessions -> Streams \cup {None}]
        /\ batch' \in [Sessions -> SUBSET Streams]
    BY <1>8 DEF AbortDeadlocked, Goto, TypeOK, Label
  <2> QED
    BY <1>8, <2>1, ReleaseType DEF AbortDeadlocked, TypeOK
<1> QED
  BY <1>1, <1>2, <1>3, <1>4, <1>5, <1>6, <1>7, <1>8 DEF FreeStep

\* Every step keeps the types.
LEMMA NextType == TypeOK /\ [Next]_vars => TypeOK'
<1> SUFFICES ASSUME TypeOK, [Next]_vars PROVE TypeOK'
  OBVIOUS
<1>1. ASSUME NEW r \in Requests, NEW s \in Streams, BeginRequest(r, s)
      PROVE  TypeOK'
  BY <1>1 DEF BeginRequest, Goto, TypeOK, Label, Sessions
<1>2. ASSUME NEW k \in Schedulers, BeginBatch(k)
      PROVE  TypeOK'
  BY <1>2 DEF BeginBatch, Goto, TypeOK, Label, Sessions
<1>3. ASSUME NEW s \in Streams, Environment(s)
      PROVE  TypeOK'
  BY <1>3 DEF Environment, ReportsRunning, LeavesCount, ComesDue, TypeOK, Status
<1>4. CASE UNCHANGED vars
  BY <1>4 DEF vars, TypeOK
<1> QED
  BY <1>1, <1>2, <1>3, <1>4, LockStepType, FreeStepType DEF Next

\* Every reachable state is well typed.
THEOREM TypeCorrect == Spec => []TypeOK
BY InitType, NextType, PTL DEF Spec

-----------------------------------------------------------------------------
(* The limit.  Between the count and the commit a session holds the user's  *)
(* lock, so the quota it found cannot be used up by another session.        *)

LockInv == \A x \in Sessions : pc[x] \in {"check", "prepare"} => userLock = x
QuotaInv == \A x \in Sessions : pc[x] = "prepare" => Cardinality(Counted) < Limit

\* The number of streams that check_concurrent_streams counts is a number.
LEMMA CountedFinite ==
    /\ IsFiniteSet(Counted)
    /\ Cardinality(Counted) \in Nat
<1>1. Counted \subseteq Streams
  BY DEF Counted
<1> QED
  BY <1>1, AdmissionAssumption, FS_Subset, FS_CardinalityType

\* With every stream down the limit and its supports hold.
THEOREM InitLimit == Init => LockInv /\ QuotaInv /\ WithinLimit
<1> SUFFICES ASSUME Init PROVE LockInv /\ QuotaInv /\ WithinLimit
  OBVIOUS
<1>1. Counted = {}
  BY DEF Init, Counted
<1>2. WithinLimit
  BY <1>1, FS_EmptySet, AdmissionAssumption DEF WithinLimit
<1> QED
  BY <1>2 DEF Init, LockInv, QuotaInv

\* A session that is not itself between count and commit, or leaves that part
\* with its locks, disturbs nobody who is.
LEMMA ReleaseKeepsOthers ==
    ASSUME TypeOK, LockInv, NEW x \in Sessions, ReleaseLocks(x),
           NEW label, Goto(x, label), label \notin {"check", "prepare"}
    PROVE  LockInv'
BY DEF TypeOK, LockInv, ReleaseLocks, Goto

\* From the lock to the commit of start_stream the session keeps the user's
\* advisory lock, which nobody else can take or drop.
LEMMA NextLock == TypeOK /\ LockInv /\ [Next]_vars => LockInv'
<1> SUFFICES ASSUME TypeOK, LockInv, [Next]_vars PROVE LockInv'
  OBVIOUS
<1>0. Requests \subseteq Sessions /\ Schedulers \subseteq Sessions
  BY DEF Sessions
<1>1. ASSUME NEW r \in Requests, NEW s \in Streams, BeginRequest(r, s)
      PROVE  LockInv'
  BY <1>0, <1>1 DEF BeginRequest, Goto, TypeOK, LockInv
<1>2. ASSUME NEW k \in Schedulers, BeginBatch(k)
      PROVE  LockInv'
  BY <1>0, <1>2 DEF BeginBatch, Goto, TypeOK, LockInv
<1>3. ASSUME NEW s \in Streams, Environment(s)
      PROVE  LockInv'
  BY <1>3 DEF Environment, ReportsRunning, LeavesCount, ComesDue, LockInv
<1>4. ASSUME NEW x \in Sessions, LockStep(x)
      PROVE  LockInv'
  <2>1. CASE AcquireUserLock(x)
    BY <2>1, AdmissionAssumption DEF AcquireUserLock, Goto, TypeOK, LockInv
  <2>2. CASE FlushAttempt(x)
    BY <2>2 DEF FlushAttempt, Goto, TypeOK, LockInv
  <2>3. CASE SkipDue(x)
    BY <2>3, ReleaseKeepsOthers DEF SkipDue, Finish
  <2>4. CASE CommitStart(x)
    BY <2>4, ReleaseKeepsOthers DEF CommitStart
  <2> QED
    BY <1>4, <2>1, <2>2, <2>3, <2>4 DEF LockStep
<1>5. ASSUME NEW x \in Sessions, FreeStep(x)
      PROVE  LockInv'
  <2>1. CASE CheckQuota(x)
    BY <2>1 DEF CheckQuota, Goto, TypeOK, LockInv
  <2>2. CASE Refuse(x)
    BY <2>2, ReleaseKeepsOthers DEF Refuse, Finish
  <2>3. CASE LaunchSucceeds(x)
    BY <2>3 DEF LaunchSucceeds, Finish, Goto, TypeOK, LockInv
  <2>4. CASE LaunchFails(x)
    BY <2>4 DEF LaunchFails, Finish, Goto, TypeOK, LockInv
  <2>5. ASSUME NEW s \in Streams, PickDue(x, s)
        PROVE  LockInv'
    BY <2>5 DEF PickDue, Goto, TypeOK, LockInv
  <2>6. CASE EndBatch(x)
    BY <2>6 DEF EndBatch, Goto, TypeOK, LockInv
  <2>7. CASE Precheck(x)
    <3>1. PICK label \in {"lock", "free", "next"} : Goto(x, label)
      BY <2>7 DEF Precheck, Finish
    <3>2. CASE ReleaseLocks(x)
      BY <3>1, <3>2, ReleaseKeepsOthers
    <3>3. CASE UNCHANGED userLock
      BY <3>1, <3>3 DEF Goto, TypeOK, LockInv
    <3> QED
      BY <2>7, <3>2, <3>3 DEF Precheck
  <2>8. CASE AbortDeadlocked(x)
    <3>1. PICK label \in {"free", "next"} : Goto(x, label)
      BY <2>8 DEF AbortDeadlocked
    <3> QED
      BY <2>8, <3>1, ReleaseKeepsOthers DEF AbortDeadlocked
  <2> QED
    BY <1>5, <2>1, <2>2, <2>3, <2>4, <2>5, <2>6, <2>7, <2>8 DEF FreeStep
<1>6. CASE UNCHANGED vars
  BY <1>6 DEF vars, LockInv
<1> QED
  BY <1>1, <1>2, <1>3, <1>4, <1>5, <1>6 DEF Next

\* What a step does to the streams that count, and to the sessions that have
\* found quota: nothing new, one stream less, or one stream more with no
\* session left that relies on the count.
Kept ==
    /\ Counted' = Counted
    /\ \A y \in Sessions :
           pc'[y] = "prepare" => pc[y] = "prepare" \/ Cardinality(Counted) < Limit

Retired ==
    /\ \E s \in Streams : Counted' = Counted \ {s}
    /\ \A y \in Sessions : pc'[y] = "prepare" => pc[y] = "prepare"

Admitted ==
    /\ Cardinality(Counted) < Limit
    /\ \E s \in Streams : Counted' = Counted \cup {s}
    /\ \A y \in Sessions : pc'[y] # "prepare"

\* A step that leaves the statuses alone, and moves one session anywhere but
\* to "prepare", is no news to anybody.
LEMMA MoveKeeps ==
    ASSUME TypeOK, status' = status, NEW x \in Sessions,
           NEW label, label # "prepare", Goto(x, label)
    PROVE  Kept
BY DEF TypeOK, Goto, Kept, Counted

\* The commit of starting adds at most the one stream the session found quota
\* for, and no other session is between its count and its commit.
LEMMA CommitAdmits ==
    ASSUME TypeOK, LockInv, QuotaInv, NEW x \in Sessions, CommitStart(x)
    PROVE  Kept \/ Admitted
<1>1. Cardinality(Counted) < Limit
  BY DEF CommitStart, QuotaInv
<1>2. \A y \in Sessions : pc'[y] # "prepare"
  <2>1. \A y \in Sessions : pc[y] = "prepare" => y = x
    BY DEF CommitStart, LockInv
  <2> QED
    BY <2>1 DEF CommitStart, Goto, TypeOK
<1>3. CASE target[x] \in Streams
  <2>1. Counted' = Counted \cup {target[x]}
    BY <1>3 DEF CommitStart, TypeOK, Counted
  <2> QED
    BY <1>1, <1>2, <1>3, <2>1 DEF Admitted
<1>4. CASE target[x] \notin Streams
  <2>1. Counted' = Counted
    BY <1>4 DEF CommitStart, TypeOK, Counted
  <2> QED
    BY <1>2, <2>1 DEF Kept
<1> QED
  BY <1>3, <1>4

\* A failed launch writes back a status that does not count.
LEMMA FailureRetires ==
    ASSUME TypeOK, NEW x \in Sessions, LaunchFails(x)
    PROVE  Kept \/ Retired
<1>1. \A y \in Sessions : pc'[y] = "prepare" => pc[y] = "prepare"
  BY DEF LaunchFails, Finish, Goto, TypeOK
<1>2. CASE target[x] \in Streams
  <2>1. Counted' = Counted \ {target[x]}
    BY <1>2 DEF LaunchFails, TypeOK, Counted
  <2> QED
    BY <1>1, <1>2, <2>1 DEF Retired
<1>3. CASE target[x] \notin Streams
  <2>1. Counted' = Counted
    BY <1>3 DEF LaunchFails, TypeOK, Counted
  <2> QED
    BY <1>1, <2>1 DEF Kept
<1> QED
  BY <1>2, <1>3

\* What happens to a stream after its start adds nothing to the count.
LEMMA EnvironmentRetires ==
    ASSUME TypeOK, NEW s \in Streams, Environment(s)
    PROVE  Kept \/ Retired
<1>1. pc' = pc
  BY DEF Environment, ReportsRunning, LeavesCount, ComesDue
<1>2. CASE ReportsRunning(s)
  <2>1. Counted' = Counted
    BY <1>2 DEF ReportsRunning, TypeOK, Counted
  <2> QED
    BY <1>1, <2>1 DEF Kept
<1>3. CASE LeavesCount(s)
  <2>1. Counted' = Counted \ {s}
    BY <1>3 DEF LeavesCount, TypeOK, Counted
  <2> QED
    BY <1>1, <2>1 DEF Retired
<1>4. CASE ComesDue(s)
  BY <1>1, <1>4 DEF ComesDue, Kept, Counted
<1> QED
  BY <1>2, <1>3, <1>4 DEF Environment

\* Every step keeps the count, retires a stream or admits one.
LEMMA StepCases ==
    ASSUME TypeOK, LockInv, QuotaInv, [Next]_vars
    PROVE  Kept \/ Retired \/ Admitted
<1>0. Requests \subseteq Sessions /\ Schedulers \subseteq Sessions
  BY DEF Sessions
<1>1. ASSUME NEW r \in Requests, NEW s \in Streams, BeginRequest(r, s)
      PROVE  Kept
  BY <1>0, <1>1, MoveKeeps DEF BeginRequest
<1>2. ASSUME NEW k \in Schedulers, BeginBatch(k)
      PROVE  Kept
  BY <1>0, <1>2, MoveKeeps DEF BeginBatch
<1>3. ASSUME NEW x \in Sessions, LockStep(x)
      PROVE  Kept \/ Admitted
  <2>1. CASE AcquireUserLock(x)
    BY <2>1, MoveKeeps DEF AcquireUserLock
  <2>2. CASE FlushAttempt(x)
    BY <2>2, MoveKeeps DEF FlushAttempt
  <2>3. CASE SkipDue(x)
    BY <2>3, MoveKeeps DEF SkipDue, Finish
  <2> QED
    BY <1>3, <2>1, <2>2, <2>3, CommitAdmits DEF LockStep
<1>4. ASSUME NEW x \in Sessions, FreeStep(x)
      PROVE  Kept \/ Retired
  <2>1. CASE CheckQuota(x)
    BY <2>1 DEF CheckQuota, Goto, TypeOK, Kept, Counted
  <2>2. CASE Refuse(x)
    BY <2>2, MoveKeeps DEF Refuse, Finish
  <2>3. CASE LaunchSucceeds(x)
    BY <2>3, MoveKeeps DEF LaunchSucceeds, Finish
  <2>4. ASSUME NEW s \in Streams, PickDue(x, s)
        PROVE  Kept
    BY <2>4, MoveKeeps DEF PickDue
  <2>5. CASE EndBatch(x)
    BY <2>5, MoveKeeps DEF EndBatch
  <2>6. CASE Precheck(x)
    BY <2>6, MoveKeeps DEF Precheck, Finish
  <2>7. CASE AbortDeadlocked(x)
    BY <2>7, MoveKeeps DEF AbortDeadlocked
  <2> QED
    BY <1>4, <2>1, <2>2, <2>3, <2>4, <2>5, <2>6, <2>7, FailureRetires DEF FreeStep
<1>5. CASE UNCHANGED vars
  BY <1>5 DEF vars, Kept, Counted
<1> QED
  BY <1>1, <1>2, <1>3, <1>4, <1>5, EnvironmentRetires DEF Next

\* The inductive invariant: a session that has found quota has the user's lock
\* and the quota is still there.
AdmissionInv == TypeOK /\ LockInv /\ QuotaInv /\ WithinLimit

\* In each of the three cases the limit holds afterwards, and so does what the
\* sessions that found quota rely on.
LEMMA NextQuota ==
    ASSUME QuotaInv, WithinLimit, Kept \/ Retired \/ Admitted
    PROVE  QuotaInv' /\ WithinLimit'
<1>1. CASE Kept
  BY <1>1 DEF Kept, QuotaInv, WithinLimit
<1>2. CASE Retired
  <2>1. Counted' \subseteq Counted
    BY <1>2 DEF Retired
  <2>2. Cardinality(Counted') <= Cardinality(Counted) /\ Cardinality(Counted') \in Nat
    BY <2>1, CountedFinite, FS_Subset, FS_CardinalityType
  <2>3. Cardinality(Counted)' = Cardinality(Counted')
    OBVIOUS
  <2> QED
    BY <1>2, <2>2, <2>3, CountedFinite, AdmissionAssumption DEF Retired, QuotaInv, WithinLimit
<1>3. CASE Admitted
  <2>1. PICK s \in Streams : Counted' = Counted \cup {s}
    BY <1>3 DEF Admitted
  <2>2. Cardinality(Counted \cup {s}) \in {Cardinality(Counted), Cardinality(Counted) + 1}
    BY CountedFinite, FS_AddElement
  <2>3. WithinLimit'
    BY <1>3, <2>1, <2>2, CountedFinite, AdmissionAssumption DEF Admitted, WithinLimit
  <2> QED
    BY <1>3, <2>3 DEF Admitted, QuotaInv
<1> QED
  BY <1>1, <1>2, <1>3

\* The invariant holds in every reachable state.
LEMMA AdmissionInvariant == Spec => []AdmissionInv
<1>1. Init => AdmissionInv
  BY InitType, InitLimit DEF AdmissionInv
<1>2. AdmissionInv /\ [Next]_vars => AdmissionInv'
  BY NextType, NextLock, StepCases, NextQuota DEF AdmissionInv
<1> QED
  BY <1>1, <1>2, PTL DEF Spec

\* No interleaving of a user's requests and scheduler runs puts more than Limit
\* of the user's streams in the count.
THEOREM LimitHolds == Spec => []WithinLimit
<1>1. AdmissionInv => WithinLimit
  BY DEF AdmissionInv
<1> QED
  BY <1>1, AdmissionInvariant, PTL

-----------------------------------------------------------------------------
(* Refinement. *)

\* Each of the three cases is a step of the abstract quota or a stutter.
LEMMA StepRefines ==
    ASSUME AdmissionInv, [Next]_vars
    PROVE  [Quota!Next]_Counted
<1>1. CASE Kept
  BY <1>1 DEF Kept
<1>2. CASE Retired
  BY <1>2 DEF Retired, Quota!Next, Quota!Retire
<1>3. CASE Admitted
  BY <1>3 DEF Admitted, Quota!Next, Quota!Admit, Cardinality, Quota!Cardinality
<1> QED
  BY <1>1, <1>2, <1>3, StepCases DEF AdmissionInv

\* Counting and then writing "starting" under the user's lock implements the
\* single atomic step of the abstract quota.
THEOREM AdmissionImplementsQuota == Spec => AdmissionIsAtomic
<1>1. Init => Quota!Init
  BY DEF Init, Quota!Init, Counted
<1>2. AdmissionInv /\ [Next]_vars => [Quota!Next]_Counted
  BY StepRefines
<1> QED
  BY <1>1, <1>2, AdmissionInvariant, PTL DEF Spec, AdmissionIsAtomic, Quota!Spec

=============================================================================

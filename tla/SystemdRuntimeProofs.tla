----------------------- MODULE SystemdRuntimeProofs -----------------------
(***************************************************************************)
(* Proofs about SystemdRuntime, for any number of requests, polling        *)
(* clients and reconcilers and any start limit: type correctness, and that *)
(* an orderly end of a runner leaves no heartbeat behind.  And about       *)
(* TerminalRefusal: with requests alone, a terminal row is not launched.   *)
(***************************************************************************)
EXTENDS TerminalRefusal, TLAPS

-----------------------------------------------------------------------------
(* Type correctness.  TypeOK alone is not inductive: found[a] is a state of *)
(* the unit in one place and a status in another.                          *)

\* What a session has found is of the kind its next step takes it for.
FoundOK ==
    \A a \in Sessions :
        /\ pc[a] = "report" => found[a] \in Unit
        /\ pc[a] \in {"launch", "commit"} => found[a] \in Status

TypeInv == TypeOK /\ FoundOK

\* With every session idle the types hold.
THEOREM InitType == Init => TypeInv
<1> SUFFICES ASSUME Init PROVE TypeInv
  OBVIOUS
<1>1. 0 \in 0..Burst
  BY RuntimeAssumption
<1>2. TypeOK
  BY <1>1 DEF Init, TypeOK, Status, Terminal, Unit, Stage, Label
<1>3. FoundOK
  BY DEF Init, FoundOK
<1> QED
  BY <1>2, <1>3 DEF TypeInv

\* Every state of the unit is normalised to a status (_map_systemd_status).
LEMMA NormalizedType ==
    ASSUME NEW s \in Unit
    PROVE  Normalized(s) \in Status
BY DEF Normalized, Unit, Status, Terminal

\* A write leaves a status in the row, and a commit one in the memory as well.
LEMMA CommitType ==
    ASSUME TypeOK, NEW a \in Sessions \cup {Runner}, NEW v \in Status
    PROVE  /\ Write(a, v) => status' \in Status
           /\ Commit(a, v) => /\ status' \in Status
                              /\ seen' \in [Sessions \cup {Runner} -> Status]
BY DEF TypeOK, Write, Commit

\* A session that ends keeps the types of what the backend holds.
LEMMA CloseType ==
    ASSUME TypeInv, NEW a \in Sessions, Close(a)
    PROVE  /\ pc' \in [Sessions -> Label]
           /\ found' \in [Sessions -> Unit \cup Status]
           /\ seen' \in [Sessions \cup {Runner} -> Status]
           /\ FoundOK'
BY DEF TypeInv, TypeOK, FoundOK, Close, Goto, Find, Forget, Label, Unit, Status,
       Terminal

\* An activation, granted or refused, keeps the types of unit and runner.
LEMMA ActivateType ==
    ASSUME TypeOK, Activate
    PROVE  unit' \in Unit /\ runner' \in Stage /\ starts' \in 0..Burst
BY RuntimeAssumption DEF TypeOK, Activate, Unit, Stage

\* The end of a runner's process keeps the types.
LEMMA RunnerEndsType ==
    ASSUME TypeOK, NEW refused \in BOOLEAN, RunnerEnds(refused)
    PROVE  /\ unit' \in Unit
           /\ again' \in BOOLEAN
           /\ starts' \in 0..Burst
           /\ runner' \in Stage
           /\ seen' \in [Sessions \cup {Runner} -> Status]
BY DEF TypeOK, RunnerEnds, Forget, Unit, Stage, Status, Terminal

\* The load that begins a request or a pass keeps the types.
LEMMA BeginType ==
    ASSUME TypeInv, NEW a \in Sessions, Begin(a) \/ BeginReconcile(a)
    PROVE  TypeInv'
BY DEF TypeInv, TypeOK, FoundOK, Begin, BeginReconcile, BeginPoll, BeginStart,
       BeginStop, BeginRestart, Load, Goto, Label, systemd

\* The steps of get_stream_status and of a start keep the types.
LEMMA StartType ==
    ASSUME TypeInv, NEW a \in Sessions,
           \/ PollUnit(a) \/ PollCommit(a) \/ StartCheck(a) \/ StartCommit(a)
           \/ Launch(a) \/ LaunchFails(a)
    PROVE  TypeInv'
<1> USE DEF TypeInv
<1>1. CASE PollUnit(a)
  BY <1>1 DEF PollUnit, TypeOK, FoundOK, Find, Goto, Label, row, systemd
<1>2. CASE PollCommit(a)
  <2> DEFINE reported == IF heartbeat = "stale" THEN "error" ELSE Normalized(found[a])
  <2>1. reported \in Status
    BY <1>2, NormalizedType DEF PollCommit, FoundOK, Status, Terminal
  <2>2. CASE Commit(a, reported) /\ Goto(a, "lock") /\ UNCHANGED found
    <3>1. status' \in Status /\ seen' \in [Sessions \cup {Runner} -> Status]
      BY <2>1, <2>2, CommitType
    <3>2. pc' \in [Sessions -> Label] /\ FoundOK'
      BY <2>2 DEF TypeOK, FoundOK, Goto, Label
    <3> QED
      BY <1>2, <2>2, <3>1, <3>2 DEF PollCommit, TypeOK, systemd
  <2>3. CASE Write(a, reported) /\ Close(a)
    <3>1. status' \in Status
      BY <2>1, <2>3, CommitType
    <3> QED
      BY <1>2, <2>3, <3>1, CloseType DEF PollCommit, TypeOK, systemd
  <2> QED
    BY <1>2, <2>2, <2>3 DEF PollCommit
<1>3. CASE StartCheck(a)
  BY <1>3, CloseType DEF StartCheck, TypeOK, FoundOK, Goto, Label, systemd
<1>4. CASE StartCommit(a)
  <2>1. status' \in Status /\ seen' \in [Sessions \cup {Runner} -> Status]
    BY <1>4, CommitType DEF StartCommit, Status
  <2>2. seen[a] \in Status
    BY DEF TypeOK
  <2>3. /\ pc' \in [Sessions -> Label]
        /\ found' \in [Sessions -> Unit \cup Status]
        /\ FoundOK'
    BY <1>4, <2>2 DEF StartCommit, TypeOK, FoundOK, Goto, Find, Label
  <2> QED
    BY <1>4, <2>1, <2>3 DEF StartCommit, TypeOK, systemd
<1>5. CASE Launch(a)
  BY <1>5, CloseType, ActivateType DEF Launch, TypeOK, systemd
<1>6. CASE LaunchFails(a)
  <2>1. status' \in Status
    BY <1>6, CommitType DEF LaunchFails, FoundOK
  <2> QED
    BY <1>6, <2>1, CloseType DEF LaunchFails, TypeOK, Unit
<1> QED
  BY <1>1, <1>2, <1>3, <1>4, <1>5, <1>6

\* The steps of a stop, of a restart and of a reconciler's pass keep the types.
LEMMA StopType ==
    ASSUME TypeInv, NEW a \in Sessions,
           \/ StopProbe(a) \/ StopMark(a) \/ StopUnit(a) \/ StopFails(a)
           \/ StopReturns(a) \/ StopCommit(a)
           \/ RestartUnit(a) \/ RestartCommit(a) \/ RestartFails(a)
           \/ ReconcileUnit(a) \/ ReconcileCommit(a)
    PROVE  TypeInv'
<1> USE DEF TypeInv
<1>1. CASE StopProbe(a) \/ StopReturns(a)
  BY <1>1 DEF StopProbe, StopReturns, TypeOK, FoundOK, Goto, Label, row, systemd
<1>2. CASE StopMark(a)
  <2>1. status' \in Status /\ seen' \in [Sessions \cup {Runner} -> Status]
    BY <1>2, CommitType DEF StopMark, Status
  <2> QED
    BY <1>2, <2>1 DEF StopMark, TypeOK, FoundOK, Goto, Label, systemd
<1>3. CASE StopUnit(a)
  <2>1. unit' \in Unit /\ runner' \in Stage
    BY <1>3 DEF StopUnit, TypeOK, Signal, Unit, Stage
  <2>2. pc' \in [Sessions -> Label] /\ FoundOK'
    BY <1>3 DEF StopUnit, TypeOK, FoundOK, Goto, Label
  <2> QED
    BY <1>3, <2>1, <2>2 DEF StopUnit, TypeOK, row
<1>4. CASE StopFails(a)
  BY <1>4, CloseType DEF StopFails, TypeOK, systemd
<1>5. CASE StopCommit(a)
  BY <1>5, CloseType, CommitType DEF StopCommit, TypeOK, Status, Terminal, systemd
<1>6. CASE RestartUnit(a)
  <2>1. unit' \in Unit /\ runner' \in Stage /\ starts' \in 0..Burst /\ again' \in BOOLEAN
    BY <1>6, ActivateType DEF RestartUnit, TypeOK, Signal, Unit, Stage
  <2>2. pc' \in [Sessions -> Label] /\ FoundOK'
    BY <1>6 DEF RestartUnit, TypeOK, FoundOK, Goto, Label
  <2> QED
    BY <1>6, <2>1, <2>2 DEF RestartUnit, TypeOK, row
<1>7. CASE RestartCommit(a)
  BY <1>7, CloseType, CommitType DEF RestartCommit, TypeOK, Status, systemd
<1>8. CASE RestartFails(a)
  BY <1>8, CloseType DEF RestartFails, TypeOK, Unit
<1>9. CASE ReconcileUnit(a)
  <2>1. Normalized(unit) \in Status /\ seen[a] \in Status /\ "error" \in Status
    BY NormalizedType DEF TypeOK, Status, Terminal
  <2>2. \E v \in Status : Find(a, v)
    BY <1>9, <2>1 DEF ReconcileUnit, Reconciled
  <2>3. /\ pc' \in [Sessions -> Label]
        /\ found' \in [Sessions -> Unit \cup Status]
        /\ FoundOK'
    BY <1>9, <2>2 DEF ReconcileUnit, TypeOK, FoundOK, Find, Goto, Label
  <2> QED
    BY <1>9, <2>3 DEF ReconcileUnit, TypeOK, row, systemd
<1>10. CASE ReconcileCommit(a)
  <2>1. status' \in Status
    BY <1>10, CommitType DEF ReconcileCommit, FoundOK
  <2> QED
    BY <1>10, <2>1, CloseType DEF ReconcileCommit, TypeOK, systemd
<1> QED
  BY <1>1, <1>2, <1>3, <1>4, <1>5, <1>6, <1>7, <1>8, <1>9, <1>10

\* The runner's steps keep the types.
LEMMA RunnerType ==
    ASSUME TypeInv, RunnerSteps \/ FFmpegExits
    PROVE  TypeInv'
<1> USE DEF TypeInv
<1>1. CASE Boot
  <2>1. CASE \E refused \in BOOLEAN : RunnerEnds(refused)
    BY <1>1, <2>1, RunnerEndsType DEF Boot, TypeOK, FoundOK, backend
  <2>2. CASE runner' = "prepare" /\ Load(Runner) /\ UNCHANGED systemd
    BY <1>1, <2>2 DEF Boot, TypeOK, FoundOK, Load, Stage, backend, systemd
  <2> QED
    BY <1>1, <2>1, <2>2 DEF Boot
<1>2. CASE Prepare \/ Spawn \/ ClearHeartbeat
  BY <1>2 DEF Prepare, Spawn, ClearHeartbeat, TypeOK, FoundOK, Stage, row, backend,
              systemd
<1>3. CASE LaunchAborts \/ AnnounceFails
  BY <1>3, RunnerEndsType DEF LaunchAborts, AnnounceFails, TypeOK, FoundOK, backend
<1>4. CASE Announce
  <2>1. status' \in Status /\ seen' \in [Sessions \cup {Runner} -> Status]
    BY <1>4, CommitType DEF Announce, Status
  <2> QED
    BY <1>4, <2>1 DEF Announce, TypeOK, FoundOK, Stage, backend, systemd
<1>5. CASE UpdateAfterExit
  BY <1>5, RunnerEndsType DEF UpdateAfterExit, TypeOK, FoundOK, Status, Terminal, backend
<1>6. CASE FFmpegExits
  BY <1>6 DEF FFmpegExits, TypeOK, FoundOK, Status, Stage, backend, systemd
<1>7. CASE RenewalRaises
  BY <1>7, RunnerEndsType DEF RenewalRaises, TypeOK, FoundOK, backend
<1> QED
  BY <1>1, <1>2, <1>3, <1>4, <1>5, <1>6, <1>7 DEF RunnerSteps

\* The steps of systemd and of the clock, and the crashes, keep the types.
LEMMA SystemdType ==
    ASSUME TypeInv, Systemd \/ Environment
    PROVE  TypeInv'
<1> USE DEF TypeInv
<1>1. CASE AutoRestart
  BY <1>1, ActivateType DEF AutoRestart, TypeOK, FoundOK, row, backend
<1>2. CASE UnitStopped
  <2>1. unit' \in Unit /\ runner' \in Stage /\ starts' \in 0..Burst
    BY <1>2, ActivateType DEF UnitStopped, TypeOK, Unit
  <2>2. pc' \in [Sessions -> Label]
    BY <1>2 DEF UnitStopped, TypeOK, Label
  <2>3. FoundOK'
    BY <1>2 DEF UnitStopped, FoundOK
  <2> QED
    BY <1>2, <2>1, <2>2, <2>3 DEF UnitStopped, TypeOK, row
<1>3. CASE StopTimesOut
  BY <1>3 DEF StopTimesOut, Forget, TypeOK, FoundOK, Unit, Stage, Status, Terminal,
              backend
<1>4. CASE RunnerKilled
  BY <1>4, RunnerEndsType DEF RunnerKilled, TypeOK, FoundOK, backend
<1>5. CASE IntervalEnds
  BY <1>5, RuntimeAssumption DEF IntervalEnds, TypeOK, FoundOK, row, backend
<1>6. CASE HeartbeatExpires
  BY <1>6 DEF HeartbeatExpires, TypeOK, FoundOK, row, backend, systemd
<1>7. CASE BackendCrashes
  <2>1. seen' \in [Sessions \cup {Runner} -> Status]
    BY <1>7 DEF BackendCrashes, TypeOK, Status, Terminal
  <2>2. pc' \in [Sessions -> Label] /\ found' \in [Sessions -> Unit \cup Status] /\ FoundOK'
    BY <1>7 DEF BackendCrashes, FoundOK, Label, Unit
  <2> QED
    BY <1>7, <2>1, <2>2 DEF BackendCrashes, TypeOK, systemd
<1>8. CASE RenewalFails
  BY <1>8 DEF RenewalFails, TypeOK, FoundOK, Stage, row, backend, systemd
<1> QED
  BY <1>1, <1>2, <1>3, <1>4, <1>5, <1>6, <1>7, <1>8 DEF Systemd, Environment

\* Every step keeps the types.
THEOREM NextType == TypeInv /\ [Next]_vars => TypeInv'
<1> SUFFICES ASSUME TypeInv, [Next]_vars PROVE TypeInv'
  OBVIOUS
<1>1. CASE \E a \in Sessions : Begin(a) \/ BeginReconcile(a)
  BY <1>1, BeginType
<1>2. CASE \E a \in Sessions : Proceed(a)
  BY <1>2, StartType, StopType DEF Proceed
<1>3. CASE RunnerSteps \/ FFmpegExits
  BY <1>3, RunnerType
<1>4. CASE Systemd \/ Environment
  BY <1>4, SystemdType
<1>5. CASE UNCHANGED vars
  BY <1>5 DEF vars, TypeInv, TypeOK, FoundOK
<1> QED
  BY <1>1, <1>2, <1>3, <1>4, <1>5 DEF Next

\* The row, the unit, the runner, its heartbeat and what every session has in
\* memory are of the kinds the code takes them for, whatever crashes.
THEOREM TypeCorrect == Spec => []TypeOK
<1>1. Spec => []TypeInv
  BY InitType, NextType, PTL DEF Spec
<1>2. TypeInv => TypeOK
  BY DEF TypeInv
<1> QED
  BY <1>1, <1>2, PTL

-----------------------------------------------------------------------------
(* A stale heartbeat is the trace of a crash or of a failed write. *)

\* A unit that is down or waits for its restart executes nothing.
NoRunnerDown == unit \in Down \cup {"activating"} => runner = "none"

\* As long as nothing crashed and no write failed there is a heartbeat only while
\* its runner renews it.
RenewedOrCrashed ==
    ~crashed => /\ runner \notin {"mute", "raise"}
                /\ heartbeat # "stale"
                /\ heartbeat = "fresh" => runner \in {"announce", "live", "clear"}

HeartbeatInv == NoRunnerDown /\ RenewedOrCrashed

\* A session's step keeps the invariant: systemctl starts a runner only where
\* there was none, and a signal ends it at once only before its heartbeat.
LEMMA SessionHeartbeat ==
    ASSUME TypeOK, HeartbeatInv, NEW a \in Sessions,
           Begin(a) \/ BeginReconcile(a) \/ Proceed(a)
    PROVE  HeartbeatInv'
<1> USE DEF HeartbeatInv, NoRunnerDown, RenewedOrCrashed, Down
<1>1. CASE Launch(a)
  BY <1>1 DEF Launch, Activate, systemd
<1>2. CASE LaunchFails(a)
  BY <1>2 DEF LaunchFails
<1>3. CASE StopUnit(a)
  BY <1>3 DEF StopUnit, Signal
<1>4. CASE RestartUnit(a)
  <2>1. CASE Signal /\ unit' = "deactivating"
    BY <1>4, <2>1 DEF RestartUnit, Signal
  <2>2. CASE unit \notin {"active", "deactivating"} /\ Activate
    <3>1. runner = "none"
      BY <2>2 DEF TypeOK, Unit
    <3> QED
      BY <1>4, <2>2, <3>1 DEF RestartUnit, Activate
  <2> QED
    BY <1>4, <2>1, <2>2 DEF RestartUnit
<1>5. CASE RestartFails(a)
  BY <1>5 DEF RestartFails
<1>6. CASE UNCHANGED <<systemd, runner, heartbeat, crashed>>
  BY <1>6 DEF systemd
<1>7. CASE Begin(a) \/ BeginReconcile(a)
  BY <1>6, <1>7 DEF Begin, BeginReconcile, BeginPoll, BeginStart, BeginStop, BeginRestart
<1>8. CASE \/ PollUnit(a) \/ PollCommit(a) \/ StartCheck(a) \/ StartCommit(a)
           \/ StopProbe(a) \/ StopMark(a) \/ StopFails(a) \/ StopReturns(a)
           \/ StopCommit(a) \/ RestartCommit(a) \/ ReconcileUnit(a) \/ ReconcileCommit(a)
  BY <1>6, <1>8 DEF PollUnit, PollCommit, StartCheck, StartCommit, StopProbe, StopMark,
                    StopFails, StopReturns, StopCommit, RestartCommit, ReconcileUnit,
                    ReconcileCommit
<1> QED
  BY <1>1, <1>2, <1>3, <1>4, <1>5, <1>7, <1>8 DEF Proceed

\* The runner's step keeps the invariant: it writes the heartbeat before it
\* announces itself and leaves by way of the finally clause that clears it,
\* unless its commit or a write of the heartbeat fails.
LEMMA RunnerHeartbeat ==
    ASSUME HeartbeatInv, RunnerSteps \/ FFmpegExits
    PROVE  HeartbeatInv'
<1> USE DEF HeartbeatInv, NoRunnerDown, RenewedOrCrashed, Down
<1>1. CASE Boot
  BY <1>1 DEF Boot, RunnerEnds, systemd
<1>2. CASE Prepare \/ Spawn \/ Announce
  BY <1>2 DEF Prepare, Spawn, Announce, systemd
<1>3. CASE LaunchAborts \/ AnnounceFails
  BY <1>3 DEF LaunchAborts, AnnounceFails, RunnerEnds
<1>4. CASE FFmpegExits \/ ClearHeartbeat
  BY <1>4 DEF FFmpegExits, ClearHeartbeat, systemd
<1>5. CASE RenewalRaises \/ UpdateAfterExit
  BY <1>5 DEF RenewalRaises, UpdateAfterExit, RunnerEnds
<1> QED
  BY <1>1, <1>2, <1>3, <1>4, <1>5 DEF RunnerSteps

\* systemd and the clock keep the invariant: whatever ends a runner behind its
\* back is recorded as a crash, and the file expires only unrenewed.
LEMMA SystemdHeartbeat ==
    ASSUME HeartbeatInv, Systemd \/ Environment
    PROVE  HeartbeatInv'
<1> USE DEF HeartbeatInv, NoRunnerDown, RenewedOrCrashed, Down
<1>1. CASE AutoRestart
  BY <1>1 DEF AutoRestart, Activate
<1>2. CASE UnitStopped
  BY <1>2 DEF UnitStopped, Activate
<1>3. CASE StopTimesOut
  BY <1>3 DEF StopTimesOut
<1>4. CASE RunnerKilled
  BY <1>4 DEF RunnerKilled, RunnerEnds
<1>5. CASE RenewalFails \/ IntervalEnds \/ HeartbeatExpires \/ BackendCrashes
  BY <1>5 DEF RenewalFails, IntervalEnds, HeartbeatExpires, BackendCrashes, systemd
<1> QED
  BY <1>1, <1>2, <1>3, <1>4, <1>5 DEF Systemd, Environment

\* Every step keeps the invariant.
LEMMA NextHeartbeat == TypeOK /\ HeartbeatInv /\ [Next]_vars => HeartbeatInv'
<1> SUFFICES ASSUME TypeOK, HeartbeatInv, [Next]_vars PROVE HeartbeatInv'
  OBVIOUS
<1>1. CASE \E a \in Sessions : Begin(a) \/ BeginReconcile(a) \/ Proceed(a)
  BY <1>1, SessionHeartbeat
<1>2. CASE RunnerSteps \/ FFmpegExits
  BY <1>2, RunnerHeartbeat
<1>3. CASE Systemd \/ Environment
  BY <1>3, SystemdHeartbeat
<1>4. CASE UNCHANGED vars
  BY <1>4 DEF vars, HeartbeatInv, NoRunnerDown, RenewedOrCrashed
<1> QED
  BY <1>1, <1>2, <1>3, <1>4 DEF Next

\* Every reachable state keeps runners and heartbeats in step.
THEOREM HeartbeatInvariant == Spec => []HeartbeatInv
<1>1. Init => HeartbeatInv
  BY DEF Init, HeartbeatInv, NoRunnerDown, RenewedOrCrashed
<1> QED
  BY <1>1, NextHeartbeat, TypeCorrect, PTL DEF Spec

\* Whatever requests, polls, passes and backend crashes meet a runner, its
\* heartbeat goes stale only if some runner was killed or could not commit, or could
\* not write the file: with none of these the reconciler never finds "heartbeat
\* stale".
THEOREM NoStaleWithoutCrash == Spec => []StaleMeansCrash
<1>1. HeartbeatInv => StaleMeansCrash
  BY DEF HeartbeatInv, RenewedOrCrashed, StaleMeansCrash
<1> QED
  BY <1>1, HeartbeatInvariant, PTL

-----------------------------------------------------------------------------
(* The refusal of a terminal row, with no polling client and no reconciler:  *)
(* a poll writes what it makes of a unit that waits for its restart over the *)
(* terminal status, a reconciler what it saw before, and TLC finds both.     *)
(* While nobody asks for anything the row of a barred stream changes only    *)
(* when a runner gets past the refusal.                                      *)

BarredInv ==
    barred => /\ ~InFlight
              /\ status \in Terminal
              /\ runner \in {"none", "boot"}

\* The history variable adds nothing to what the system does.
LEMMA BarredIsSpec == BarredSpec => Spec
<1>1. [Next /\ Remember]_barredVars => [Next]_vars
  BY DEF barredVars
<1> QED
  BY <1>1, PTL DEF BarredSpec, Spec

\* A step of a barred stream that leaves it barred is no session's step.
LEMMA NoSessionActs ==
    ASSUME Polls \cup Reconcilers = {}, TypeOK, ~InFlight, ~InFlight',
           NEW a \in Sessions, Begin(a) \/ BeginReconcile(a) \/ Proceed(a)
    PROVE  FALSE
<1>1. a \in Api /\ pc[a] = "idle" /\ pc'[a] = "idle"
  BY DEF Sessions, InFlight
<1>2. ~Proceed(a)
  BY <1>1 DEF Proceed, PollUnit, PollCommit, StartCheck, StartCommit, Launch, LaunchFails,
     StopProbe, StopMark, StopUnit, StopFails, StopReturns, StopCommit, RestartUnit,
     RestartCommit, RestartFails, ReconcileUnit, ReconcileCommit
<1>3. \A label : Goto(a, label) => pc'[a] = label
  BY DEF Goto, TypeOK
<1>4. ~Begin(a)
  BY <1>1, <1>3 DEF Begin, BeginPoll, BeginStart, BeginStop, BeginRestart
<1>5. ~BeginReconcile(a)
  BY <1>1, <1>3 DEF BeginReconcile
<1> QED
  BY <1>2, <1>4, <1>5

\* A barred stream's runner gets as far as the refusal, again and again.
LEMMA BarredStays ==
    ASSUME Polls \cup Reconcilers = {}, TypeOK, BarredInv, barred, ~InFlight', Next
    PROVE  status' \in Terminal /\ runner' \in {"none", "boot"}
<1>0. ~InFlight /\ status \in Terminal /\ runner \in {"none", "boot"}
  BY DEF BarredInv
<1>1. CASE RunnerSteps \/ FFmpegExits
  BY <1>0, <1>1 DEF RunnerSteps, Boot, Prepare, Spawn, LaunchAborts, Announce, AnnounceFails,
     ClearHeartbeat, RenewalRaises, UpdateAfterExit, FFmpegExits, RunnerEnds
<1>2. CASE Systemd
  BY <1>0, <1>2 DEF Systemd, AutoRestart, UnitStopped, StopTimesOut, Activate, row
<1>3. CASE Environment
  BY <1>0, <1>3 DEF Environment, RunnerKilled, RenewalFails, IntervalEnds, HeartbeatExpires,
     BackendCrashes, RunnerEnds, row
<1> QED
  BY <1>0, <1>1, <1>2, <1>3, NoSessionActs DEF Next

\* Every step keeps the invariant: a stream is barred when its unit waits for
\* its restart, which executes nothing.
LEMMA NextBarred ==
    ASSUME Polls \cup Reconcilers = {}
    PROVE  TypeOK /\ BarredInv /\ HeartbeatInv' /\ [Next /\ Remember]_barredVars => BarredInv'
<1> SUFFICES ASSUME TypeOK, BarredInv, HeartbeatInv', [Next /\ Remember]_barredVars, barred'
             PROVE  ~InFlight' /\ status' \in Terminal /\ runner' \in {"none", "boot"}
  BY DEF BarredInv
<1>1. CASE UNCHANGED barredVars
  BY <1>1 DEF barredVars, vars, BarredInv, InFlight
<1>2. CASE Next /\ Remember /\ barred
  BY <1>2, BarredStays DEF Remember
<1>3. CASE Next /\ Remember /\ ~barred
  BY <1>3 DEF Remember, HeartbeatInv, NoRunnerDown
<1> QED
  BY <1>1, <1>2, <1>3

\* systemd's restarts never launch a terminal stream again while nobody asks for
\* it, for any number of requests that came before and any start limit.
THEOREM TerminalIsRefused ==
    ASSUME Polls \cup Reconcilers = {}
    PROVE  BarredSpec => []RefusesTerminal
<1>1. Init /\ barred = FALSE => BarredInv
  BY DEF BarredInv
<1>2. BarredSpec => []TypeOK /\ []HeartbeatInv
  BY BarredIsSpec, TypeCorrect, HeartbeatInvariant, PTL
<1>3. BarredInv => RefusesTerminal
  BY DEF BarredInv, RefusesTerminal
<1> QED
  BY <1>1, <1>2, <1>3, NextBarred, PTL DEF BarredSpec

=============================================================================

----------------------- MODULE FFmpegManagerProofs -----------------------
(***************************************************************************)
(* Proofs about FFmpegManager, for any number of processes.  The types and *)
(* the restart ceiling hold for any callers and any ceiling, with or       *)
(* without the cleanup loop; what a managed stop promises holds for one    *)
(* client at a time.                                                       *)
(***************************************************************************)
EXTENDS FFmpegManager, TLAPS

-----------------------------------------------------------------------------
(* Lemmas about the helpers of the actions. *)

\* max() of two counters is a counter, and below neither.
LEMMA MaxOfBound ==
    ASSUME NEW m \in Nat, NEW n \in Nat
    PROVE  /\ MaxOf(m, n) \in Nat
           /\ MaxOf(m, n) >= m
           /\ MaxOf(m, n) >= n
BY DEF MaxOf

\* The processes, None among them, are numbers that are no callers.
LEMMA ProcsFacts ==
    /\ Procs \subseteq 0..MaxProcs
    /\ None \in 0..MaxProcs
    /\ Callers \cap Procs = {}
    /\ Callers \subseteq Tasks
    /\ Procs \subseteq Tasks
BY ManagerAssumption DEF Procs, Tasks, None

\* Each way the actions update loc keeps every task's locals well typed.
LEMMA LocalUpdate ==
    ASSUME loc \in [Tasks -> Local], NEW t \in Tasks,
           NEW n \in 0..MaxProcs, NEW k \in Nat, NEW b \in BOOLEAN
    PROVE  /\ [loc EXCEPT ![t].child = n] \in [Tasks -> Local]
           /\ [loc EXCEPT ![t].restart = b] \in [Tasks -> Local]
           /\ [loc EXCEPT ![t].child = n, ![t].mem = k] \in [Tasks -> Local]
           /\ [loc EXCEPT ![t].mem = k, ![t].ref = n] \in [Tasks -> Local]
           /\ [loc EXCEPT ![t] = NoLocal] \in [Tasks -> Local]
           /\ [loc EXCEPT ![t] = [NoLocal EXCEPT !.restart = b]] \in [Tasks -> Local]
<1>1. /\ [loc EXCEPT ![t].child = n]
             = [loc EXCEPT ![t] = [loc[t] EXCEPT !.child = n]]
      /\ [loc EXCEPT ![t].restart = b]
             = [loc EXCEPT ![t] = [loc[t] EXCEPT !.restart = b]]
      /\ [loc EXCEPT ![t].child = n, ![t].mem = k]
             = [loc EXCEPT ![t] = [loc[t] EXCEPT !.child = n, !.mem = k]]
      /\ [loc EXCEPT ![t].mem = k, ![t].ref = n]
             = [loc EXCEPT ![t] = [loc[t] EXCEPT !.mem = k, !.ref = n]]
  OBVIOUS
<1>2. [loc[t] EXCEPT !.child = n] \in Local
  BY DEF Local
<1>3. [loc[t] EXCEPT !.restart = b] \in Local
  BY DEF Local
<1>4. [loc[t] EXCEPT !.child = n, !.mem = k] \in Local
  BY DEF Local
<1>5. [loc[t] EXCEPT !.mem = k, !.ref = n] \in Local
  BY DEF Local
<1>6. NoLocal \in Local /\ [NoLocal EXCEPT !.restart = b] \in Local
  BY ManagerAssumption DEF Local, NoLocal, None
<1> QED
  BY <1>1, <1>2, <1>3, <1>4, <1>5, <1>6

\* The same for info.
LEMMA InfoUpdate ==
    ASSUME info \in Info
    PROVE  /\ NoInfo \in Info
           /\ [info EXCEPT !.manual = TRUE] \in Info
<1>1. NoInfo \in Info
  BY ProcsFacts DEF Info, NoInfo
<1>2. [info EXCEPT !.manual = TRUE] \in Info
  BY DEF Info
<1> QED
  BY <1>1, <1>2

\* An attempts field written through a handler's reference keeps info well typed.
\* (_handle_stream_failure writes it into a dictionary that may be stale.)
LEMMA AttemptsUpdate ==
    ASSUME info \in Info, NEW n \in 0..MaxProcs, NEW k \in Nat
    PROVE  /\ [info EXCEPT !.attempts = k] \in Info
           /\ [of |-> n, manual |-> FALSE, attempts |-> k] \in Info
<1>1. [info EXCEPT !.attempts = k] \in Info
  BY DEF Info
<1>2. [of |-> n, manual |-> FALSE, attempts |-> k] \in Info
  BY DEF Info
<1> QED
  BY <1>1, <1>2

\* The conjuncts of TypeOK about pc.
PcOK ==
    /\ pc \in [Tasks -> CallerPc \cup MonitorPc]
    /\ \A c \in Callers : pc[c] \in CallerPc
    /\ \A p \in Procs : pc[p] \in MonitorPc

\* A task that moves to a label of its kind leaves pc well typed.
LEMMA GotoType ==
    ASSUME TypeOK, NEW t \in Tasks, NEW label,
           Goto(t, label),
           t \in Callers => label \in CallerPc,
           t \in Procs => label \in MonitorPc
    PROVE  PcOK'
BY ProcsFacts DEF TypeOK, Goto, PcOK, Tasks

-----------------------------------------------------------------------------
(* Type correctness. *)

\* A new FFmpegStreamManager is well typed.
THEOREM InitType == Init => TypeOK
<1> SUFFICES ASSUME Init PROVE TypeOK
  OBVIOUS
<1>1. PcOK
  BY ProcsFacts DEF Init, PcOK, Tasks, CallerPc, MonitorPc
<1>2. loc \in [Tasks -> Local]
  <2>1. NoLocal \in Local
    BY ProcsFacts DEF Local, NoLocal
  <2> QED
    BY <2>1 DEF Init
<1>3. info \in Info
  BY ProcsFacts DEF Init, Info, NoInfo
<1>4. proc \in [Procs -> ProcState]
  BY DEF Init, ProcState
<1> QED
  BY <1>1, <1>2, <1>3, <1>4, ProcsFacts DEF Init, TypeOK, PcOK

\* The steps of start_stream, stop_stream and restart_stream in a caller keep
\* the types.
LEMMA CallerStepType ==
    ASSUME TypeOK, NEW c \in Callers, CallerStep(c)
    PROVE  TypeOK'
<1>0. c \in Tasks /\ c \notin Procs
  BY ProcsFacts
<1>1. ASSUME NEW restart \in BOOLEAN, StartCall(c, restart)
      PROVE  TypeOK'
  <2>1. PcOK'
    <3>1. Goto(c, "spawn") /\ "spawn" \in CallerPc
      BY <1>1 DEF StartCall, EnterStart, CallerPc, StartPc, StopPc
    <3> QED
      BY <1>0, <3>1, GotoType
  <2>2. loc' \in [Tasks -> Local]
    BY <1>0, <1>1, LocalUpdate, ProcsFacts DEF StartCall, EnterStart, TypeOK
  <2> QED
    BY <1>0, <1>1, <2>1, <2>2, ProcsFacts DEF StartCall, EnterStart, TypeOK, PcOK
<1>2. CASE StopCall(c)
  <2>1. PcOK'
    <3>1. Goto(c, "stop_lock") /\ "stop_lock" \in CallerPc
      BY <1>2 DEF StopCall, CallerPc, StartPc, StopPc
    <3> QED
      BY <1>0, <3>1, GotoType
  <2>2. loc' \in [Tasks -> Local]
    BY <1>0, <1>2, LocalUpdate, ProcsFacts DEF StopCall, TypeOK
  <2> QED
    BY <1>0, <1>2, <2>1, <2>2, ProcsFacts DEF StopCall, TypeOK, PcOK
<1>3. CASE RestartCall(c)
  <2>1. PcOK'
    <3>1. Goto(c, "stop_lock") /\ "stop_lock" \in CallerPc
      BY <1>3 DEF RestartCall, CallerPc, StartPc, StopPc
    <3> QED
      BY <1>0, <3>1, GotoType
  <2>2. loc' \in [Tasks -> Local]
    BY <1>0, <1>3, LocalUpdate, ProcsFacts DEF RestartCall, TypeOK
  <2> QED
    BY <1>0, <1>3, <2>1, <2>2, ProcsFacts DEF RestartCall, TypeOK, PcOK
<1>4. CASE StopSignal(c)
  <2>1. PcOK'
    <3>1. Goto(c, "stop_wait") /\ "stop_wait" \in CallerPc
      BY <1>4 DEF StopSignal, CallerPc, StartPc, StopPc
    <3> QED
      BY <1>0, <3>1, GotoType
  <2>2. loc' \in [Tasks -> Local]
    BY <1>0, <1>4, LocalUpdate, ProcsFacts DEF StopSignal, TypeOK
  <2>3. info' \in Info
    BY <1>0, <1>4, InfoUpdate DEF StopSignal, TypeOK
  <2>4. signalled' \subseteq Procs
    BY <1>4, ProcsFacts DEF StopSignal, TypeOK, Procs, None
  <2> QED
    BY <1>0, <1>4, <2>1, <2>2, <2>3, <2>4, ProcsFacts DEF StopSignal, TypeOK, PcOK
<1>5. CASE StopAbsent(c)
  <2>1. PcOK'
    <3>1. PICK label \in {"stop_pop", "stop_join"} : Goto(c, label)
      BY <1>5 DEF StopAbsent, JoinMonitor
    <3>2. label \in CallerPc
      BY <3>1 DEF CallerPc, StartPc, StopPc
    <3> QED
      BY <1>0, <3>1, <3>2, GotoType
  <2>2. loc' \in [Tasks -> Local]
    BY <1>0, <1>5, LocalUpdate, ProcsFacts DEF StopAbsent, JoinMonitor, TypeOK
  <2>3. info' \in Info
    BY <1>0, <1>5, InfoUpdate DEF StopAbsent, JoinMonitor, TypeOK
  <2> QED
    BY <1>0, <1>5, <2>1, <2>2, <2>3, ProcsFacts DEF StopAbsent, JoinMonitor, TypeOK, PcOK
<1>6. CASE StopKill(c)
  <2> QED
    BY <1>0, <1>6, ProcsFacts DEF StopKill, TypeOK, PcOK, ProcState
<1>7. CASE StopReap(c)
  <2>1. PcOK'
    <3>1. PICK label \in {"stop_pop", "stop_join"} : Goto(c, label)
      BY <1>7 DEF StopReap, JoinMonitor
    <3>2. label \in CallerPc
      BY <3>1 DEF CallerPc, StartPc, StopPc
    <3> QED
      BY <1>0, <3>1, <3>2, GotoType
  <2>2. loc' \in [Tasks -> Local]
    BY <1>0, <1>7, LocalUpdate, ProcsFacts DEF StopReap, JoinMonitor, TypeOK
  <2> QED
    BY <1>0, <1>7, <2>1, <2>2, ProcsFacts DEF StopReap, JoinMonitor, TypeOK, PcOK
<1>8. CASE StopJoin(c)
  <2>1. PcOK'
    <3>1. Goto(c, "stop_pop") /\ "stop_pop" \in CallerPc
      BY <1>8 DEF StopJoin, CallerPc, StartPc, StopPc
    <3> QED
      BY <1>0, <3>1, GotoType
  <2>2. loc' \in [Tasks -> Local]
    BY <1>0, <1>8, LocalUpdate, ProcsFacts DEF StopJoin, TypeOK
  <2> QED
    BY <1>0, <1>8, <2>1, <2>2, ProcsFacts DEF StopJoin, TypeOK, PcOK
<1>9. CASE StopReturn(c)
  <2>1. PcOK'
    <3>1. Goto(c, "idle") /\ "idle" \in CallerPc
      BY <1>9 DEF StopReturn, Forget, CallerPc, StartPc, StopPc
    <3> QED
      BY <1>0, <3>1, GotoType
  <2>2. loc' \in [Tasks -> Local]
    BY <1>0, <1>9, LocalUpdate, ProcsFacts DEF StopReturn, Forget, TypeOK
  <2> QED
    BY <1>0, <1>9, <2>1, <2>2, ProcsFacts DEF StopReturn, Forget, TypeOK, PcOK
<1>10. CASE RestartReturn(c)
  <2>1. PcOK'
    <3>1. PICK label \in {"spawn", "idle"} : Goto(c, label)
      BY <1>10 DEF RestartReturn
    <3>2. label \in CallerPc
      BY <3>1 DEF CallerPc, StartPc, StopPc
    <3> QED
      BY <1>0, <3>1, <3>2, GotoType
  <2>2. loc' \in [Tasks -> Local]
    BY <1>0, <1>10, LocalUpdate, ProcsFacts DEF RestartReturn, TypeOK
  <2> QED
    BY <1>0, <1>10, <2>1, <2>2, ProcsFacts DEF RestartReturn, TypeOK, PcOK
<1> QED
  BY <1>1, <1>2, <1>3, <1>4, <1>5, <1>6, <1>7, <1>8, <1>9, <1>10
  DEF CallerStep

\* The steps of _monitor_process and _handle_stream_failure keep the types.
LEMMA MonitorStepType ==
    ASSUME TypeOK, NEW p \in Procs, MonitorStep(p)
    PROVE  TypeOK'
<1>0. p \in Tasks /\ p \notin Callers /\ loc[p] \in Local /\ info \in Info
  BY ProcsFacts DEF TypeOK
<1>m. loc[p].mem \in Nat /\ info.attempts \in Nat /\ info.of \in 0..MaxProcs
  BY <1>0 DEF Local, Info
<1>1. CASE MonitorSeesExit(p)
  <2>1. PcOK'
    <3>1. Goto(p, "drain") /\ "drain" \in MonitorPc
      BY <1>1 DEF MonitorSeesExit, MonitorPc, StartPc, CleanPc, FailPc
    <3> QED
      BY <1>0, <3>1, GotoType
  <2> QED
    BY <1>0, <1>1, <2>1, ProcsFacts DEF MonitorSeesExit, TypeOK, PcOK
<1>2. CASE MonitorClassify(p)
  <2>1. PcOK'
    <3>1. PICK label \in {"clean_reset", "fail_read"} : Goto(p, label)
      BY <1>2 DEF MonitorClassify
    <3>2. label \in MonitorPc
      BY <3>1 DEF MonitorPc, StartPc, CleanPc, FailPc
    <3> QED
      BY <1>0, <3>1, <3>2, GotoType
  <2>2. loc' \in [Tasks -> Local]
    BY <1>0, <1>m, <1>2, LocalUpdate, ProcsFacts DEF MonitorClassify, TypeOK
  <2> QED
    BY <1>0, <1>2, <2>1, <2>2, ProcsFacts DEF MonitorClassify, TypeOK, PcOK
<1>3. CASE CleanReset(p)
  <2>1. PcOK'
    <3>1. Goto(p, "clean_final") /\ "clean_final" \in MonitorPc
      BY <1>3 DEF CleanReset, MonitorPc, StartPc, CleanPc, FailPc
    <3> QED
      BY <1>0, <3>1, GotoType
  <2> QED
    BY <1>0, <1>3, <2>1, ProcsFacts DEF CleanReset, TypeOK, PcOK
<1>4. CASE CleanFinal(p)
  <2>1. PcOK'
    <3>1. Goto(p, "clean_pop") /\ "clean_pop" \in MonitorPc
      BY <1>4 DEF CleanFinal, MonitorPc, StartPc, CleanPc, FailPc
    <3> QED
      BY <1>0, <3>1, GotoType
  <2> QED
    BY <1>0, <1>4, <2>1, ProcsFacts DEF CleanFinal, TypeOK, PcOK
<1>5. CASE FailRead(p)
  <2>1. PcOK'
    <3>1. PICK label \in {"fail_advance", "mark"} : Goto(p, label)
      BY <1>5 DEF FailRead
    <3>2. label \in MonitorPc
      BY <3>1 DEF MonitorPc, StartPc, CleanPc, FailPc
    <3> QED
      BY <1>0, <3>1, <3>2, GotoType
  <2>3. info' \in Info
    BY <1>0, <1>5, InfoUpdate, AttemptsUpdate, MaxOfBound, <1>m DEF FailRead, TypeOK, SetAttempts
  <2> QED
    BY <1>0, <1>5, <2>1, <2>3, ProcsFacts DEF FailRead, TypeOK, PcOK
<1>6. CASE FailAdvance(p)
  <2>1. PcOK'
    <3>1. PICK label \in {"mark", "backoff"} : Goto(p, label)
      BY <1>6 DEF FailAdvance
    <3>2. label \in MonitorPc
      BY <3>1 DEF MonitorPc, StartPc, CleanPc, FailPc
    <3> QED
      BY <1>0, <3>1, <3>2, GotoType
  <2>2. NewAttempts(p) \in Nat
    <3>1. persisted \in Nat
      BY DEF TypeOK
    <3>2. MaxOf(loc[p].mem, persisted) \in Nat
      BY <1>m, <3>1, MaxOfBound
    <3> QED
      BY <3>2 DEF NewAttempts
  <2>3. info' \in Info
    BY <1>0, <1>6, InfoUpdate, <2>2, AttemptsUpdate DEF FailAdvance, TypeOK, SetAttempts
  <2> QED
    BY <1>0, <1>6, <2>1, <2>2, <2>3 DEF FailAdvance, TypeOK, PcOK
<1>7. CASE Relaunch(p)
  <2>1. PcOK'
    <3>1. Goto(p, "spawn") /\ "spawn" \in MonitorPc
      BY <1>7 DEF Relaunch, MonitorPc, StartPc, CleanPc, FailPc
    <3> QED
      BY <1>0, <3>1, GotoType
  <2>2. loc' \in [Tasks -> Local]
    BY <1>0, <1>7, LocalUpdate, ProcsFacts DEF Relaunch, TypeOK
  <2> QED
    BY <1>0, <1>7, <2>1, <2>2, ProcsFacts DEF Relaunch, TypeOK, PcOK
<1>8. CASE RelaunchImpossible(p)
  <2>1. PcOK'
    <3>1. Goto(p, "mark") /\ "mark" \in MonitorPc
      BY <1>8 DEF RelaunchImpossible, MonitorPc, StartPc, CleanPc, FailPc
    <3> QED
      BY <1>0, <3>1, GotoType
  <2> QED
    BY <1>0, <1>8, <2>1, ProcsFacts DEF RelaunchImpossible, TypeOK, PcOK
<1>9. CASE MarkFailed(p)
  <2>1. PcOK'
    <3>1. Goto(p, "fail_pop") /\ "fail_pop" \in MonitorPc
      BY <1>9 DEF MarkFailed, MonitorPc, StartPc, CleanPc, FailPc
    <3> QED
      BY <1>0, <3>1, GotoType
  <2> QED
    BY <1>0, <1>9, <2>1, ProcsFacts DEF MarkFailed, TypeOK, PcOK
<1>10. CASE MonitorReturn(p)
  <2>1. PcOK'
    <3>1. Goto(p, "done") /\ "done" \in MonitorPc
      BY <1>10 DEF MonitorReturn, Forget, MonitorPc, StartPc, CleanPc, FailPc
    <3> QED
      BY <1>0, <3>1, GotoType
  <2>2. loc' \in [Tasks -> Local]
    BY <1>0, <1>10, LocalUpdate, ProcsFacts DEF MonitorReturn, Forget, TypeOK
  <2> QED
    BY <1>0, <1>10, <2>1, <2>2, ProcsFacts DEF MonitorReturn, Forget, TypeOK, PcOK
<1> QED
  BY <1>1, <1>2, <1>3, <1>4, <1>5, <1>6, <1>7, <1>8, <1>9, <1>10
  DEF MonitorStep

\* The labels of start_stream and of the last critical section belong to
\* callers and monitors alike.
LEMMA SharedStepType ==
    ASSUME TypeOK, NEW t \in Tasks, SharedStep(t)
    PROVE  TypeOK'
<1>0. (t \in Callers \/ t \in Procs) /\ loc[t] \in Local /\ info \in Info
  BY DEF Tasks, TypeOK
<1>m. /\ loc[t].mem \in Nat /\ loc[t].child \in 0..MaxProcs
      /\ info.attempts \in Nat
  BY <1>0 DEF Local, Info
<1>1. CASE SpawnFails(t)
  <2>1. PcOK'
    <3>1. /\ Goto(t, IF t \in Callers THEN "idle" ELSE "mark")
          /\ "idle" \in CallerPc
          /\ "mark" \in MonitorPc
      BY <1>1 DEF SpawnFails, CallerPc, MonitorPc, FailPc
    <3> QED
      BY <1>0, <3>1, GotoType, ProcsFacts
  <2>2. loc' \in [Tasks -> Local]
    BY <1>1, LocalUpdate, ProcsFacts DEF SpawnFails, Forget, TypeOK
  <2> QED
    BY <1>1, <2>1, <2>2 DEF SpawnFails, TypeOK, PcOK
<1>2. ASSUME NEW p \in Procs, SpawnSucceeds(t, p)
      PROVE  TypeOK'
  <2>1. PcOK'
    <3>1. /\ Goto(t, "persist")
          /\ "persist" \in CallerPc
          /\ "persist" \in MonitorPc
      BY <1>2 DEF SpawnSucceeds, CallerPc, MonitorPc, StartPc
    <3> QED
      BY <3>1, GotoType
  <2>2. loc' \in [Tasks -> Local]
    BY <1>m, <1>2, LocalUpdate, ProcsFacts DEF SpawnSucceeds, TypeOK
  <2>3. proc' \in [Procs -> ProcState]
    BY <1>2 DEF SpawnSucceeds, TypeOK, ProcState
  <2> QED
    BY <1>2, <2>1, <2>2, <2>3, ProcsFacts DEF SpawnSucceeds, TypeOK, PcOK
<1>3. CASE PersistStart(t)
  <2>1. PcOK'
    <3>1. /\ Goto(t, "register")
          /\ "register" \in CallerPc
          /\ "register" \in MonitorPc
      BY <1>3 DEF PersistStart, CallerPc, MonitorPc, StartPc
    <3> QED
      BY <3>1, GotoType
  <2>2. info' \in Info
    BY <1>m, <1>3, AttemptsUpdate, MaxOfBound DEF PersistStart, TypeOK
  <2> QED
    BY <1>3, <2>1, <2>2 DEF PersistStart, TypeOK, PcOK
<1>4. CASE RegisterMonitor(t)
  <2>1. PcOK'
    <3>1. /\ "watch" \in MonitorPc
          /\ "done" \in MonitorPc
          /\ "idle" \in CallerPc
      BY DEF MonitorPc, CallerPc
    <3>2. loc[t].child \notin Callers
      BY <1>m, ManagerAssumption
    <3> QED
      BY <1>0, <1>4, <3>1, <3>2, ProcsFacts DEF RegisterMonitor, TypeOK, PcOK
  <2>2. loc' \in [Tasks -> Local]
    BY <1>4, LocalUpdate, ProcsFacts DEF RegisterMonitor, Forget, TypeOK
  <2> QED
    BY <1>m, <1>4, <2>1, <2>2 DEF RegisterMonitor, TypeOK, PcOK
<1>5. CASE PopUnderLock(t)
  <2>1. PcOK'
    <3>1. /\ Goto(t, "unregister")
          /\ "unregister" \in CallerPc
          /\ "unregister" \in MonitorPc
      BY <1>5 DEF PopUnderLock, CallerPc, MonitorPc, StopPc
    <3> QED
      BY <3>1, GotoType
  <2>2. info' \in Info
    BY <1>0, <1>5, InfoUpdate, ProcsFacts DEF PopUnderLock, TypeOK
  <2> QED
    BY <1>5, <2>1, <2>2, ProcsFacts DEF PopUnderLock, TypeOK, PcOK
<1> QED
  BY <1>1, <1>2, <1>3, <1>4, <1>5 DEF SharedStep

\* Every step of the manager keeps the types.
LEMMA NextType == TypeOK /\ [Next]_vars => TypeOK'
<1> SUFFICES ASSUME TypeOK, [Next]_vars PROVE TypeOK'
  OBVIOUS
<1>0. info \in Info
  BY DEF TypeOK
<1>1. ASSUME NEW p \in Procs, ProcExit(p)
      PROVE  TypeOK'
  BY <1>1 DEF ProcExit, TypeOK, ProcState
<1>2. ASSUME NEW p \in Procs, QuotaStop(p)
      PROVE  TypeOK'
  <2>1. info' \in Info
    BY <1>0, <1>2, InfoUpdate DEF QuotaStop
  <2> QED
    BY <1>2, <2>1 DEF QuotaStop, TypeOK
<1>3. CASE CleanupDead
  BY <1>0, <1>3, InfoUpdate, ProcsFacts DEF CleanupDead, TypeOK
<1>4. CASE CleanupStaleInfo
  BY <1>0, <1>4, InfoUpdate, ProcsFacts DEF CleanupStaleInfo, TypeOK
<1>5. CASE UNCHANGED vars
  BY <1>5 DEF vars, TypeOK
<1> QED
  BY <1>1, <1>2, <1>3, <1>4, <1>5,
     CallerStepType, MonitorStepType, SharedStepType DEF Next

\* Every reachable state of the manager is well typed.
THEOREM TypeCorrect == Spec => []TypeOK
BY InitType, NextType, PTL DEF Spec

-----------------------------------------------------------------------------
(* The restart ceiling.  RestartBudget alone is not inductive: FailAdvance  *)
(* looks at the column, not at the grants, so the column has to account for *)
(* every grant made since the last reset.                                   *)

BudgetInv == granted <= persisted /\ RestartBudget

\* Nothing is granted before the first failure.
THEOREM InitBudget == Init => BudgetInv
BY ManagerAssumption DEF Init, BudgetInv, RestartBudget

\* A failure handler that grants a restart raises the column by at least one,
\* and grants it only if the new value is within the ceiling.
LEMMA AdvanceKeepsBudget ==
    ASSUME TypeOK, BudgetInv, NEW p \in Procs, FailAdvance(p)
    PROVE  BudgetInv'
<1>1. granted \in Nat /\ persisted \in Nat /\ MaxRestarts \in Nat
  BY ManagerAssumption DEF TypeOK
<1>2. loc[p].mem \in Nat
  BY ProcsFacts DEF TypeOK, Local
<1>3. NewAttempts(p) \in Nat /\ NewAttempts(p) >= persisted + 1
  <2>1. /\ MaxOf(loc[p].mem, persisted) \in Nat
        /\ MaxOf(loc[p].mem, persisted) >= persisted
    BY <1>1, <1>2, MaxOfBound
  <2> QED
    BY <1>1, <2>1 DEF NewAttempts
<1>4. CASE NewAttempts(p) > MaxRestarts
  BY <1>1, <1>3, <1>4 DEF FailAdvance, BudgetInv, RestartBudget
<1>5. CASE NewAttempts(p) <= MaxRestarts
  BY <1>1, <1>3, <1>5 DEF FailAdvance, BudgetInv, RestartBudget
<1> QED
  BY <1>1, <1>3, <1>4, <1>5

\* The two resets and the advance are the only writers of the column.
LEMMA NextBudget == TypeOK /\ BudgetInv /\ [Next]_vars => BudgetInv'
<1> SUFFICES ASSUME TypeOK, BudgetInv, [Next]_vars PROVE BudgetInv'
  OBVIOUS
<1>0. MaxRestarts \in Nat
  BY ManagerAssumption
<1>1. ASSUME NEW c \in Callers, CallerStep(c)
      PROVE  BudgetInv'
  BY <1>1 DEF CallerStep, StartCall, EnterStart, StopCall, RestartCall, StopSignal,
     StopAbsent, StopKill, StopReap, StopJoin, StopReturn, RestartReturn,
     BudgetInv, RestartBudget
<1>2. ASSUME NEW p \in Procs, MonitorStep(p)
      PROVE  BudgetInv'
  <2>1. CASE FailAdvance(p)
    BY <2>1, AdvanceKeepsBudget
  <2>2. CASE CleanReset(p)
    BY <1>0, <2>2 DEF CleanReset, BudgetInv, RestartBudget
  <2>3. CASE ~FailAdvance(p) /\ ~CleanReset(p)
    BY <1>2, <2>3 DEF MonitorStep, MonitorSeesExit, MonitorClassify, CleanFinal,
       FailRead, Relaunch, RelaunchImpossible, MarkFailed, MonitorReturn,
       BudgetInv, RestartBudget
  <2> QED
    BY <2>1, <2>2, <2>3
<1>3. ASSUME NEW t \in Tasks, SharedStep(t)
      PROVE  BudgetInv'
  <2>1. CASE PersistStart(t)
    BY <1>0, <2>1 DEF PersistStart, BudgetInv, RestartBudget
  <2>2. CASE ~PersistStart(t)
    BY <1>3, <2>2 DEF SharedStep, SpawnFails, SpawnSucceeds, RegisterMonitor,
       PopUnderLock, BudgetInv, RestartBudget
  <2> QED
    BY <2>1, <2>2
<1>4. ASSUME NEW p \in Procs, ProcExit(p) \/ QuotaStop(p)
      PROVE  BudgetInv'
  BY <1>4 DEF ProcExit, QuotaStop, BudgetInv, RestartBudget
<1>5. CASE CleanupDead \/ CleanupStaleInfo \/ UNCHANGED vars
  BY <1>5 DEF CleanupDead, CleanupStaleInfo, vars, BudgetInv, RestartBudget
<1> QED
  BY <1>1, <1>2, <1>3, <1>4, <1>5 DEF Next

\* However many failure handlers of a stream overlap, and whatever the cleanup
\* loop prunes meanwhile, FFMPEG_AUTO_RESTART_ATTEMPTS bounds the auto restarts
\* granted between two resets (_handle_stream_failure,
\* _advance_persisted_restart_state, _reset_persisted_restart_state).
THEOREM RestartCeiling == Spec => []RestartBudget
<1>1. BudgetInv => RestartBudget
  BY DEF BudgetInv
<1> QED
  BY <1>1, InitBudget, NextBudget, TypeCorrect, PTL DEF Spec

-----------------------------------------------------------------------------
(* One client at a time.  Public calls that do not overlap, no automatic      *)
(* restart (the default of its setting) and no cleanup loop, the parameters   *)
(* of the run manager_sequential; without any one of them the three           *)
(* properties below fail in TLC's instances.  Processes may be unkillable.    *)

Sequential ==
    /\ \A c, d \in Callers : c = d
    /\ MaxRestarts = 0
    /\ ~CleanupLoop

(* A monitor before its last critical section is the tracked one, and then    *)
(* info describes its process and active_streams leads to it, or a stop waits *)
(* for it.  So a monitor pops no entry of another process.                    *)

Before == {"watch", "drain", "clean_reset", "clean_final", "clean_pop",
           "fail_read", "mark", "fail_pop"}

MonitorInv ==
    \A p \in Procs :
        /\ pc[p] \in Before \cup {"none", "unregister", "done"}
        /\ pc[p] \in Before =>
             /\ mtask = p /\ info.of = p
             /\ active = p \/ \E c \in Callers : pc[c] = "stop_join" /\ loc[c].child = p
        /\ proc[p] = "unborn" => pc[p] = "none"
        /\ proc[p] = "alive" => pc[p] = "watch" \/ (pc[p] = "none" /\ active = p)
        /\ p \in signalled => pc[p] \notin {"none", "fail_read", "mark", "fail_pop"}
        /\ p \in signalled /\ pc[p] \in {"watch", "drain"} => info.manual

ActiveInv ==
    active # None =>
        \/ pc[active] \in Before
        \/ \E c \in Callers : pc[c] \in {"persist", "register"}

CallerInv ==
    /\ lock <=> \E c \in Callers : pc[c] = "stop_wait"
    /\ \A c \in Callers :
        /\ pc[c] \in {"spawn", "stop_join", "stop_pop", "unregister"} => active = None
        /\ pc[c] \in {"persist", "register"} =>
             active = loc[c].child /\ active \in Procs /\ pc[active] = "none" /\ proc[active] # "unborn"
        /\ pc[c] = "register" => info.of = active /\ ~info.manual
        /\ pc[c] = "stop_wait" => active = loc[c].child /\ active # None
        /\ pc[c] = "stop_join" =>
             /\ loc[c].child \in Procs
             /\ proc[loc[c].child] = "alive" => loc[c].child \in Unkillable

ClientInv == MonitorInv /\ ActiveInv /\ CallerInv

\* With a single caller that is not joining a monitor, an entry is missing only
\* when no monitor has its last critical section ahead.
LEMMA NoMonitorAhead ==
    ASSUME Sequential, ClientInv, NEW c \in Callers,
           \/ pc[c] # "stop_join" /\ active = None
           \/ pc[c] \in {"persist", "register"}
    PROVE  \A p \in Procs : pc[p] \notin Before
<1> SUFFICES ASSUME NEW p \in Procs, pc[p] \in Before PROVE FALSE
  OBVIOUS
<1>1. active = p
  BY DEF Sequential, ClientInv, MonitorInv
<1>2. p # None
  BY DEF Procs, None
<1>3. pc[c] \in {"persist", "register"}
  BY <1>1, <1>2
<1>4. pc[p] = "none"
  BY <1>1, <1>3 DEF ClientInv, CallerInv
<1> QED
  BY <1>4 DEF Before

\* A new manager has no process.
LEMMA InitClient == Init => ClientInv
<1> SUFFICES ASSUME Init PROVE ClientInv
  OBVIOUS
<1>1. \A p \in Procs : pc[p] = "none" /\ proc[p] = "unborn"
  BY ProcsFacts DEF Init
<1>2. \A c \in Callers : pc[c] = "idle"
  BY ProcsFacts DEF Init
<1>3. MonitorInv
  BY <1>1 DEF Init, MonitorInv, Before
<1> QED
  BY <1>2, <1>3 DEF Init, ClientInv, ActiveInv, CallerInv

\* Calls, returns and a failed spawn leave entries, monitors and processes alone.
LEMMA QuietCaller ==
    ASSUME Sequential, TypeOK, ClientInv, NEW c \in Callers,
           pc[c] \in {"idle", "spawn", "unregister"},
           NEW label \in {"idle", "spawn", "stop_lock"}, Goto(c, label),
           label = "spawn" => active = None,
           UNCHANGED <<proc, active, info, lock, mtask, signalled>>
    PROVE  ClientInv'
<1>1. c \in Tasks /\ \A d \in Callers : d = c
  BY ProcsFacts DEF Sequential
<1>2. pc'[c] = label /\ \A p \in Procs : pc'[p] = pc[p]
  BY <1>1, ProcsFacts DEF Goto, TypeOK
<1>3. MonitorInv'
  <2>1. \A p \in Procs : pc[p] \in Before => active = p
    BY <1>1 DEF ClientInv, MonitorInv
  <2> QED
    BY <1>2, <2>1 DEF ClientInv, MonitorInv
<1>4. ActiveInv'
  <2>1. active # None => active \in Procs
    BY DEF TypeOK, Procs, None
  <2> QED
    BY <1>1, <1>2, <2>1 DEF ClientInv, ActiveInv
<1>5. CallerInv'
  BY <1>1, <1>2 DEF ClientInv, CallerInv
<1> QED
  BY <1>3, <1>4, <1>5 DEF ClientInv

\* A monitor on its way to its last critical section changes no entry.
LEMMA QuietMonitor ==
    ASSUME TypeOK, ClientInv, NEW p \in Procs, pc[p] \in Before, proc[p] # "alive",
           NEW label \in Before \ {"watch"}, Goto(p, label),
           label = "drain" => pc[p] = "watch",
           p \in signalled => label \notin {"fail_read", "mark", "fail_pop"},
           info'.of = info.of, info'.manual = info.manual,
           \A c \in Callers : loc'[c] = loc[c],
           UNCHANGED <<proc, active, lock, mtask, signalled>>
    PROVE  ClientInv'
<1>1. \A t \in Tasks : pc'[t] = IF t = p THEN label ELSE pc[t]
  BY ProcsFacts DEF Goto, TypeOK
<1>2. \A c \in Callers : pc'[c] = pc[c]
  BY <1>1, ProcsFacts
<1>3. \A q \in Procs : pc'[q] = IF q = p THEN label ELSE pc[q]
  BY <1>1, ProcsFacts
<1>4. MonitorInv'
  <2> SUFFICES ASSUME NEW q \in Procs
               PROVE  /\ pc'[q] \in Before \cup {"none", "unregister", "done"}
                      /\ pc'[q] \in Before =>
                           /\ mtask = q /\ info'.of = q
                           /\ active = q \/ \E c \in Callers : pc'[c] = "stop_join" /\ loc'[c].child = q
                      /\ proc[q] = "unborn" => pc'[q] = "none"
                      /\ proc[q] = "alive" => pc'[q] = "watch" \/ (pc'[q] = "none" /\ active = q)
                      /\ q \in signalled => pc'[q] \notin {"none", "fail_read", "mark", "fail_pop"}
                      /\ q \in signalled /\ pc'[q] \in {"watch", "drain"} => info'.manual
    BY DEF MonitorInv
  <2>1. CASE q # p
    BY <1>2, <1>3, <2>1 DEF ClientInv, MonitorInv
  <2>2. CASE q = p
    BY <1>2, <1>3, <2>2 DEF ClientInv, MonitorInv, Before
  <2> QED
    BY <2>1, <2>2
<1>5. ActiveInv'
  <2>1. active # None => active \in Procs
    BY DEF TypeOK, Procs, None
  <2> QED
    BY <1>2, <1>3, <2>1 DEF ClientInv, ActiveInv
<1>6. CallerInv'
  <2>1. \A c \in Callers : pc[c] \in {"persist", "register"} => active # p
    BY DEF ClientInv, CallerInv, Before
  <2> QED
    BY <1>2, <1>3, <2>1 DEF ClientInv, CallerInv
<1> QED
  BY <1>4, <1>5, <1>6 DEF ClientInv

\* start_stream: the child is entered before any other task runs, its info
\* follows, and its monitor is tracked from its first step.
LEMMA StartClient ==
    ASSUME Sequential, TypeOK, ClientInv, NEW c \in Callers,
           \/ \E p \in Procs : SpawnSucceeds(c, p)
           \/ PersistStart(c)
           \/ RegisterMonitor(c)
    PROVE  ClientInv'
<1>0. /\ c \in Tasks /\ c \notin Procs /\ \A d \in Callers : d = c
      /\ loc[c] \in Local
      /\ \A p \in Procs : p # None /\ p \in Tasks
  BY ProcsFacts DEF Sequential, TypeOK, Procs, None
<1>n. \A p \in Procs : pc[p] \notin Before
  BY NoMonitorAhead DEF SpawnSucceeds, PersistStart, RegisterMonitor, ClientInv, CallerInv
<1>1. ASSUME NEW p \in Procs, SpawnSucceeds(c, p) PROVE ClientInv'
  <2>1. /\ proc[p] = "unborn" /\ active = None /\ active' = p /\ pc[c] = "spawn"
        /\ UNCHANGED <<info, lock, mtask, signalled>>
    BY <1>1 DEF SpawnSucceeds, ClientInv, CallerInv
  <2>2. \A q \in Procs : proc'[q] = IF q = p THEN "alive" ELSE proc[q]
    BY <1>1 DEF SpawnSucceeds, TypeOK
  <2>3. pc'[c] = "persist" /\ \A q \in Procs : pc'[q] = pc[q]
    BY <1>0, <1>1 DEF SpawnSucceeds, Goto, TypeOK
  <2>4. loc'[c].child = p
    BY <1>0, <1>1 DEF SpawnSucceeds, TypeOK, Local
  <2>5. pc[p] = "none" /\ \A q \in Procs : proc[q] # "alive"
    BY <1>0, <1>n, <2>1 DEF ClientInv, MonitorInv, Before
  <2>6. MonitorInv'
    BY <1>n, <2>1, <2>2, <2>3, <2>5 DEF ClientInv, MonitorInv
  <2>7. ActiveInv'
    BY <2>3 DEF ActiveInv
  <2>8. CallerInv'
    BY <1>0, <2>1, <2>2, <2>3, <2>4, <2>5 DEF ClientInv, CallerInv
  <2> QED
    BY <2>6, <2>7, <2>8 DEF ClientInv
<1>2. CASE PersistStart(c)
  <2>1. /\ pc[c] = "persist" /\ info'.of = loc[c].child /\ ~info'.manual
        /\ UNCHANGED <<proc, active, lock, mtask, loc, signalled>>
    BY <1>2 DEF PersistStart
  <2>2. pc'[c] = "register" /\ \A q \in Procs : pc'[q] = pc[q]
    BY <1>0, <1>2 DEF PersistStart, Goto, TypeOK
  <2>3. MonitorInv'
    BY <1>n, <2>1, <2>2 DEF ClientInv, MonitorInv, Before
  <2>4. ActiveInv'
    BY <2>2 DEF ActiveInv
  <2>5. CallerInv'
    BY <1>0, <2>1, <2>2 DEF ClientInv, CallerInv
  <2> QED
    BY <2>3, <2>4, <2>5 DEF ClientInv
<1>3. CASE RegisterMonitor(c)
  <2> DEFINE k == loc[c].child
  <2>1. /\ pc[c] = "register" /\ mtask' = k
        /\ UNCHANGED <<proc, active, info, lock, signalled>>
        /\ active = k /\ k \in Procs /\ pc[k] = "none" /\ proc[k] # "unborn"
        /\ info.of = k /\ ~info.manual
    BY <1>3 DEF RegisterMonitor, ClientInv, CallerInv
  <2>2. pc'[c] = "idle" /\ \A q \in Procs : pc'[q] = IF q = k THEN "watch" ELSE pc[q]
    BY <1>0, <1>3, <2>1 DEF RegisterMonitor, TypeOK
  <2>3. k \notin signalled
    BY <2>1 DEF ClientInv, MonitorInv
  <2>4. MonitorInv'
    <3> SUFFICES ASSUME NEW q \in Procs
                 PROVE  /\ pc'[q] \in Before \cup {"none", "unregister", "done"}
                        /\ pc'[q] \in Before => mtask' = q /\ info.of = q /\ active = q
                        /\ proc[q] = "unborn" => pc'[q] = "none"
                        /\ proc[q] = "alive" => pc'[q] = "watch" \/ (pc'[q] = "none" /\ active = q)
                        /\ q \in signalled => pc'[q] \notin {"none", "fail_read", "mark", "fail_pop"}
                        /\ q \in signalled /\ pc'[q] \in {"watch", "drain"} => info.manual
      BY <2>1 DEF MonitorInv
    <3>1. CASE q = k
      BY <2>1, <2>2, <2>3, <3>1 DEF Before
    <3>2. CASE q # k
      BY <1>n, <2>2, <3>2 DEF ClientInv, MonitorInv, Before
    <3> QED
      BY <3>1, <3>2
  <2>5. ActiveInv'
    BY <2>1, <2>2 DEF ActiveInv, Before
  <2>6. CallerInv'
    BY <1>0, <2>1, <2>2 DEF ClientInv, CallerInv
  <2> QED
    BY <2>4, <2>5, <2>6 DEF ClientInv
<1> QED
  BY <1>1, <1>2, <1>3

\* stop_stream up to the first critical section: the entry it finds has a monitor
\* that reads the mark, and without an entry no monitor is there to read it.
LEMMA StopClient ==
    ASSUME Sequential, TypeOK, ClientInv, NEW c \in Callers, StopSignal(c) \/ StopAbsent(c)
    PROVE  ClientInv'
<1>0. /\ c \in Tasks /\ c \notin Procs /\ \A d \in Callers : d = c
      /\ loc[c] \in Local /\ info \in Info
      /\ \A p \in Procs : p # None /\ p \in Tasks
      /\ pc[c] = "stop_lock" /\ ~lock
  BY ProcsFacts DEF Sequential, TypeOK, Procs, None, StopSignal, StopAbsent
<1>1. CASE StopSignal(c)
  <2>1. active \in Procs /\ pc[active] \in Before /\ info.of = active
    <3>1. active \in Procs
      BY <1>1 DEF StopSignal, TypeOK, Procs, None
    <3>2. pc[active] \in Before
      BY <1>0, <1>1 DEF StopSignal, ClientInv, ActiveInv
    <3> QED
      BY <3>1, <3>2 DEF ClientInv, MonitorInv
  <2>2. /\ info'.of = active /\ info'.manual
        /\ UNCHANGED <<proc, active, mtask>> /\ lock'
    BY <1>0, <1>1, <2>1 DEF StopSignal, Info
  <2>3. pc'[c] = "stop_wait" /\ \A q \in Procs : pc'[q] = pc[q]
    BY <1>0, <1>1 DEF StopSignal, Goto, TypeOK
  <2>4. loc'[c].child = active
    BY <1>0, <1>1 DEF StopSignal, TypeOK, Local
  <2>5. \A q \in Procs : q \in signalled' =>
          q \in signalled \/ (q = active /\ pc[q] = "watch")
    <3>1. proc[active] = "alive" => pc[active] = "watch"
      BY <2>1 DEF ClientInv, MonitorInv, Before
    <3> QED
      BY <1>1, <3>1 DEF StopSignal
  <2>6. MonitorInv'
    <3> SUFFICES ASSUME NEW q \in Procs
                 PROVE  /\ pc[q] \in Before \cup {"none", "unregister", "done"}
                        /\ pc[q] \in Before => mtask = q /\ info'.of = q /\ active = q
                        /\ proc[q] = "unborn" => pc[q] = "none"
                        /\ proc[q] = "alive" => pc[q] = "watch" \/ (pc[q] = "none" /\ active = q)
                        /\ q \in signalled' => pc[q] \notin {"none", "fail_read", "mark", "fail_pop"}
      BY <2>2, <2>3 DEF MonitorInv
    <3>1. pc[q] \in Before => active = q
      BY <1>0 DEF ClientInv, MonitorInv
    <3> QED
      BY <2>2, <2>5, <3>1 DEF ClientInv, MonitorInv
  <2>7. ActiveInv'
    BY <2>1, <2>2, <2>3 DEF ActiveInv
  <2>8. CallerInv'
    <3>1. \A d \in Callers : pc'[d] = "stop_wait"
      BY <1>0, <2>3
    <3> QED
      BY <1>0, <2>1, <2>2, <2>4, <3>1 DEF CallerInv
  <2> QED
    BY <2>6, <2>7, <2>8 DEF ClientInv
<1>2. CASE StopAbsent(c)
  <2>1. active = None /\ UNCHANGED <<proc, active, lock, mtask, signalled>>
    BY <1>2 DEF StopAbsent
  <2>2. \A q \in Procs : pc[q] \notin Before
    BY <1>0, <2>1, NoMonitorAhead
  <2>3. /\ pc'[c] = IF mtask = None THEN "stop_pop" ELSE "stop_join"
        /\ \A q \in Procs : pc'[q] = pc[q]
    BY <1>0, <1>2 DEF StopAbsent, JoinMonitor, Goto, TypeOK
  <2>4. loc'[c].child = mtask
    BY <1>0, <1>2 DEF StopAbsent, JoinMonitor, TypeOK, Local
  <2>5. mtask # None => mtask \in Procs
    BY DEF TypeOK, Procs, None
  <2>6. \A q \in Procs : proc[q] # "alive"
    BY <1>0, <2>1, <2>2 DEF ClientInv, MonitorInv, Before
  <2>7. MonitorInv'
    BY <2>1, <2>2, <2>3 DEF ClientInv, MonitorInv, Before
  <2>8. ActiveInv'
    BY <2>1 DEF ActiveInv
  <2>9. CallerInv'
    BY <1>0, <2>1, <2>3, <2>4, <2>5, <2>6 DEF ClientInv, CallerInv
  <2> QED
    BY <2>7, <2>8, <2>9 DEF ClientInv
<1> QED
  BY <1>1, <1>2

\* stop_stream from the exit of the process to the end of its monitor: the entry
\* goes first, and the monitor is awaited without the lock.
LEMMA ReapClient ==
    ASSUME Sequential, TypeOK, ClientInv, NEW c \in Callers,
           StopKill(c) \/ StopReap(c) \/ StopJoin(c)
    PROVE  ClientInv'
<1>0. /\ c \in Tasks /\ c \notin Procs /\ \A d \in Callers : d = c
      /\ loc[c] \in Local
      /\ \A p \in Procs : p # None /\ p \in Tasks
  BY ProcsFacts DEF Sequential, TypeOK, Procs, None
<1>1. CASE StopKill(c)
  <2>1. /\ active = loc[c].child /\ active # None
        /\ UNCHANGED <<active, info, lock, mtask, pc, loc, signalled>>
        /\ proc' = [proc EXCEPT ![active] = "failed"] /\ proc[active] = "alive"
    BY <1>1 DEF StopKill, ClientInv, CallerInv
  <2>2. \A q \in Procs : /\ proc'[q] = "alive" => proc[q] = "alive"
                         /\ proc'[q] = "unborn" => proc[q] = "unborn"
                         /\ proc[q] # "unborn" => proc'[q] # "unborn"
    BY <2>1 DEF TypeOK
  <2>3. MonitorInv'
    BY <2>1, <2>2 DEF ClientInv, MonitorInv
  <2>4. ActiveInv'
    BY <2>1 DEF ClientInv, ActiveInv
  <2>5. CallerInv'
    BY <2>1, <2>2 DEF ClientInv, CallerInv
  <2> QED
    BY <2>3, <2>4, <2>5 DEF ClientInv
<1>2. CASE StopReap(c)
  <2>1. /\ pc[c] = "stop_wait" /\ active = loc[c].child /\ active # None
        /\ active' = None /\ ~lock' /\ UNCHANGED <<proc, info, mtask, signalled>>
        /\ proc[active] # "alive" \/ active \in Unkillable
    BY <1>2 DEF StopReap, ClientInv, CallerInv
  <2>2. active \in Procs /\ pc[active] \in Before /\ mtask = active
    <3>1. active \in Procs
      BY <2>1 DEF TypeOK, Procs, None
    <3>2. pc[active] \in Before
      BY <1>0, <2>1 DEF ClientInv, ActiveInv
    <3> QED
      BY <3>1, <3>2 DEF ClientInv, MonitorInv
  <2>3. pc'[c] = "stop_join" /\ \A q \in Procs : pc'[q] = pc[q]
    BY <1>0, <1>2, <2>1, <2>2 DEF StopReap, JoinMonitor, Goto, TypeOK
  <2>4. loc'[c].child = active
    BY <1>0, <1>2, <2>2 DEF StopReap, JoinMonitor, TypeOK, Local
  <2>5. \A q \in Procs : pc[q] \in Before => q = active
    BY <2>2 DEF ClientInv, MonitorInv
  <2>6. MonitorInv'
    <3>1. \A q \in Procs : ~(pc[q] = "none" /\ active = q)
      BY <2>2 DEF Before
    <3> QED
      BY <2>1, <2>3, <2>4, <2>5, <3>1 DEF ClientInv, MonitorInv
  <2>7. ActiveInv'
    BY <2>1 DEF ActiveInv
  <2>8. CallerInv'
    BY <1>0, <2>1, <2>2, <2>3, <2>4 DEF CallerInv
  <2> QED
    BY <2>6, <2>7, <2>8 DEF ClientInv
<1>3. CASE StopJoin(c)
  <2>1. /\ pc[c] = "stop_join" /\ active = None /\ pc[loc[c].child] = "done"
        /\ UNCHANGED <<proc, active, info, lock, signalled>>
    BY <1>3 DEF StopJoin, ClientInv, CallerInv
  <2>2. pc'[c] = "stop_pop" /\ \A q \in Procs : pc'[q] = pc[q]
    BY <1>0, <1>3 DEF StopJoin, Goto, TypeOK
  <2>3. \A q \in Procs : pc[q] \notin Before
    <3> SUFFICES ASSUME NEW q \in Procs, pc[q] \in Before PROVE FALSE
      OBVIOUS
    <3>1. loc[c].child = q
      BY <1>0, <2>1 DEF ClientInv, MonitorInv
    <3> QED
      BY <2>1, <3>1 DEF Before
  <2>4. MonitorInv'
    BY <2>1, <2>2, <2>3 DEF ClientInv, MonitorInv
  <2>5. ActiveInv'
    BY <2>1 DEF ActiveInv
  <2>6. CallerInv'
    BY <1>0, <2>1, <2>2 DEF ClientInv, CallerInv
  <2> QED
    BY <2>4, <2>5, <2>6 DEF ClientInv
<1> QED
  BY <1>1, <1>2, <1>3

\* The last critical section of a stop finds nothing to pop; that of a monitor
\* pops its own entries.
LEMMA PopClient ==
    ASSUME Sequential, TypeOK, ClientInv, NEW t \in Tasks, PopUnderLock(t)
    PROVE  ClientInv'
<1>0. /\ \A p \in Procs : p # None /\ p \in Tasks
      /\ ~lock /\ active' = None /\ UNCHANGED <<proc, lock, mtask, loc, signalled>>
      /\ \A s \in Tasks : pc'[s] = IF s = t THEN "unregister" ELSE pc[s]
      /\ Callers \subseteq Tasks /\ Callers \cap Procs = {}
  BY ProcsFacts DEF TypeOK, Procs, None, PopUnderLock, Goto
<1>1. CASE t \in Callers
  <2>1. pc[t] = "stop_pop" /\ active = None /\ \A d \in Callers : d = t
    BY <1>1 DEF PopUnderLock, TypeOK, CallerPc, StartPc, StopPc, Sequential, ClientInv, CallerInv
  <2>2. \A q \in Procs : pc'[q] = pc[q] /\ pc[q] \notin Before
    BY <1>0, <1>1, <2>1, NoMonitorAhead
  <2>3. MonitorInv'
    BY <1>0, <2>1, <2>2 DEF ClientInv, MonitorInv, Before
  <2>4. ActiveInv'
    BY <1>0 DEF ActiveInv
  <2>5. CallerInv'
    <3>1. pc'[t] = "unregister"
      BY <1>0
    <3> QED
      BY <1>0, <2>1, <3>1 DEF ClientInv, CallerInv
  <2> QED
    BY <2>3, <2>4, <2>5 DEF ClientInv
<1>2. CASE t \in Procs
  <2>1. pc[t] \in {"clean_pop", "fail_pop"} /\ mtask = t
    BY <1>2 DEF PopUnderLock, TypeOK, MonitorPc, CleanPc, FailPc, StartPc, ClientInv,
       MonitorInv, Before
  <2>2. /\ \A c \in Callers : pc'[c] = pc[c] /\ pc[c] \notin {"persist", "register", "stop_wait"}
        /\ active # None => active = t
    <3>1. ASSUME NEW c \in Callers PROVE pc'[c] = pc[c] /\ pc[c] \notin {"persist", "register", "stop_wait"}
      <4>1. pc[c] \notin {"persist", "register"}
        BY <1>2, <2>1, NoMonitorAhead DEF Before
      <4>2. pc[c] # "stop_wait"
        BY <1>0 DEF ClientInv, CallerInv
      <4> QED
        BY <1>0, <1>2, <4>1, <4>2
    <3>2. active # None => active \in Procs /\ pc[active] \in Before
      BY <3>1 DEF TypeOK, Procs, None, ClientInv, ActiveInv
    <3>3. active # None => mtask = active
      BY <3>2 DEF ClientInv, MonitorInv
    <3> QED
      BY <2>1, <3>1, <3>3
  <2>3. \A q \in Procs : /\ pc'[q] = IF q = t THEN "unregister" ELSE pc[q]
                         /\ pc'[q] \notin Before
    BY <1>0, <2>1 DEF ClientInv, MonitorInv, Before
  <2>4. ASSUME NEW q \in Procs PROVE proc[q] # "alive" /\ (proc[q] = "unborn" => q # t)
    <3>1. pc[q] # "watch"
      BY <2>1, <2>3 DEF Before
    <3>2. ~(pc[q] = "none" /\ active = q)
      BY <1>0, <2>1, <2>2
    <3>3. proc[q] = "unborn" => pc[q] = "none"
      BY DEF ClientInv, MonitorInv
    <3> QED
      BY <2>1, <3>1, <3>2, <3>3 DEF ClientInv, MonitorInv
  <2>5. MonitorInv'
    BY <1>0, <2>3, <2>4 DEF ClientInv, MonitorInv, Before
  <2>6. ActiveInv'
    BY <1>0 DEF ActiveInv
  <2>7. CallerInv'
    BY <1>0, <2>2 DEF ClientInv, CallerInv
  <2> QED
    BY <2>5, <2>6, <2>7 DEF ClientInv
<1> QED
  BY <1>1, <1>2 DEF Tasks

\* A process that is not the one a stop waits for may die or be stopped for its
\* quota at any time; the mark then goes to its own info.
LEMMA ProcessClient ==
    ASSUME TypeOK, ClientInv, NEW p \in Procs, ProcExit(p) \/ QuotaStop(p)
    PROVE  ClientInv'
<1>0. p # None /\ info \in Info
  BY DEF Procs, None, TypeOK
<1>1. CASE ProcExit(p)
  <2>1. /\ UNCHANGED <<active, info, lock, mtask, pc, loc, signalled>>
        /\ \A q \in Procs : /\ proc'[q] = "alive" => proc[q] = "alive"
                            /\ proc'[q] = "unborn" => proc[q] = "unborn"
                            /\ proc[q] # "unborn" => proc'[q] # "unborn"
    BY <1>1 DEF ProcExit, TypeOK
  <2> QED
    BY <2>1 DEF ClientInv, MonitorInv, ActiveInv, CallerInv
<1>2. CASE QuotaStop(p)
  <2>1. /\ pc[p] \in {"watch", "drain"} /\ info.of = p /\ mtask = p
        /\ UNCHANGED <<proc, active, lock, mtask, pc, loc>>
    BY <1>2 DEF QuotaStop, ClientInv, MonitorInv, Before
  <2>2. info'.of = p /\ info'.manual
    BY <1>0, <1>2, <2>1 DEF QuotaStop, Info
  <2>3. \A q \in Procs : q \in signalled' => q \in signalled \/ q = p
    BY <1>2 DEF QuotaStop
  <2>4. MonitorInv'
    <3>1. p \in signalled' => pc[p] \notin {"none", "fail_read", "mark", "fail_pop"}
      BY <2>1
    <3> QED
      BY <2>1, <2>2, <2>3, <3>1 DEF ClientInv, MonitorInv
  <2>5. \A c \in Callers : pc[c] # "register"
    <3> SUFFICES ASSUME NEW c \in Callers, pc[c] = "register" PROVE FALSE
      OBVIOUS
    <3>1. info.of = active /\ pc[active] = "none"
      BY DEF ClientInv, CallerInv
    <3> QED
      BY <2>1, <3>1
  <2>6. ActiveInv' /\ CallerInv'
    BY <2>1, <2>5 DEF ClientInv, ActiveInv, CallerInv
  <2> QED
    BY <2>4, <2>6 DEF ClientInv
<1> QED
  BY <1>1, <1>2

\* A monitor reads the mark of a managed stop, and a failure is final at the
\* first attempt when the ceiling is zero.
LEMMA MonitorClient ==
    ASSUME Sequential, TypeOK, ClientInv, NEW p \in Procs, MonitorStep(p)
    PROVE  ClientInv'
<1>0. /\ p # None /\ p \in Tasks /\ p \notin Callers
      /\ Callers \subseteq Tasks /\ Callers \cap Procs = {}
      /\ loc[p] \in Local /\ info \in Info
      /\ pc[p] \in Before \cup {"none", "unregister", "done"}
  BY ProcsFacts DEF Procs, None, TypeOK, ClientInv, MonitorInv
<1>1. pc[p] \in Before /\ pc[p] # "watch" => proc[p] # "alive"
  BY DEF ClientInv, MonitorInv, Before
<1>3. CASE MonitorSeesExit(p)
  <2>1. Goto(p, "drain") /\ pc[p] = "watch" /\ proc[p] # "alive"
    BY <1>3 DEF MonitorSeesExit
  <2>2. UNCHANGED <<proc, active, info, lock, mtask, loc, signalled>>
    BY <1>3 DEF MonitorSeesExit
  <2> QED
    BY <2>1, <2>2, QuietMonitor DEF Before
<1>4. CASE MonitorClassify(p)
  <2>1. PICK label \in {"clean_reset", "fail_read"} :
             Goto(p, label) /\ (label = "fail_read" => ~info.manual)
    BY <1>4 DEF MonitorClassify
  <2>2. pc[p] = "drain" /\ UNCHANGED <<proc, active, info, lock, mtask, signalled>>
    BY <1>4 DEF MonitorClassify
  <2>3. p \in signalled => label # "fail_read"
    BY <2>1, <2>2 DEF ClientInv, MonitorInv
  <2>4. \A c \in Callers : loc'[c] = loc[c]
    BY <1>0, <1>4 DEF MonitorClassify, TypeOK
  <2> QED
    BY <1>1, <2>1, <2>2, <2>3, <2>4, QuietMonitor DEF Before
<1>5. CASE CleanReset(p) \/ CleanFinal(p)
  <2>1. PICK label \in {"clean_final", "clean_pop"} : Goto(p, label)
    BY <1>5 DEF CleanReset, CleanFinal
  <2>2. /\ pc[p] \in {"clean_reset", "clean_final"}
        /\ UNCHANGED <<proc, active, info, lock, mtask, loc, signalled>>
    BY <1>5 DEF CleanReset, CleanFinal
  <2> QED
    BY <1>1, <2>1, <2>2, QuietMonitor DEF Before
<1>6. CASE FailRead(p)
  <2>1. MaxOf(loc[p].mem, persisted) \in Nat
    BY <1>0, MaxOfBound DEF Local, TypeOK
  <2>2. Goto(p, "mark") /\ pc[p] = "fail_read"
    BY <1>6, <2>1 DEF FailRead, Sequential
  <2>3. info'.of = info.of /\ info'.manual = info.manual
    BY <1>0, <1>6 DEF FailRead, SetAttempts, Info
  <2>4. p \notin signalled /\ UNCHANGED <<proc, active, lock, mtask, loc, signalled>>
    BY <1>6 DEF FailRead, ClientInv, MonitorInv
  <2> QED
    BY <1>1, <2>2, <2>3, <2>4, QuietMonitor DEF Before
<1>7. CASE MarkFailed(p)
  <2>1. Goto(p, "fail_pop") /\ pc[p] = "mark"
    BY <1>7 DEF MarkFailed
  <2>2. p \notin signalled /\ UNCHANGED <<proc, active, info, lock, mtask, loc, signalled>>
    BY <1>7 DEF MarkFailed, ClientInv, MonitorInv
  <2> QED
    BY <1>1, <2>1, <2>2, QuietMonitor DEF Before
<1>8. CASE FailAdvance(p) \/ Relaunch(p) \/ RelaunchImpossible(p)
  BY <1>0, <1>8 DEF FailAdvance, Relaunch, RelaunchImpossible, Before
<1>9. CASE MonitorReturn(p)
  <2>1. /\ pc[p] = "unregister" /\ mtask' = IF mtask = p THEN None ELSE mtask
        /\ UNCHANGED <<proc, active, info, lock, signalled>>
    BY <1>9 DEF MonitorReturn
  <2>2. /\ \A q \in Procs : pc'[q] = IF q = p THEN "done" ELSE pc[q]
        /\ \A c \in Callers : pc'[c] = pc[c] /\ loc'[c] = loc[c]
    BY <1>0, <1>9 DEF MonitorReturn, Goto, Forget, TypeOK, Tasks
  <2>3. MonitorInv'
    BY <2>1, <2>2 DEF ClientInv, MonitorInv, Before
  <2>4. ActiveInv'
    <3>1. active # None => active \in Procs
      BY DEF TypeOK, Procs, None
    <3> QED
      BY <2>1, <2>2, <3>1 DEF ClientInv, ActiveInv, Before
  <2>5. CallerInv'
    <3>1. \A c \in Callers : pc[c] \in {"persist", "register"} => active # p
      BY <2>1 DEF ClientInv, CallerInv
    <3> QED
      BY <2>1, <2>2, <3>1 DEF ClientInv, CallerInv
  <2> QED
    BY <2>3, <2>4, <2>5 DEF ClientInv
<1> QED
  BY <1>3, <1>4, <1>5, <1>6, <1>7, <1>8, <1>9 DEF MonitorStep

\* Every step under a sequential client keeps it.
LEMMA NextClient ==
    ASSUME Sequential
    PROVE  TypeOK /\ ClientInv /\ [Next]_vars => ClientInv'
<1> SUFFICES ASSUME TypeOK, ClientInv, [Next]_vars PROVE ClientInv'
  OBVIOUS
<1>1. ASSUME NEW c \in Callers, CallerStep(c) PROVE ClientInv'
  <2>1. ASSUME NEW restart \in BOOLEAN, StartCall(c, restart) PROVE ClientInv'
    BY <2>1, QuietCaller DEF StartCall, EnterStart
  <2>2. CASE StopCall(c) \/ RestartCall(c)
    BY <2>2, QuietCaller DEF StopCall, RestartCall
  <2>3. CASE StopReturn(c) \/ RestartReturn(c)
    <3>1. PICK label \in {"idle", "spawn"} : Goto(c, label) /\ (label = "spawn" => active = None)
      BY <2>3 DEF StopReturn, RestartReturn
    <3> QED
      BY <2>3, <3>1, QuietCaller DEF StopReturn, RestartReturn
  <2> QED
    BY <1>1, <2>1, <2>2, <2>3, StopClient, ReapClient DEF CallerStep
<1>2. ASSUME NEW t \in Tasks, SharedStep(t) PROVE ClientInv'
  <2>1. CASE PopUnderLock(t)
    BY <2>1, PopClient
  <2>2. CASE ~PopUnderLock(t) /\ t \in Callers
    <3>1. CASE SpawnFails(t)
      <4>1. Goto(t, "idle") /\ pc[t] = "spawn"
        BY <2>2, <3>1 DEF SpawnFails
      <4> QED
        BY <2>2, <3>1, <4>1, QuietCaller DEF SpawnFails
    <3>2. CASE ~SpawnFails(t)
      BY <1>2, <2>2, <3>2, StartClient DEF SharedStep
    <3> QED
      BY <3>1, <3>2
  <2>3. CASE ~PopUnderLock(t) /\ t \in Procs
    <3>1. pc[t] \notin {"spawn", "persist", "register"}
      BY <2>3 DEF ClientInv, MonitorInv, Before
    <3> QED
      BY <1>2, <2>3, <3>1 DEF SharedStep, SpawnFails, SpawnSucceeds, PersistStart, RegisterMonitor
  <2> QED
    BY <2>1, <2>2, <2>3 DEF Tasks
<1>3. CASE CleanupDead \/ CleanupStaleInfo
  BY <1>3 DEF Sequential, CleanupDead, CleanupStaleInfo
<1>4. CASE UNCHANGED vars
  BY <1>4 DEF vars, ClientInv, MonitorInv, ActiveInv, CallerInv
<1> QED
  BY <1>1, <1>2, <1>3, <1>4, MonitorClient, ProcessClient DEF Next

\* A sequential client keeps monitors, entries and calls in step.
THEOREM ClientInvariant == ASSUME Sequential PROVE Spec => []ClientInv
BY InitClient, NextClient, TypeCorrect, PTL DEF Spec

\* Only a process that survives SIGKILL can live on without an entry, and a
\* stop_stream still waits for it then.
LEMMA OrphanIsUnkillable ==
    ASSUME ClientInv, NEW p \in Procs, proc[p] = "alive", active # p
    PROVE  p \in Unkillable /\ \E c \in Callers : pc[c] = "stop_join" /\ loc[c].child = p
<1>1. pc[p] \in Before
  BY DEF ClientInv, MonitorInv, Before
<1>2. PICK c \in Callers : pc[c] = "stop_join" /\ loc[c].child = p
  BY <1>1 DEF ClientInv, MonitorInv
<1> QED
  BY <1>2 DEF ClientInv, CallerInv

\* One call after another never loses track of a child: what runs is what
\* active_streams leads to.
THEOREM NoOrphanWhenSequential ==
    ASSUME Sequential, Unkillable = {}
    PROVE  Spec => []NoOrphan
<1>1. ClientInv => NoOrphan
  BY OrphanIsUnkillable DEF NoOrphan
<1> QED
  BY <1>1, ClientInvariant, PTL

\* A process ended by a stop or by the daily limit is never handled as a
\* failure, not even one that outlives SIGKILL.
THEOREM ManagedStopsWhenSequential ==
    ASSUME Sequential
    PROVE  Spec => []ManagedStopIsNoFailure
<1>1. ClientInv => ManagedStopIsNoFailure
  BY DEF ClientInv, MonitorInv, Before, FailPc, ManagedStopIsNoFailure
<1> QED
  BY <1>1, ClientInvariant, PTL

\* When stop_stream returns, no child runs: a stop of a process that outlives
\* SIGKILL does not return before the process is gone.
THEOREM StopsEndFFmpegWhenSequential ==
    ASSUME Sequential
    PROVE  Spec => StopEndsFFmpeg
<1>1. ASSUME ClientInv, NEW c \in Callers, StopReturn(c), NEW p \in Procs
      PROVE  proc[p] # "alive"
  <2>1. pc[c] = "unregister" /\ active = None
    BY <1>1 DEF StopReturn, ClientInv, CallerInv
  <2>2. p # None /\ \A d \in Callers : d = c
    BY DEF Procs, None, Sequential
  <2> QED
    BY <1>1, <2>1, <2>2, OrphanIsUnkillable
<1>2. ClientInv /\ [Next]_vars =>
        [\A c \in Callers : StopReturn(c) => \A p \in Procs : proc[p] # "alive"]_vars
  BY <1>1
<1> QED
  BY <1>2, ClientInvariant, PTL DEF Spec, StopEndsFFmpeg

=============================================================================

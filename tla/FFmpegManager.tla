--------------------------- MODULE FFmpegManager ---------------------------
(***************************************************************************)
(* The in-process supervisor of one stream's FFmpeg children:              *)
(* FFmpegStreamManager of backend/app/streaming/ffmpeg_manager.py.         *)
(*                                                                         *)
(* The manager runs on one asyncio event loop.  A task keeps the loop from *)
(* one `await` to the next, so an action below is the code between two     *)
(* awaits, and pc[t] names the await task t is suspended at.  Tasks are    *)
(* the callers of the public methods (API requests, a signal handler) and  *)
(* one monitor task per FFmpeg process; the monitor of process p is named  *)
(* p itself.                                                               *)
(*                                                                         *)
(* One stream is modelled: the dictionaries active_streams, stream_info    *)
(* and _monitor_tasks become the variables active, info and mtask.  Other  *)
(* streams share only _cleanup_lock, and waiting longer for a lock is a    *)
(* delay that the interleaving of actions already allows.                  *)
(*                                                                         *)
(* Database statements are assumed to succeed.                             *)
(***************************************************************************)
EXTENDS Naturals

CONSTANTS
    Callers,      \* tasks that call start_stream, stop_stream, restart_stream
    MaxProcs,     \* bound: FFmpeg processes spawned in a behaviour
    MaxRestarts,  \* settings.ffmpeg_auto_restart_attempts
    CleanupLoop,  \* does cleanup_dead_streams run here?  (backend yes, CLI runner no)
    Unkillable    \* processes that outlive SIGKILL (uninterruptible sleep)

Procs == 1..MaxProcs
Tasks == Callers \cup Procs

ASSUME ManagerAssumption ==
    /\ MaxProcs \in Nat \ {0}
    /\ MaxRestarts \in Nat
    /\ CleanupLoop \in BOOLEAN
    /\ Unkillable \subseteq Procs
    /\ Callers \cap Nat = {}

None == 0   \* "no process" and "no task"

VARIABLES
    proc,       \* the operating system's view of each FFmpeg process
    active,     \* active_streams[stream_id]
    info,       \* stream_info[stream_id]; info.of is the process it describes
    lock,       \* _cleanup_lock held across an await (only stop_stream does)
    mtask,      \* _monitor_tasks[stream_id]
    pc,         \* the await each task is suspended at
    loc,        \* the local variables of each task
    persisted,  \* the column streams.runtime_restart_attempts
    outcome,    \* what the monitor of each process wrote to streams.status
    granted,    \* history: auto restarts granted since the counter was reset
    signalled   \* history: processes a managed stop sent SIGINT to

vars == <<proc, active, info, lock, mtask, pc, loc, persisted, outcome,
          granted, signalled>>

ProcState == {"unborn", "alive", "zero", "failed"}
Info == [of : 0..MaxProcs, manual : BOOLEAN, attempts : Nat]
NoInfo == [of |-> None, manual |-> FALSE, attempts |-> 0]

\* child: the process a start spawned, the process a stop waits for, then the
\* monitor it joins.  ref: the info dictionary a failure handler holds on to.
Local == [child : 0..MaxProcs, ref : 0..MaxProcs, mem : Nat, restart : BOOLEAN]
NoLocal == [child |-> None, ref |-> None, mem |-> 0, restart |-> FALSE]

StartPc == {"spawn", "persist", "register"}
StopPc == {"stop_lock", "stop_wait", "stop_join", "stop_pop", "unregister"}
CleanPc == {"clean_reset", "clean_final", "clean_pop"}
FailPc == {"fail_read", "fail_advance", "backoff", "mark", "fail_pop"}
CallerPc == {"idle"} \cup StartPc \cup StopPc
MonitorPc == {"none", "watch", "drain", "unregister", "done"}
                 \cup CleanPc \cup FailPc \cup StartPc

TypeOK ==
    /\ proc \in [Procs -> ProcState]
    /\ active \in 0..MaxProcs
    /\ info \in Info
    /\ lock \in BOOLEAN
    /\ mtask \in 0..MaxProcs
    /\ pc \in [Tasks -> CallerPc \cup MonitorPc]
    /\ \A c \in Callers : pc[c] \in CallerPc
    /\ \A p \in Procs : pc[p] \in MonitorPc
    /\ loc \in [Tasks -> Local]
    /\ persisted \in Nat
    /\ outcome \in [Procs -> {"none", "stopped", "error"}]
    /\ granted \in Nat
    /\ signalled \subseteq Procs

Init ==
    /\ proc = [p \in Procs |-> "unborn"]
    /\ active = None
    /\ info = NoInfo
    /\ lock = FALSE
    /\ mtask = None
    /\ pc = [t \in Tasks |-> IF t \in Callers THEN "idle" ELSE "none"]
    /\ loc = [t \in Tasks |-> NoLocal]
    /\ persisted = 0
    /\ outcome = [p \in Procs |-> "none"]
    /\ granted = 0
    /\ signalled = {}

MaxOf(m, n) == IF m > n THEN m ELSE n
Goto(t, label) == pc' = [pc EXCEPT ![t] = label]
Forget(t) == loc' = [loc EXCEPT ![t] = NoLocal]   \* locals die with their function

-----------------------------------------------------------------------------
(* start_stream, run by a caller or by a monitor that restarts the stream. *)

\* Mutant: the check of active_streams is dropped.
EnterStartUnchecked(t, restart) ==
    /\ Goto(t, "spawn")
    /\ loc' = [loc EXCEPT ![t].restart = restart]

\* Up to the await of create_subprocess_exec.  A stream found in
\* active_streams is refused, which changes nothing.
EnterStart(t, restart) ==
    /\ active = None
    /\ Goto(t, "spawn")
    /\ loc' = [loc EXCEPT ![t].restart = restart]

StartCall(c, restart) ==
    /\ pc[c] = "idle"
    /\ EnterStart(c, restart)
    /\ UNCHANGED <<proc, active, info, lock, mtask, persisted, outcome,
                   granted, signalled>>

\* Mutant: an auto restart that fails does not escalate.
SpawnFailsQuietly(t) ==
    /\ pc[t] = "spawn"
    /\ Goto(t, IF t \in Callers THEN "idle" ELSE "fail_pop")
    /\ Forget(t)
    /\ UNCHANGED <<proc, active, info, lock, mtask, persisted, outcome,
                   granted, signalled>>

\* create_subprocess_exec raises: start_stream returns False, and an auto
\* restart escalates to _mark_stream_failed.
SpawnFails(t) ==
    /\ pc[t] = "spawn"
    /\ Goto(t, IF t \in Callers THEN "idle" ELSE "mark")
    /\ Forget(t)
    /\ UNCHANGED <<proc, active, info, lock, mtask, persisted, outcome,
                   granted, signalled>>

\* The child exists; it is entered in active_streams before the database is
\* asked for (restart) or told to reset (start) the restart counter.
SpawnSucceeds(t, p) ==
    /\ pc[t] = "spawn"
    /\ proc[p] = "unborn"
    /\ \A q \in 1..(p - 1) : proc[q] # "unborn"
    /\ proc' = [proc EXCEPT ![p] = "alive"]
    /\ active' = p
    /\ loc' = [loc EXCEPT ![t].child = p,
                          ![t].mem = IF loc[t].restart THEN info.attempts ELSE 0]
    /\ Goto(t, "persist")
    /\ UNCHANGED <<info, lock, mtask, persisted, outcome, granted, signalled>>

\* _load_persisted_restart_attempts or _reset_persisted_restart_state, then
\* the new stream_info entry.
PersistStart(t) ==
    /\ pc[t] = "persist"
    /\ IF loc[t].restart
       THEN /\ info' = [of |-> loc[t].child, manual |-> FALSE,
                        attempts |-> MaxOf(loc[t].mem, persisted)]
            /\ UNCHANGED <<persisted, granted>>
       ELSE /\ info' = [of |-> loc[t].child, manual |-> FALSE, attempts |-> 0]
            /\ persisted' = 0
            /\ granted' = 0
    /\ Goto(t, "register")
    /\ UNCHANGED <<proc, active, lock, mtask, loc, outcome, signalled>>

\* After hot_swap_manager.register_stream the monitor task is created and
\* tracked; an auto restart ends the monitor of the process that failed.
RegisterMonitor(t) ==
    /\ pc[t] = "register"
    /\ mtask' = loc[t].child
    /\ pc' = [pc EXCEPT ![loc[t].child] = "watch",
                        ![t] = IF t \in Callers THEN "idle" ELSE "done"]
    /\ Forget(t)
    /\ UNCHANGED <<proc, active, info, lock, persisted, outcome, granted,
                   signalled>>

-----------------------------------------------------------------------------
(* stop_stream and restart_stream. *)

StopCall(c) ==
    /\ pc[c] = "idle"
    /\ Goto(c, "stop_lock")
    /\ loc' = [loc EXCEPT ![c].restart = FALSE]
    /\ UNCHANGED <<proc, active, info, lock, mtask, persisted, outcome,
                   granted, signalled>>

\* restart_stream stops a stream that is in active_streams, then starts it.
RestartCall(c) ==
    /\ pc[c] = "idle"
    /\ active # None
    /\ Goto(c, "stop_lock")
    /\ loc' = [loc EXCEPT ![c].restart = TRUE]
    /\ UNCHANGED <<proc, active, info, lock, mtask, persisted, outcome,
                   granted, signalled>>

\* _await_monitor_task looks the monitor up: with none tracked it returns.
JoinMonitor(c) ==
    /\ loc' = [loc EXCEPT ![c].child = mtask]
    /\ Goto(c, IF mtask = None THEN "stop_pop" ELSE "stop_join")

\* Mutant: the info entry is not marked as stopped by hand.
StopSignalUnmarked(c) ==
    /\ pc[c] = "stop_lock"
    /\ ~lock
    /\ active # None
    /\ signalled' = IF proc[active] = "alive" THEN signalled \cup {active} ELSE signalled
    /\ lock' = TRUE
    /\ loc' = [loc EXCEPT ![c].child = active]
    /\ Goto(c, "stop_wait")
    /\ UNCHANGED <<proc, active, info, mtask, persisted, outcome, granted>>

\* The lock is taken for an entry: mark it stopped by hand and send SIGINT (to
\* a process that may be dead already), then wait for the exit, lock in hand.
StopSignal(c) ==
    /\ pc[c] = "stop_lock"
    /\ ~lock
    /\ active # None
    /\ info' = IF info.of = None THEN info ELSE [info EXCEPT !.manual = TRUE]
    /\ signalled' = IF proc[active] = "alive" THEN signalled \cup {active} ELSE signalled
    /\ lock' = TRUE
    /\ loc' = [loc EXCEPT ![c].child = active]
    /\ Goto(c, "stop_wait")
    /\ UNCHANGED <<proc, active, mtask, persisted, outcome, granted>>

\* The lock is taken and there is no entry: drop the orphaned info, and go on
\* to join the monitor, if one is tracked.
StopAbsent(c) ==
    /\ pc[c] = "stop_lock"
    /\ ~lock
    /\ active = None
    /\ info' = NoInfo
    /\ JoinMonitor(c)
    /\ UNCHANGED <<proc, active, lock, mtask, persisted, outcome, granted,
                   signalled>>

\* wait_for timed out: SIGKILL.
StopKill(c) ==
    /\ pc[c] = "stop_wait"
    /\ proc[loc[c].child] = "alive"
    /\ loc[c].child \notin Unkillable
    /\ proc' = [proc EXCEPT ![loc[c].child] = "failed"]
    /\ UNCHANGED <<active, info, lock, mtask, pc, loc, persisted, outcome,
                   granted, signalled>>

\* Mutants: the entry is deleted right after the SIGINT; the monitor is joined
\* inside the critical section.
StopReapUnawaited(c) ==
    /\ pc[c] = "stop_wait"
    /\ active' = None
    /\ lock' = FALSE
    /\ JoinMonitor(c)
    /\ UNCHANGED <<proc, info, mtask, persisted, outcome, granted, signalled>>

StopReapLocked(c) ==
    /\ pc[c] = "stop_wait"
    /\ proc[loc[c].child] # "alive" \/ loc[c].child \in Unkillable
    /\ active' = None
    /\ JoinMonitor(c)
    /\ UNCHANGED <<proc, info, lock, mtask, persisted, outcome, granted,
                   signalled>>

\* The exit was seen, or was not seen within force_timeout after SIGKILL:
\* delete the entry, release the lock, look up the monitor to join.
StopReap(c) ==
    /\ pc[c] = "stop_wait"
    /\ proc[loc[c].child] # "alive" \/ loc[c].child \in Unkillable
    /\ active' = None
    /\ lock' = FALSE
    /\ JoinMonitor(c)
    /\ UNCHANGED <<proc, info, mtask, persisted, outcome, granted, signalled>>

\* shield(task) returns when that monitor ends, and the tracking entry is
\* popped, whichever task it names by now.
StopJoin(c) ==
    /\ pc[c] = "stop_join"
    /\ pc[loc[c].child] = "done"
    /\ mtask' = None
    /\ Goto(c, "stop_pop")
    /\ loc' = [loc EXCEPT ![c].child = None]
    /\ UNCHANGED <<proc, active, info, lock, persisted, outcome, granted,
                   signalled>>

\* The second critical section of a stop, and the last one of a monitor, pop
\* both entries.
PopUnderLock(t) ==
    /\ pc[t] \in {"stop_pop", "clean_pop", "fail_pop"}
    /\ ~lock
    /\ active' = None
    /\ info' = NoInfo
    /\ Goto(t, "unregister")
    /\ UNCHANGED <<proc, lock, mtask, loc, persisted, outcome, granted,
                   signalled>>

\* hot_swap_manager.unregister_stream returned: a stop is over.
StopReturn(c) ==
    /\ pc[c] = "unregister"
    /\ ~loc[c].restart
    /\ Goto(c, "idle")
    /\ Forget(c)
    /\ UNCHANGED <<proc, active, info, lock, mtask, persisted, outcome,
                   granted, signalled>>

\* restart_stream goes on into start_stream, which refuses if an entry came
\* back meanwhile.
RestartReturn(c) ==
    /\ pc[c] = "unregister"
    /\ loc[c].restart
    /\ Goto(c, IF active = None THEN "spawn" ELSE "idle")
    /\ loc' = [loc EXCEPT ![c] = [NoLocal EXCEPT !.restart = (active = None)]]
    /\ UNCHANGED <<proc, active, info, lock, mtask, persisted, outcome,
                   granted, signalled>>

-----------------------------------------------------------------------------
(* FFmpeg itself, and _enforce_runtime_limit. *)

ProcExit(p) ==
    /\ proc[p] = "alive"
    /\ \E how \in {"zero", "failed"} : proc' = [proc EXCEPT ![p] = how]
    /\ UNCHANGED <<active, info, lock, mtask, pc, loc, persisted, outcome,
                   granted, signalled>>

\* The daily limit is used up: the current info entry is marked as stopped by
\* hand and the process, if it still runs, gets SIGINT; no lock is taken.
QuotaStop(p) ==
    /\ pc[p] \in {"watch", "drain"}
    /\ p \notin signalled
    /\ info' = IF info.of = None THEN info ELSE [info EXCEPT !.manual = TRUE]
    /\ signalled' = IF proc[p] = "alive" THEN signalled \cup {p} ELSE signalled
    /\ UNCHANGED <<proc, active, lock, mtask, pc, loc, persisted, outcome,
                   granted>>

-----------------------------------------------------------------------------
(* _monitor_process and _handle_stream_failure. *)

MonitorSeesExit(p) ==
    /\ pc[p] = "watch"
    /\ proc[p] \in {"zero", "failed"}
    /\ Goto(p, "drain")
    /\ UNCHANGED <<proc, active, info, lock, mtask, loc, persisted, outcome,
                   granted, signalled>>

\* The log and quota tasks are over.  Only now is the stream_info entry read,
\* to tell a clean exit or a managed stop from a failure.
MonitorClassify(p) ==
    /\ pc[p] = "drain"
    /\ loc' = [loc EXCEPT ![p].mem = info.attempts, ![p].ref = info.of]
    /\ Goto(p, IF proc[p] = "zero" \/ info.manual THEN "clean_reset" ELSE "fail_read")
    /\ UNCHANGED <<proc, active, info, lock, mtask, persisted, outcome,
                   granted, signalled>>

\* Mutant: a clean exit hands one attempt back instead of resetting.
CleanDecrement(p) ==
    /\ pc[p] = "clean_reset"
    /\ persisted' = persisted - 1
    /\ granted' = 0
    /\ Goto(p, "clean_final")
    /\ UNCHANGED <<proc, active, info, lock, mtask, loc, outcome, signalled>>

CleanReset(p) ==
    /\ pc[p] = "clean_reset"
    /\ persisted' = 0
    /\ granted' = 0
    /\ Goto(p, "clean_final")
    /\ UNCHANGED <<proc, active, info, lock, mtask, loc, outcome, signalled>>

CleanFinal(p) ==
    /\ pc[p] = "clean_final"
    /\ outcome' = [outcome EXCEPT ![p] = "stopped"]
    /\ Goto(p, "clean_pop")
    /\ UNCHANGED <<proc, active, info, lock, mtask, loc, persisted, granted,
                   signalled>>

\* An attempts field written through the handler's reference shows in
\* stream_info only while that entry is still the same dictionary.
SetAttempts(p, n) ==
    info' = IF loc[p].ref # None /\ info.of = loc[p].ref
            THEN [info EXCEPT !.attempts = n] ELSE info

\* The speculative read that decides will_restart, before the lock.
FailRead(p) ==
    /\ pc[p] = "fail_read"
    /\ LET speculative == MaxOf(loc[p].mem, persisted)
       IN  /\ SetAttempts(p, speculative)
           /\ Goto(p, IF speculative < MaxRestarts THEN "fail_advance" ELSE "mark")
    /\ UNCHANGED <<proc, active, lock, mtask, loc, persisted, outcome, granted,
                   signalled>>

\* Mutant: the in-memory counter alone is advanced.
NewAttemptsInMemory(p) == loc[p].mem + 1

\* The increment of _advance_persisted_restart_state.
NewAttempts(p) == MaxOf(loc[p].mem, persisted) + 1

\* _advance_persisted_restart_state, one transaction under the advisory lock,
\* and the second look at the ceiling.
FailAdvance(p) ==
    /\ pc[p] = "fail_advance"
    /\ persisted' = NewAttempts(p)
    /\ IF NewAttempts(p) > MaxRestarts
       THEN /\ Goto(p, "mark")
            /\ UNCHANGED <<info, granted>>
       ELSE /\ Goto(p, "backoff")
            /\ SetAttempts(p, NewAttempts(p))
            /\ granted' = granted + 1
    /\ UNCHANGED <<proc, active, lock, mtask, loc, outcome, signalled>>

\* The backoff is over: pop the dead process and, with the handler's info and
\* its playlist files at hand, run into start_stream(restart=True).
Relaunch(p) ==
    /\ pc[p] = "backoff"
    /\ ~lock
    /\ loc[p].ref # None
    /\ active' = None
    /\ Goto(p, "spawn")
    /\ loc' = [loc EXCEPT ![p].restart = TRUE]
    /\ UNCHANGED <<proc, info, lock, mtask, persisted, outcome, granted,
                   signalled>>

\* The playlist artifacts or the restart metadata are missing.
RelaunchImpossible(p) ==
    /\ pc[p] = "backoff"
    /\ ~lock
    /\ active' = None
    /\ Goto(p, "mark")
    /\ UNCHANGED <<proc, info, lock, mtask, loc, persisted, outcome, granted,
                   signalled>>

MarkFailed(p) ==
    /\ pc[p] = "mark"
    /\ outcome' = [outcome EXCEPT ![p] = "error"]
    /\ Goto(p, "fail_pop")
    /\ UNCHANGED <<proc, active, info, lock, mtask, loc, persisted, granted,
                   signalled>>

\* The monitor task is over: its done callback stops tracking it, unless a
\* newer task has taken its place in _monitor_tasks.
MonitorReturn(p) ==
    /\ pc[p] = "unregister"
    /\ Goto(p, "done")
    /\ mtask' = IF mtask = p THEN None ELSE mtask
    /\ Forget(p)
    /\ UNCHANGED <<proc, active, info, lock, persisted, outcome, granted,
                   signalled>>

-----------------------------------------------------------------------------
(* cleanup_dead_streams, every minute in the backend process. *)

\* The entry of a process with a return code goes, together with its info.
CleanupDead ==
    /\ CleanupLoop
    /\ ~lock
    /\ active # None
    /\ proc[active] \in {"zero", "failed"}
    /\ active' = None
    /\ info' = NoInfo
    /\ UNCHANGED <<proc, lock, mtask, pc, loc, persisted, outcome, granted,
                   signalled>>

\* An info entry whose stream is not active goes once its last activity is an
\* hour old.
CleanupStaleInfo ==
    /\ CleanupLoop
    /\ ~lock
    /\ active = None
    /\ info.of # None
    /\ info' = NoInfo
    /\ UNCHANGED <<proc, active, lock, mtask, pc, loc, persisted, outcome,
                   granted, signalled>>

-----------------------------------------------------------------------------
(* The most general client: a caller that is idle calls any method. *)

CallerStep(c) ==
    \/ \E restart \in BOOLEAN : StartCall(c, restart)
    \/ StopCall(c)
    \/ RestartCall(c)
    \/ StopSignal(c)
    \/ StopAbsent(c)
    \/ StopKill(c)
    \/ StopReap(c)
    \/ StopJoin(c)
    \/ StopReturn(c)
    \/ RestartReturn(c)

MonitorStep(p) ==
    \/ MonitorSeesExit(p)
    \/ MonitorClassify(p)
    \/ CleanReset(p)
    \/ CleanFinal(p)
    \/ FailRead(p)
    \/ FailAdvance(p)
    \/ Relaunch(p)
    \/ RelaunchImpossible(p)
    \/ MarkFailed(p)
    \/ MonitorReturn(p)

SharedStep(t) ==
    \/ SpawnFails(t)
    \/ \E p \in Procs : SpawnSucceeds(t, p)
    \/ PersistStart(t)
    \/ RegisterMonitor(t)
    \/ PopUnderLock(t)

Next ==
    \/ \E c \in Callers : CallerStep(c)
    \/ \E p \in Procs : MonitorStep(p) \/ ProcExit(p) \/ QuotaStop(p)
    \/ \E t \in Tasks : SharedStep(t)
    \/ CleanupDead
    \/ CleanupStaleInfo

Spec == Init /\ [][Next]_vars

\* The steps of a task that need _cleanup_lock to be free, and the others.
LockStep(t) ==
    \/ PopUnderLock(t)
    \/ t \in Callers /\ (StopSignal(t) \/ StopAbsent(t))
    \/ t \in Procs /\ (Relaunch(t) \/ RelaunchImpossible(t))

FreeStep(t) ==
    \/ SpawnFails(t)
    \/ \E p \in Procs : SpawnSucceeds(t, p)
    \/ PersistStart(t)
    \/ RegisterMonitor(t)
    \/ /\ t \in Callers
       /\ \/ StopKill(t) \/ StopReap(t) \/ StopJoin(t)
          \/ StopReturn(t) \/ RestartReturn(t)
    \/ /\ t \in Procs
       /\ \/ MonitorSeesExit(t) \/ MonitorClassify(t)
          \/ CleanReset(t) \/ CleanFinal(t)
          \/ FailRead(t) \/ FailAdvance(t) \/ MarkFailed(t)
          \/ MonitorReturn(t)

\* A task that can go on is resumed by the event loop; _cleanup_lock is an
\* asyncio.Lock, whose waiters are served in order.  Nothing makes a client
\* call a method, or FFmpeg exit by itself.
Fairness == \A t \in Tasks : WF_vars(FreeStep(t)) /\ SF_vars(LockStep(t))

FairSpec == Spec /\ Fairness

-----------------------------------------------------------------------------
(* Properties. *)

\* Between two resets of the restart counter no more than MaxRestarts auto
\* restarts are granted, although cleanup_dead_streams prunes the in-memory
\* counter and several failure handlers of the stream run concurrently
\* (_handle_stream_failure, _advance_persisted_restart_state).
RestartBudget == granted <= MaxRestarts

\* No FFmpeg child runs that active_streams does not lead to: is_running,
\* stop_stream and stop_all_streams would never reach it.
NoOrphan == \A p \in Procs : proc[p] = "alive" => active = p

\* A process ended by a managed stop (stop_stream, or the daily limit) is
\* never handled as a failure, which would raise alerts and restart it:
\* manual_stop survives from the SIGINT until the monitor reads it.
ManagedStopIsNoFailure ==
    \A p \in Procs : p \in signalled => pc[p] \notin FailPc

\* When stop_stream returns, no FFmpeg child of the stream runs.
StopEndsFFmpeg ==
    [][\A c \in Callers :
          StopReturn(c) => \A p \in Procs : proc[p] # "alive"]_vars

\* stop_stream never hangs: not on a process that ignores SIGINT, not on the
\* monitor, which needs the lock the stop holds while it waits for the exit.
StopReturns ==
    \A c \in Callers : pc[c] = "stop_lock" ~> pc[c] \in {"idle", "spawn"}

\* No crash is silent: its monitor writes a terminal status, or a successor
\* process is spawned.
CrashSurfaces ==
    \A p \in Procs :
        (proc[p] = "failed" /\ pc[p] = "watch")
            ~> \/ outcome[p] # "none"
               \/ \E q \in Procs : q > p /\ proc[q] # "unborn"

=============================================================================

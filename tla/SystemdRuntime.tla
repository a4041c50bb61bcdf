--------------------------- MODULE SystemdRuntime ---------------------------
(***************************************************************************)
(* One stream in systemd mode: its database row, its unit, the runner the  *)
(* unit executes (backend/app/cli/run_stream.py), the runner's heartbeat   *)
(* file, and the backend sessions that start, stop, restart, poll and      *)
(* reconcile it (backend/app/services/streams/control.py,                  *)
(* backend/app/core/stream_reconciler.py).                                 *)
(*                                                                         *)
(* A backend session loads the row, awaits systemctl, and commits what it  *)
(* decided.  SQLAlchemy writes an attribute only if its new value differs  *)
(* from the loaded one, and a second load in the same session returns the  *)
(* first one's values: seen[a] is what session a believes the status is.   *)
(* The runner's own short transactions are single actions.                 *)
(*                                                                         *)
(* The stream has been stopped before, so its status is never "draft" or   *)
(* "scheduled".  The model leaves manager mode and FFmpeg's own restarts   *)
(* to FFmpegManager: FFMPEG_AUTO_RESTART_ATTEMPTS is 0.                    *)
(***************************************************************************)
EXTENDS Naturals

CONSTANTS
    Api,          \* sessions of start, stop and live-update requests
    Polls,        \* status requests of clients that poll
    Reconcilers,  \* periodic_stream_status_sync, one per backend worker
    Runner,       \* the runner's session
    Burst         \* StartLimitBurst of the unit

Sessions == Api \cup Polls \cup Reconcilers

ASSUME RuntimeAssumption ==
    /\ Api \cap (Polls \cup Reconcilers) = {}
    /\ Polls \cap Reconcilers = {}
    /\ Runner \notin Sessions
    /\ Burst \in Nat \ {0}

VARIABLES
    status,    \* the committed column streams.status
    unit,      \* the unit's ActiveState; "activating" is the wait of RestartSec
    again,     \* a restart job waits for the unit to stop
    starts,    \* activations of the unit in the current start-limit interval
    runner,    \* where the runner is
    heartbeat, \* the heartbeat file
    pc,        \* where each backend session is
    seen,      \* the status each session, the runner's too, has in memory
    found,     \* what a session found out or saved on the way
    crashed    \* history: a runner was killed, could not commit or could not
               \* renew its heartbeat

row == <<status, seen>>
systemd == <<unit, again, starts>>
backend == <<pc, found>>
vars == <<status, unit, again, starts, runner, heartbeat, pc, seen, found,
          crashed>>

Terminal == {"stopped", "error"}
Status == Terminal \cup {"starting", "running", "stopping"}
Unit == {"inactive", "activating", "active", "deactivating", "failed"}
Down == {"inactive", "failed"}
Stage == {"none", "boot", "prepare", "spawn", "announce", "live", "mute", "clear",
          "raise", "update"}
Label == {"idle", "look", "report", "lock", "write", "launch",
          "probe", "mark", "halt", "await", "final", "bounce", "rejoin",
          "rewrite", "commit"}

TypeOK ==
    /\ status \in Status
    /\ unit \in Unit
    /\ again \in BOOLEAN
    /\ starts \in 0..Burst
    /\ runner \in Stage
    /\ heartbeat \in {"none", "fresh", "stale"}
    /\ pc \in [Sessions -> Label]
    /\ seen \in [Sessions \cup {Runner} -> Status]
    /\ found \in [Sessions -> Unit \cup Status]
    /\ crashed \in BOOLEAN

Init ==
    /\ status = "stopped"
    /\ unit = "inactive"
    /\ again = FALSE
    /\ starts = 0
    /\ runner = "none"
    /\ heartbeat = "none"
    /\ pc = [a \in Sessions |-> "idle"]
    /\ seen = [a \in Sessions \cup {Runner} |-> "stopped"]
    /\ found = [a \in Sessions |-> "inactive"]
    /\ crashed = FALSE

-----------------------------------------------------------------------------
(* Building blocks *)

Goto(a, label) == pc' = [pc EXCEPT ![a] = label]

Load(a) == seen' = [seen EXCEPT ![a] = status]

\* Session a sets the status to v and commits: an UPDATE of a dirty column.
Write(a, v) == status' = IF seen[a] # v THEN v ELSE status

Commit(a, v) == Write(a, v) /\ seen' = [seen EXCEPT ![a] = v]

Find(a, v) == found' = [found EXCEPT ![a] = v]

\* A session that ends is forgotten; the resets only keep equal what is alike.
Forget(a) == seen' = [seen EXCEPT ![a] = "stopped"]
Close(a) == Goto(a, "idle") /\ Find(a, "inactive") /\ Forget(a)

\* systemd executes the runner, or refuses by the start limit.
Activate ==
    IF starts < Burst
    THEN unit' = "active" /\ runner' = "boot" /\ starts' = starts + 1
    ELSE unit' = "failed" /\ runner' = "none" /\ starts' = starts

\* SIGTERM to the unit's processes: while the interpreter is being loaded it
\* may kill the runner, and from then until CURRENT_STREAM_ID is set and FFmpeg
\* is registered it is lost.  Later it makes FFmpeg exit, as FFmpegExits may.
Signal == runner' \in IF runner = "boot" THEN {"boot", "none"} ELSE {runner}

-----------------------------------------------------------------------------
(* get_stream_status *)

\* A status request.
BeginPoll(a) ==
    /\ a \in Polls
    /\ pc[a] = "idle"
    /\ Load(a)
    /\ Goto(a, "look")
    /\ UNCHANGED <<status, systemd, runner, heartbeat, found, crashed>>

\* systemctl show
PollUnit(a) ==
    /\ pc[a] = "look"
    /\ a \notin Reconcilers
    /\ Find(a, unit)
    /\ Goto(a, "report")
    /\ UNCHANGED <<row, systemd, runner, heartbeat, crashed>>

\* Mutant: the unit's state is stored as it is.
NormalizedRaw(state) == state

\* What the unit's state says of the status.
Normalized(state) ==
    CASE state = "active"       -> IF heartbeat = "fresh" THEN "running" ELSE "starting"
      [] state = "activating"   -> "starting"
      [] state = "deactivating" -> "stopping"
      [] state = "inactive"     -> "stopped"
      [] state = "failed"       -> "error"

\* Mutant: a terminal row is left alone.
PollCommitKeepsTerminal(a) ==
    LET reported == IF heartbeat = "stale" THEN "error"
                    ELSE IF seen[a] \in Terminal THEN seen[a]
                    ELSE Normalized(found[a])
    IN  /\ pc[a] = "report"
        /\ IF a \in Api /\ reported \in Terminal
           THEN Commit(a, reported) /\ Goto(a, "lock") /\ UNCHANGED found
           ELSE Write(a, reported) /\ Close(a)
        /\ UNCHANGED <<systemd, runner, heartbeat, crashed>>

\* The status is brought in line with the unit, or set to "error" whatever the
\* unit's state if the heartbeat is stale.  start_stream goes on if the stream
\* is down.
PollCommit(a) ==
    LET reported == IF heartbeat = "stale" THEN "error" ELSE Normalized(found[a])
    IN  /\ pc[a] = "report"
        /\ IF a \in Api /\ reported \in Terminal
           THEN Commit(a, reported) /\ Goto(a, "lock") /\ UNCHANGED found
           ELSE Write(a, reported) /\ Close(a)
        /\ UNCHANGED <<systemd, runner, heartbeat, crashed>>

-----------------------------------------------------------------------------
(* start_stream *)

\* A stream found "starting" is answered at once.
BeginStart(a) ==
    /\ a \in Api
    /\ pc[a] = "idle"
    /\ status # "starting"
    /\ Load(a)
    /\ Goto(a, "look")
    /\ UNCHANGED <<status, systemd, runner, heartbeat, found, crashed>>

\* Under the user's advisory lock, held until the commit, the quota and the
\* prerequisites are checked, and the unit must not be active.
StartCheck(a) ==
    /\ pc[a] = "lock"
    /\ \A b \in Api : pc[b] # "write"
    /\ \/ Close(a)
       \/ unit # "active" /\ Goto(a, "write") /\ UNCHANGED <<found, seen>>
    /\ UNCHANGED <<status, systemd, runner, heartbeat, crashed>>

\* "starting" is committed; the previous status is kept for a failed launch.
StartCommit(a) ==
    /\ pc[a] = "write"
    /\ Commit(a, "starting")
    /\ Find(a, seen[a])
    /\ Goto(a, "launch")
    /\ UNCHANGED <<systemd, runner, heartbeat, crashed>>

\* systemctl start: an active unit is left alone, and the job of a unit that
\* stops or waits for its restart waits with it.
Launch(a) ==
    /\ pc[a] = "launch"
    /\ \/ /\ unit = "active"
          /\ UNCHANGED <<systemd, runner>>
       \/ /\ unit \in Down
          /\ starts < Burst
          /\ Activate
          /\ UNCHANGED again
    /\ Close(a)
    /\ UNCHANGED <<status, heartbeat, crashed>>

\* systemctl start fails, by the start limit or for a reason of its own, and
\* the previous status is committed.
LaunchFails(a) ==
    /\ pc[a] = "launch"
    /\ unit' = IF unit = "inactive" /\ starts = Burst THEN "failed" ELSE unit
    /\ Write(a, found[a])
    /\ Close(a)
    /\ UNCHANGED <<again, starts, runner, heartbeat, crashed>>

-----------------------------------------------------------------------------
(* stop_stream *)

BeginStop(a) ==
    /\ a \in Api
    /\ pc[a] = "idle"
    /\ Load(a)
    /\ Goto(a, "probe")
    /\ UNCHANGED <<status, systemd, runner, heartbeat, found, crashed>>

\* systemctl is-active: a unit that waits for its restart is not stopped.
StopProbe(a) ==
    /\ pc[a] = "probe"
    /\ Goto(a, IF unit = "active" THEN "mark" ELSE "final")
    /\ UNCHANGED <<row, systemd, runner, heartbeat, found, crashed>>

StopMark(a) ==
    /\ pc[a] = "mark"
    /\ Commit(a, "stopping")
    /\ Goto(a, "halt")
    /\ UNCHANGED <<systemd, runner, heartbeat, found, crashed>>

\* systemctl stop, which cancels a pending restart.
StopUnit(a) ==
    /\ pc[a] = "halt"
    /\ \/ /\ unit \in {"active", "deactivating"}
          /\ unit' = "deactivating"
          /\ Signal
       \/ /\ unit = "activating"
          /\ unit' = "inactive"
          /\ UNCHANGED runner
       \/ /\ unit \in Down
          /\ UNCHANGED <<unit, runner>>
    /\ again' = FALSE
    /\ Goto(a, "await")
    /\ UNCHANGED <<row, starts, heartbeat, found, crashed>>

\* systemctl stop fails, or a restart cancels it: the request ends, the status
\* stays "stopping".
StopFails(a) ==
    /\ pc[a] \in IF again THEN {"halt", "await"} ELSE {"halt"}
    /\ Close(a)
    /\ UNCHANGED <<status, systemd, runner, heartbeat, crashed>>

\* systemctl stop returns once the unit is down.
StopReturns(a) ==
    /\ pc[a] = "await"
    /\ unit # "deactivating"
    /\ Goto(a, "final")
    /\ UNCHANGED <<row, systemd, runner, heartbeat, found, crashed>>

StopCommit(a) ==
    /\ pc[a] = "final"
    /\ Write(a, "stopped")
    /\ Close(a)
    /\ UNCHANGED <<systemd, runner, heartbeat, crashed>>

-----------------------------------------------------------------------------
(* restart_stream *)

BeginRestart(a) ==
    /\ a \in Api
    /\ pc[a] = "idle"
    /\ Load(a)
    /\ Goto(a, "bounce")
    /\ UNCHANGED <<status, systemd, runner, heartbeat, found, crashed>>

\* systemctl restart, whatever the status
RestartUnit(a) ==
    /\ pc[a] = "bounce"
    /\ \/ /\ unit \in {"active", "deactivating"}
          /\ unit' = "deactivating"
          /\ again' = TRUE
          /\ Signal
          /\ Goto(a, "rejoin")
          /\ UNCHANGED starts
       \/ /\ unit \notin {"active", "deactivating"}
          /\ starts < Burst
          /\ Activate
          /\ Goto(a, "rewrite")
          /\ UNCHANGED again
    /\ UNCHANGED <<row, heartbeat, found, crashed>>

\* systemctl restart has returned, and "starting" is committed.
RestartCommit(a) ==
    /\ pc[a] = "rewrite"
    /\ Write(a, "starting")
    /\ Close(a)
    /\ UNCHANGED <<systemd, runner, heartbeat, crashed>>

\* systemctl restart fails: at once, by the start limit for one, or after the
\* stop, by the limit or cancelled.
RestartFails(a) ==
    /\ \/ pc[a] = "bounce"
       \/ pc[a] = "rejoin" /\ ~again
    /\ unit' = IF pc[a] = "bounce" /\ unit \in {"inactive", "activating"} /\ starts = Burst
               THEN "failed" ELSE unit
    /\ Close(a)
    /\ UNCHANGED <<status, again, starts, runner, heartbeat, crashed>>

-----------------------------------------------------------------------------
(* periodic_reconciliation, and reconcile_streams at startup *)

\* The streams believed to be up are loaded.
BeginReconcile(a) ==
    /\ a \in Reconcilers
    /\ pc[a] = "idle"
    /\ status \notin Terminal
    /\ Load(a)
    /\ Goto(a, "look")
    /\ UNCHANGED <<status, systemd, runner, heartbeat, found, crashed>>

\* Mutant: a unit that hit its start limit is not taken for a failure.
ReconcileUnitIgnoresFailed(a) ==
    /\ pc[a] = "look"
    /\ a \in Reconcilers
    /\ Find(a, CASE unit \in {"activating", "failed"}        -> seen[a]
                 [] unit = "active" /\ heartbeat = "stale" -> "error"
                 [] OTHER                                  -> Normalized(unit))
    /\ Goto(a, "commit")
    /\ UNCHANGED <<row, systemd, runner, heartbeat, crashed>>

\* Mutant: a status found in the unit's favour is not corrected.
ReconcileUnitKeepsStatus(a) ==
    /\ pc[a] = "look"
    /\ a \in Reconcilers
    /\ Find(a, CASE unit \in {"activating", "active"} -> seen[a]
                 [] OTHER                             -> Normalized(unit))
    /\ Goto(a, "commit")
    /\ UNCHANGED <<row, systemd, runner, heartbeat, crashed>>

\* What a pass makes of a stream's status, the one at startup like the others.
Reconciled(a) ==
    CASE unit = "activating"                     -> seen[a]
      [] unit = "active" /\ heartbeat = "stale" -> "error"
      [] OTHER                                  -> Normalized(unit)

\* systemctl show, and the heartbeat of an active unit.  The outcome stays in
\* memory while the other streams are looked at.
ReconcileUnit(a) ==
    /\ pc[a] = "look"
    /\ a \in Reconcilers
    /\ Find(a, Reconciled(a))
    /\ Goto(a, "commit")
    /\ UNCHANGED <<row, systemd, runner, heartbeat, crashed>>

\* One commit at the end of the pass.
ReconcileCommit(a) ==
    /\ pc[a] = "commit"
    /\ Write(a, found[a])
    /\ Close(a)
    /\ UNCHANGED <<systemd, runner, heartbeat, crashed>>

-----------------------------------------------------------------------------
(* The runner *)

\* The runner's process ends, by itself or killed: Restart=always waits for
\* RestartSec, except after TERMINAL_STATE_EXIT_CODE.
RunnerEnds(refused) ==
    /\ runner' = "none"
    /\ unit' = IF unit = "deactivating" THEN unit
               ELSE IF refused THEN "failed" ELSE "activating"
    /\ Forget(Runner)
    /\ UNCHANGED <<again, starts>>

\* Mutant: a stream in error is started again.
BootRelaunchesErrors ==
    /\ runner = "boot"
    /\ \/ status = "stopped" /\ RunnerEnds(TRUE)
       \/ /\ status # "stopped"
          /\ runner' = "prepare"
          /\ Load(Runner)
          /\ UNCHANGED systemd
    /\ UNCHANGED <<status, backend, heartbeat, crashed>>

\* Mutant: a refusal exits with the code of any other failure.
BootExitsUnprevented ==
    /\ runner = "boot"
    /\ \/ status \in Terminal /\ RunnerEnds(FALSE)
       \/ /\ status \notin Terminal
          /\ runner' = "prepare"
          /\ Load(Runner)
          /\ UNCHANGED systemd
    /\ UNCHANGED <<status, backend, heartbeat, crashed>>

\* The row is loaded; a terminal stream is not launched.
Boot ==
    /\ runner = "boot"
    /\ \/ status \in Terminal /\ RunnerEnds(TRUE)
       \/ /\ status \notin Terminal
          /\ runner' = "prepare"
          /\ Load(Runner)
          /\ UNCHANGED systemd
    /\ UNCHANGED <<status, backend, heartbeat, crashed>>

\* The playlists are built, and FFmpeg is started.
Prepare ==
    /\ runner = "prepare"
    /\ runner' = "spawn"
    /\ UNCHANGED <<row, systemd, backend, heartbeat, crashed>>

Spawn ==
    /\ runner = "spawn"
    /\ runner' = "announce"
    /\ heartbeat' = "fresh"
    /\ UNCHANGED <<row, systemd, backend, crashed>>

\* A prerequisite is missing, or FFmpeg does not start.
LaunchAborts ==
    /\ runner \in {"prepare", "spawn"}
    /\ RunnerEnds(FALSE)
    /\ UNCHANGED <<status, backend, heartbeat, crashed>>

\* "running" is committed, after the heartbeat was written.
Announce ==
    /\ runner = "announce"
    /\ Commit(Runner, "running")
    /\ runner' = "live"
    /\ UNCHANGED <<systemd, backend, heartbeat, crashed>>

\* The commit fails and the runner ends with its heartbeat in place.
AnnounceFails ==
    /\ runner = "announce"
    /\ RunnerEnds(FALSE)
    /\ crashed' = TRUE
    /\ UNCHANGED <<status, backend, heartbeat>>

\* FFmpeg ends: its monitor writes "stopped" if it was told to or came to the
\* end of its input, "error" if it failed.
FFmpegExits ==
    /\ runner \in {"live", "mute"}
    /\ status' \in Terminal
    /\ runner' = IF runner = "live" THEN "clear" ELSE "raise"
    /\ UNCHANGED <<seen, systemd, backend, heartbeat, crashed>>

\* A write of the heartbeat fails, which ends the task that renews it: FFmpeg
\* lives on, mute.
RenewalFails ==
    /\ runner = "live"
    /\ runner' = "mute"
    /\ crashed' = TRUE
    /\ UNCHANGED <<row, systemd, backend, heartbeat>>

\* The failed write is raised again where the ended task is awaited, ahead of
\* the clearing and the update: the runner ends with its heartbeat in place.
RenewalRaises ==
    /\ runner = "raise"
    /\ RunnerEnds(FALSE)
    /\ UNCHANGED <<status, backend, heartbeat, crashed>>

\* Mutant: the heartbeat is left behind.
ClearHeartbeatSkipped ==
    /\ runner = "clear"
    /\ runner' = "update"
    /\ UNCHANGED <<row, systemd, backend, heartbeat, crashed>>

ClearHeartbeat ==
    /\ runner = "clear"
    /\ heartbeat' = "none"
    /\ runner' = "update"
    /\ UNCHANGED <<row, systemd, backend, crashed>>

\* The monitor has dropped its record: an error is kept, anything else is now
\* "stopped".
UpdateAfterExit ==
    /\ runner = "update"
    /\ status' = IF status = "error" THEN status ELSE "stopped"
    /\ RunnerEnds(FALSE)
    /\ UNCHANGED <<backend, heartbeat, crashed>>

-----------------------------------------------------------------------------
(* systemd, the clock and crashes *)

AutoRestart ==
    /\ unit = "activating"
    /\ Activate
    /\ UNCHANGED <<row, again, backend, heartbeat, crashed>>

\* A stopping unit is down when its runner is gone, and a restart starts it.
UnitStopped ==
    /\ unit = "deactivating"
    /\ runner = "none"
    /\ again' = FALSE
    /\ IF again THEN Activate ELSE unit' = "inactive" /\ UNCHANGED <<runner, starts>>
    /\ pc' = [a \in Sessions |->
                 IF pc[a] = "rejoin" /\ unit' = "active" THEN "rewrite" ELSE pc[a]]
    /\ UNCHANGED <<row, found, heartbeat, crashed>>

\* TimeoutStopSec is over: SIGKILL.
StopTimesOut ==
    /\ unit = "deactivating"
    /\ runner # "none"
    /\ runner' = "none"
    /\ unit' = IF again THEN unit ELSE "failed"
    /\ Forget(Runner)
    /\ crashed' = TRUE
    /\ UNCHANGED <<status, again, starts, backend, heartbeat>>

\* The runner is killed, by the unit's memory limit for one.
RunnerKilled ==
    /\ runner # "none"
    /\ RunnerEnds(FALSE)
    /\ crashed' = TRUE
    /\ UNCHANGED <<status, backend, heartbeat>>

\* StartLimitIntervalSec is over.
IntervalEnds ==
    /\ starts > 0
    /\ starts' = 0
    /\ UNCHANGED <<row, unit, again, runner, backend, heartbeat, crashed>>

\* Nobody has renewed the heartbeat for its time to live: a runner does, from
\* its first heartbeat until it clears the file, unless a write has failed.
HeartbeatExpires ==
    /\ heartbeat = "fresh"
    /\ runner \notin {"announce", "live", "clear"}
    /\ heartbeat' = "stale"
    /\ UNCHANGED <<row, systemd, runner, backend, crashed>>

\* The backend is restarted: whatever its sessions have not committed is lost.
BackendCrashes ==
    /\ \E a \in Sessions : pc[a] # "idle"
    /\ pc' = [a \in Sessions |-> "idle"]
    /\ found' = [a \in Sessions |-> "inactive"]
    /\ seen' = [a \in DOMAIN seen |-> IF a = Runner THEN seen[a] ELSE "stopped"]
    /\ UNCHANGED <<status, systemd, runner, heartbeat, crashed>>

-----------------------------------------------------------------------------

\* What a session does once its request or its pass has begun.
Proceed(a) ==
    \/ PollUnit(a) \/ PollCommit(a)
    \/ StartCheck(a) \/ StartCommit(a) \/ Launch(a) \/ LaunchFails(a)
    \/ StopProbe(a) \/ StopMark(a) \/ StopUnit(a) \/ StopFails(a)
    \/ StopReturns(a) \/ StopCommit(a)
    \/ RestartUnit(a) \/ RestartCommit(a) \/ RestartFails(a)
    \/ ReconcileUnit(a) \/ ReconcileCommit(a)

Begin(a) == BeginPoll(a) \/ BeginStart(a) \/ BeginStop(a) \/ BeginRestart(a)

\* The runner's own progress; a live one goes on for as long as it likes.
RunnerSteps ==
    \/ Boot \/ Prepare \/ Spawn \/ LaunchAborts \/ Announce \/ AnnounceFails
    \/ ClearHeartbeat \/ RenewalRaises \/ UpdateAfterExit

Systemd == AutoRestart \/ UnitStopped \/ StopTimesOut

Environment ==
    \/ RunnerKilled \/ RenewalFails \/ IntervalEnds \/ HeartbeatExpires
    \/ BackendCrashes

Next ==
    \/ \E a \in Sessions : Begin(a) \/ BeginReconcile(a) \/ Proceed(a)
    \/ RunnerSteps \/ FFmpegExits
    \/ Systemd \/ Environment

Spec == Init /\ [][Next]_vars

\* A session's systemctl call returns, a reconciler makes its passes, a client
\* that polls goes on polling, systemd and the runner's code go on.  Nothing
\* makes a user act or FFmpeg exit.
Fairness ==
    /\ \A a \in Sessions : WF_vars(Proceed(a))
    /\ \A a \in Reconcilers : WF_vars(BeginReconcile(a))
    /\ \A a \in Polls : WF_vars(BeginPoll(a))
    /\ WF_vars(RunnerSteps)
    /\ WF_vars(AutoRestart)
    /\ WF_vars(UnitStopped)
    /\ WF_vars(StopTimesOut)

FairSpec == Spec /\ Fairness

-----------------------------------------------------------------------------
(* Properties. *)

\* A heartbeat goes stale only after a crash or a failed write: every orderly end
\* of a runner, wherever a stop request meets it, removes the file (the finally
\* clause of _start_stream).
StaleMeansCrash == heartbeat = "stale" => crashed

\* A row does not claim for ever that a stream is up whose unit is down,
\* wherever the backend crashed between its commit and its systemctl call (but
\* the backend does not crash for ever).
DownIsReported ==
    <>[][~BackendCrashes]_vars =>
        (unit \in Down /\ status \notin Terminal ~> unit \notin Down \/ status \in Terminal)

\* A live stream does not stay "starting" or "stopping": a restart that commits
\* "starting" after the runner's "running", and a stop that fails, are put
\* right by the reconciler, also when the runner cannot renew its heartbeat.
LiveIsConfirmed ==
    <>[][~BackendCrashes]_vars =>
        (runner \in {"live", "mute"} /\ status \in {"starting", "stopping"} ~>
            runner \notin {"live", "mute"} \/ status \notin {"starting", "stopping"})

\* The database says of a live stream that it is running, sooner or later,
\* whoever wrote something else while it was launched: a client that polls sees
\* to it, a reconciler, which looks at no terminal row, does not.  It is about a
\* runner that renews its heartbeat; one that cannot is declared an error.
LiveIsReported ==
    <>[][~BackendCrashes]_vars =>
        (runner = "live" ~> runner # "live" \/ status = "running")

=============================================================================

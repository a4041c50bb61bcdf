--------------------------- MODULE StreamService ---------------------------
(***************************************************************************)
(* A stream from its creation to its deletion, with its schedule, when the *)
(* backend runs FFmpeg itself (stream_runtime_mode "manager"):             *)
(* services/streams/service.py, control.py and scheduler.py and the        *)
(* schemas of schemas/api.py, all in backend/app.                          *)
(*                                                                         *)
(* An action is the code between two awaits of a session of the database:  *)
(* an API request, or the poll of scheduled_stream_launcher.  PostgreSQL:  *)
(* an UPDATE waits for the row locks of other transactions; the scheduler  *)
(* selects FOR UPDATE, which also keeps other transactions from inserting  *)
(* an event that refers to the row.  SQLAlchemy: a session goes on with    *)
(* the copy of the row it read first and writes the columns it changed.    *)
(*                                                                         *)
(* Hours pass from 0 to the horizon; a failed attempt of the scheduler is  *)
(* made again in the next hour (a minute in the code).                     *)
(***************************************************************************)
EXTENDS LaunchChecks, ScheduleTimes

CONSTANTS
    Launcher,    \* the session of scheduled_stream_launcher
    Requests,    \* the sessions of the user's requests
    Worlds,      \* what the user has and asks for: content, payloads, horizon
    MaxCrashes,  \* crashes of the backend in a behaviour (a bound)
    MaxAsked     \* requests after the creation of the stream (a bound)

Sessions == {Launcher} \cup Requests
Optional(S) == S \cup {None}

\* What a request says of the schedule.
Payloads == [mode : {"now", "schedule"}, start : Optional(Int), stop : Optional(Int),
             repeat : {"none", "daily", "weekly"}, weekdays : SUBSET (0..(Week - 1)),
             ends : Optional(0..(DayHours - 1)), after : Optional(Nat \ {0})]

ASSUME StreamServiceAssumption ==
    /\ Launcher \notin Requests
    /\ MaxCrashes \in Nat /\ MaxAsked \in Nat
    /\ \A w \in Worlds : /\ w.content \in Contents
                          /\ w.payloads \subseteq Payloads
                          /\ w.horizon \in Nat

VARIABLES
    world,       \* one of Worlds
    now,         \* the hour
    row,         \* the committed row of the stream, None without one
    created,     \* it was created
    lock,        \* who holds the row locked, and how
    ffmpeg,      \* the command FFmpeg runs with, None when it does not run
    ended,       \* how FFmpeg ended, until its monitor has recorded it
    pc,          \* where each session is
    copy,        \* the row as the session read it
    asked,       \* the schedule an update asks for
    launched,    \* history: the last occurrence its present schedule launched
    interrupted, \* history: a crash hit the scheduler between its two commits
    crashes,     \* so far
    requested    \* requests so far

vars == <<world, now, row, created, lock, ffmpeg, ended, pc, copy, asked,
          launched, interrupted, crashes, requested>>

content == world.content

Row == [status : {"scheduled", "stopped", "running", "error"},
        enabled : BOOLEAN, start : Optional(Int), tried : BOOLEAN,
        repeat : {"none", "daily", "weekly"}, weekdays : SUBSET (0..(Week - 1)),
        ends : Optional(0..(DayHours - 1)), after : Optional(Nat \ {0}),
        stop : Optional(Int), stopTried : BOOLEAN,
        failed : BOOLEAN]

\* tried and stopTried stand for an attempt of the scheduler in this hour (the code
\* keeps its time), failed for the persisted counter of restarts and the time of
\* the last failure, when there is one.

Free == [by |-> None, mode |-> "free"]
Held(x, mode) == [by |-> x, mode |-> mode]

Label == {"idle", "start", "reset", "started", "record", "audit", "stop", "stop_wait",
          "stop_commit", "update", "delete", "delete_wait"}

TypeOK ==
    /\ world \in Worlds /\ now \in 0..world.horizon
    /\ row \in Row \cup {None} /\ created \in BOOLEAN
    /\ lock.by \in Sessions \cup {None} /\ lock.mode \in {"free", "share", "write", "update"}
    /\ ffmpeg = None \/ ffmpeg = CommandPlan(content)
    /\ ended \in {None, "clean", "failed"}
    /\ ffmpeg # None => ended = None
    /\ pc \in [Sessions -> Label]
    /\ copy \in [Sessions -> Row \cup {None}]
    /\ asked \in [Sessions -> world.payloads \cup {None}]
    /\ launched \in Optional(Int) /\ interrupted \in BOOLEAN
    /\ crashes \in 0..MaxCrashes /\ requested \in 0..MaxAsked

Init ==
    /\ world \in Worlds
    /\ now = 0 /\ row = None /\ created = FALSE /\ lock = Free
    /\ ffmpeg = None /\ ended = None
    /\ pc = [x \in Sessions |-> "idle"]
    /\ copy = [x \in Sessions |-> None]
    /\ asked = [x \in Sessions |-> None]
    /\ launched = None /\ interrupted = FALSE /\ crashes = 0 /\ requested = 0

Goto(x, label) == pc' = [pc EXCEPT ![x] = label]
Return(x) ==
    /\ Goto(x, "idle")
    /\ copy' = [copy EXCEPT ![x] = None]
    /\ asked' = [asked EXCEPT ![x] = None]
Release(x) == lock' = IF lock.by = x THEN Free ELSE lock
Read(x) == copy' = [copy EXCEPT ![x] = row]

\* An UPDATE of x can go on.  It writes the columns in which new differs from
\* the copy of x, and fails when the row is gone.
Writable(x) == lock.by \in {x, None} \/ lock.mode = "share"
Write(x, new) ==
    \E written \in {new} : row' =
        IF row = None THEN None
        ELSE [column \in DOMAIN row |->
                IF written[column] = copy[x][column] THEN row[column] ELSE written[column]]

-----------------------------------------------------------------------------
(* Schedules *)

\* What the validators of StreamCreate and StreamScheduleUpdate let through.
Accepted(p) ==
    /\ IF p.mode = "schedule" THEN p.start # None /\ p.start > now
       ELSE /\ p.start = None /\ p.repeat = "none" /\ p.after = None
    /\ p.stop # None => /\ p.stop > now
                        /\ p.start # None => p.stop > p.start
                        /\ p.repeat = "none" /\ p.after = None
    /\ p.weekdays # {} => p.repeat = "weekly"
    /\ p.ends # None => p.repeat # "none"

\* _build_schedule_config, and what create_stream and update_stream_schedule
\* make of it.
Scheduled(r, p) ==
    [r EXCEPT
       !.enabled = p.mode = "schedule",
       !.start = p.start,
       !.tried = FALSE,
       !.repeat = p.repeat,
       !.weekdays = IF p.repeat = "weekly" THEN ResolveWeekdays(p.start, p.weekdays) ELSE {},
       !.ends = p.ends,
       !.after = p.after,
       !.stop = ComputeScheduleStop(p.start, p.stop, p.ends, p.after),
       !.stopTried = FALSE,
       !.status = IF p.mode = "schedule" /\ @ # "running" THEN "scheduled"
                  ELSE IF p.mode # "schedule" /\ @ = "scheduled" THEN "stopped" ELSE @]

BlankRow == [status |-> "stopped", enabled |-> FALSE, start |-> None, tried |-> FALSE,
             repeat |-> "none", weekdays |-> {}, ends |-> None, after |-> None,
             stop |-> None, stopTried |-> FALSE, failed |-> FALSE]

ClearStartSchedule(r) == [r EXCEPT !.enabled = FALSE, !.start = None, !.tried = FALSE]
ClearStopSchedule(r) == [r EXCEPT !.stop = None, !.stopTried = FALSE]

Recurring(r) == r.enabled /\ r.repeat # "none"
OccurrenceStop(r) == ComputeScheduleStop(r.start, None, r.ends, r.after)
NextStart(r) == ComputeNextRepeatingStart(r.start, r.repeat, r.weekdays)

Asks(x) ==
    /\ pc[x] = "idle" /\ row # None
    /\ requested < MaxAsked
    /\ requested' = requested + 1

-----------------------------------------------------------------------------
(* Requests: creation and changes of the schedule *)

\* create_stream: the sources the mix mode calls for must be there.
Create(x, p) ==
    /\ pc[x] = "idle" /\ ~created
    /\ Accepted(p)
    /\ content.videos # <<>> \/ content.mix = "audio_only"
    /\ content.mix # "video_only" => content.audios \notin {Absent, <<>>}
    /\ row' = Scheduled(BlankRow, p)
    /\ created' = TRUE
    /\ UNCHANGED <<world, now, lock, ffmpeg, ended, pc, copy, asked, launched, interrupted, crashes, requested>>

\* update_stream_schedule reads the stream and lets a running one alone.
AskUpdate(x, p) ==
    /\ Asks(x)
    /\ Accepted(p)
    /\ p.mode = "schedule" => row.status # "running"
    /\ Read(x)
    /\ asked' = [asked EXCEPT ![x] = p]
    /\ Goto(x, "update")
    /\ UNCHANGED <<world, now, row, created, lock, ffmpeg, ended, launched, interrupted, crashes>>

Update(x) ==
    /\ pc[x] = "update" /\ Writable(x)
    /\ Write(x, Scheduled(copy[x], asked[x]))
    /\ launched' = None
    /\ Return(x)
    /\ UNCHANGED <<world, now, created, lock, ffmpeg, ended, interrupted, crashes, requested>>

-----------------------------------------------------------------------------
(* The start of a stream, by a request or by the scheduler *)

AskStart(x) ==
    /\ Asks(x)
    /\ row.status # "running"
    /\ Read(x)
    /\ Goto(x, "start")
    /\ UNCHANGED <<world, now, row, created, lock, ffmpeg, ended, asked, launched, interrupted, crashes>>

\* The limit of running streams, the launch checks, a full disk, the manager
\* that has the stream already, or a failed spawn.
RefuseStart(x) ==
    /\ pc[x] = "start"
    /\ Release(x)
    /\ Return(x)
    /\ UNCHANGED <<world, now, row, created, ffmpeg, ended, launched, interrupted, crashes, requested>>

\* Mutant: the manager does not ask whether it has the stream already.
SpawnTwice(x) ==
    /\ pc[x] = "start"
    /\ Launchable(content)
    /\ ffmpeg' = CommandPlan(content)
    /\ Goto(x, "reset")
    /\ UNCHANGED <<world, now, row, created, lock, ended, copy, asked, launched, interrupted, crashes, requested>>

Spawn(x) ==
    /\ pc[x] = "start"
    /\ Launchable(content)
    /\ ffmpeg = None /\ ended = None
    /\ ffmpeg' = CommandPlan(content)
    /\ Goto(x, "reset")
    /\ UNCHANGED <<world, now, row, created, lock, ended, copy, asked, launched, interrupted, crashes, requested>>

\* FFmpegStreamManager.start_stream has the counter of restarts reset in a
\* session of its own: not even x may hold the row when there is one to reset.
ResetCounter(x) ==
    /\ pc[x] = "reset"
    /\ row # None /\ row.failed => lock.mode \in {"free", "share"}
    /\ row' = IF row = None THEN None ELSE [row EXCEPT !.failed = FALSE]
    /\ Goto(x, "started")
    /\ UNCHANGED <<world, now, created, lock, ffmpeg, ended, copy, asked, launched, interrupted, crashes, requested>>

\* start_stream clears the start schedule unless the scheduler starts a stream
\* whose schedule repeats.
CommitStart(x) ==
    LET running == [copy[x] EXCEPT !.status = "running"]
        preserve == x = Launcher /\ Recurring(copy[x])
    IN  /\ pc[x] = "started" /\ Writable(x)
        /\ Write(x, IF preserve THEN running ELSE ClearStartSchedule(running))
        /\ Release(x)
        /\ IF preserve
           THEN Goto(x, "record") /\ copy' = [copy EXCEPT ![x] = running] /\ UNCHANGED asked
           ELSE Return(x)
        /\ launched' = IF x = Launcher THEN copy[x].start ELSE launched
        /\ UNCHANGED <<world, now, created, ffmpeg, ended, interrupted, crashes, requested>>

-----------------------------------------------------------------------------
(* A stop, by a request or by the scheduler, and a deletion *)

AskStop(x) ==
    /\ Asks(x)
    /\ Read(x)
    /\ Goto(x, "audit")
    /\ UNCHANGED <<world, now, row, created, lock, ffmpeg, ended, asked, launched, interrupted, crashes>>

\* _persist_stop_request_attribution inserts the event in a session of its own,
\* which a row selected FOR UPDATE, even by x, keeps waiting.
RecordStopRequest(x) ==
    /\ pc[x] = "audit"
    /\ lock.mode # "update"
    /\ Goto(x, "stop")
    /\ UNCHANGED <<world, now, row, created, lock, ffmpeg, ended, copy, asked, launched, interrupted, crashes, requested>>

\* _stop_for_runtime: a running stream is marked as stopping, which locks the
\* row, and FFmpeg is stopped; manager.stop_stream waits for its monitor.
StopRuntime(x) ==
    /\ pc[x] = "stop"
    /\ IF ffmpeg = None
       THEN Goto(x, "stop_commit") /\ UNCHANGED <<lock, ffmpeg, ended>>
       ELSE /\ Writable(x)
            /\ lock' = Held(x, "write")
            /\ ffmpeg' = None /\ ended' = "clean"
            /\ Goto(x, "stop_wait")
    /\ UNCHANGED <<world, now, row, created, copy, asked, launched, interrupted, crashes, requested>>

\* finalize_stopped and the commit.  A stream that was waiting for its start
\* loses its schedule.
CommitStop(x) ==
    LET stopped == ClearStopSchedule([copy[x] EXCEPT !.status = "stopped"])
    IN  /\ pc[x] \in {"stop_wait", "stop_commit"}
        /\ pc[x] = "stop_wait" => ended = None
        /\ Writable(x)
        /\ Write(x, IF copy[x].status = "scheduled" THEN ClearStartSchedule(stopped) ELSE stopped)
        /\ Release(x)
        /\ Return(x)
        /\ UNCHANGED <<world, now, created, ffmpeg, ended, launched, interrupted, crashes, requested>>

AskDelete(x) ==
    /\ Asks(x)
    /\ Read(x)
    /\ Goto(x, "delete")
    /\ UNCHANGED <<world, now, row, created, lock, ffmpeg, ended, asked, launched, interrupted, crashes>>

\* ensure_stopped: the event it inserts, in this transaction, holds the row
\* against the scheduler's SELECT FOR UPDATE.
DeleteStop(x) ==
    /\ pc[x] = "delete" /\ lock = Free
    /\ lock' = Held(x, "share")
    /\ IF ffmpeg = None THEN UNCHANGED <<ffmpeg, ended>>
       ELSE ffmpeg' = None /\ ended' = "clean"
    /\ Goto(x, "delete_wait")
    /\ UNCHANGED <<world, now, row, created, copy, asked, launched, interrupted, crashes, requested>>

Delete(x) ==
    /\ pc[x] = "delete_wait" /\ ended = None
    /\ row' = None
    /\ Release(x)
    /\ Return(x)
    /\ UNCHANGED <<world, now, created, ffmpeg, ended, launched, interrupted, crashes, requested>>

-----------------------------------------------------------------------------
(* The scheduler *)

\* Mutant: only what has come since the last poll is due.
DueJustNow(t, tried) == t # None /\ t = now /\ ~tried

Due(t, tried) == t # None /\ t <= now /\ ~tried

\* launch_due_streams: a stream whose time has come, unless its row is locked.
\* The window of a one-shot schedule may have passed, and that of an occurrence
\* of a repeating one; else its start is attempted.
LaunchDue ==
    /\ pc[Launcher] = "idle" /\ row # None /\ lock = Free
    /\ row.enabled /\ Due(row.start, row.tried) /\ row.status # "running"
    /\ LET stop == IF Recurring(row) THEN OccurrenceStop(row) ELSE row.stop
           expired == stop # None /\ stop <= now
       IN  IF expired
           THEN /\ row' = ClearStopSchedule(
                    IF Recurring(row)
                    THEN [row EXCEPT !.start = NextStart(row), !.tried = FALSE, !.status = "scheduled"]
                    ELSE [ClearStartSchedule(row) EXCEPT !.status = IF @ = "scheduled" THEN "stopped" ELSE @])
                /\ UNCHANGED <<lock, pc, copy>>
           ELSE /\ row' = [row EXCEPT !.tried = TRUE]
                /\ copy' = [copy EXCEPT ![Launcher] = row']
                /\ lock' = Held(Launcher, "update")
                /\ Goto(Launcher, "start")
    /\ UNCHANGED <<world, now, created, ffmpeg, ended, asked, launched, interrupted, crashes, requested>>

\* Mutant: the stop of the launched occurrence is written, but not the start of
\* the next one.
RecordNextWithoutStart ==
    /\ pc[Launcher] = "record" /\ Writable(Launcher)
    /\ row' = IF row = None \/ row.start = None THEN row
              ELSE [row EXCEPT !.stop = OccurrenceStop(row), !.stopTried = FALSE, !.tried = FALSE]
    /\ Return(Launcher)
    /\ UNCHANGED <<world, now, created, lock, ffmpeg, ended, launched, interrupted, crashes, requested>>

\* After the launch of an occurrence, in a second transaction: its stop and the
\* start of the next one.
RecordNext ==
    LET c == copy[Launcher]
    IN  /\ pc[Launcher] = "record" /\ Writable(Launcher)
        /\ Write(Launcher, [c EXCEPT !.stop = OccurrenceStop(c), !.stopTried = FALSE,
                                     !.start = NextStart(c), !.tried = FALSE])
        /\ Return(Launcher)
        /\ UNCHANGED <<world, now, created, lock, ffmpeg, ended, launched, interrupted, crashes, requested>>

\* stop_due_streams
StopDue ==
    /\ pc[Launcher] = "idle" /\ row # None /\ lock = Free
    /\ Due(row.stop, row.stopTried) /\ row.status = "running"
    /\ row' = [row EXCEPT !.stopTried = TRUE]
    /\ copy' = [copy EXCEPT ![Launcher] = row']
    /\ lock' = Held(Launcher, "update")
    /\ Goto(Launcher, "audit")
    /\ UNCHANGED <<world, now, created, ffmpeg, ended, asked, launched, interrupted, crashes, requested>>

-----------------------------------------------------------------------------
(* FFmpeg, time and crashes *)

\* FFmpeg exits, and is not or no longer started again.
FFmpegExits ==
    /\ ffmpeg # None
    /\ ffmpeg' = None
    /\ ended' \in {"clean", "failed"}
    /\ UNCHANGED <<world, now, row, created, lock, pc, copy, asked, launched, interrupted, crashes, requested>>

\* Its monitor, which start_stream creates at its end, records that in a session
\* of its own.
Finalize ==
    /\ ended # None /\ \A x \in Sessions : pc[x] # "reset"
    /\ row # None => lock.mode \in {"free", "share"}
    /\ row' = IF row = None THEN None
              ELSE [row EXCEPT !.status = IF ended = "clean" THEN "stopped" ELSE "error",
                               !.failed = ended = "failed"]
    /\ ended' = None
    /\ UNCHANGED <<world, now, created, lock, ffmpeg, pc, copy, asked, launched, interrupted, crashes, requested>>

HourPasses ==
    /\ now < world.horizon
    /\ now' = now + 1
    /\ row' = IF row = None THEN None ELSE [row EXCEPT !.tried = FALSE, !.stopTried = FALSE]
    /\ UNCHANGED <<world, created, lock, ffmpeg, ended, pc, copy, asked, launched, interrupted, crashes, requested>>

\* FFmpeg dies with the backend; nothing reconciles the row in manager mode.
Crash ==
    /\ crashes < MaxCrashes
    /\ crashes' = crashes + 1
    /\ interrupted' = (interrupted \/ pc[Launcher] = "record")
    /\ pc' = [x \in Sessions |-> "idle"]
    /\ copy' = [x \in Sessions |-> None]
    /\ asked' = [x \in Sessions |-> None]
    /\ lock' = Free /\ ffmpeg' = None /\ ended' = None
    /\ UNCHANGED <<world, now, row, created, launched, requested>>

StartSteps(x) == RefuseStart(x) \/ Spawn(x) \/ ResetCounter(x) \/ CommitStart(x)
StopSteps(x) == RecordStopRequest(x) \/ StopRuntime(x) \/ CommitStop(x)

LauncherStep ==
    \/ LaunchDue \/ RecordNext \/ StopDue
    \/ StartSteps(Launcher) \/ StopSteps(Launcher)

RequestStep(x) ==
    \/ Update(x) \/ StartSteps(x) \/ StopSteps(x) \/ DeleteStop(x) \/ Delete(x)

Ask(x) ==
    \/ \E p \in world.payloads : Create(x, p) \/ AskUpdate(x, p)
    \/ AskStart(x) \/ AskStop(x) \/ AskDelete(x)

Next ==
    \/ LauncherStep
    \/ \E x \in Requests : Ask(x) \/ RequestStep(x)
    \/ FFmpegExits \/ Finalize \/ HourPasses \/ Crash

Spec == Init /\ [][Next]_vars

\* The event loop runs every task that can go on, and the locks are granted;
\* time passes.
FairSpec ==
    /\ Spec
    /\ WF_vars(LauncherStep)
    /\ \A x \in Requests : WF_vars(RequestStep(x))
    /\ WF_vars(Finalize)
    /\ WF_vars(HourPasses)

-----------------------------------------------------------------------------
(* Properties *)

CopiedPicture == ffmpeg.picture = "videos" /\ ffmpeg.copyVideo
VideoOf(file) == PrimaryVideo(file.streams)
AudioOf(file) == FirstAudio(file.streams)
ListOf(files) == IF files = Absent THEN {} ELSE Range(files)

\* What FFmpeg sends without re-encoding is what YouTube and the concat demuxer
\* take: H.264 in yuv420p with a key frame every four seconds, with the same
\* parameters in every file of the list, sound in AAC; and no file is above the
\* user's tier.  The files were probed when they were uploaded; the gate, the
\* checks of the lists and the choice to copy are three separate pieces of code
\* (quota_quality.py, playlist_builder.py, ffmpeg_manager._build_command).
LaunchIsSound ==
    ffmpeg # None =>
      LET videos == ListOf(content.videos)  limits == content.limits
          heard == IF ffmpeg.sound = "videos" THEN videos
                   ELSE IF ffmpeg.sound = "audios" THEN ListOf(content.audios) ELSE {}
      IN  /\ ffmpeg.picture = "videos" => ffmpeg.copyVideo
          /\ CopiedPicture => \A f, g \in videos :
                /\ VideoOf(f) # Absent
                /\ VideoOf(f).codec = "h264" /\ VideoOf(f).pix = "yuv420p"
                /\ \A i \in 2..Len(f.keys) : f.keys[i] - f.keys[i - 1] <= 4
                /\ \A field \in {"width", "height", "fps"} : VideoOf(f)[field] = VideoOf(g)[field]
          /\ ffmpeg.copyAudio => /\ heard # {}
                                 /\ \A f \in heard : AudioOf(f) # Absent /\ AudioOf(f).codec = "aac"
          /\ ffmpeg.copyAudio /\ ffmpeg.sound = "videos" =>
                \A f, g \in heard : AudioOf(f).hz = AudioOf(g).hz
          /\ limits.enforce => \A f \in videos :
                /\ limits.height # 0 => VideoOf(f).height <= limits.height
                /\ limits.fps # 0 => VideoOf(f).fps <= limits.fps
                /\ limits.rate # 0 /\ VideoOf(f).rate # 0 => VideoOf(f).rate <= limits.rate

\* The launch of an occurrence and the start of the next one are committed one
\* after the other, requests come in between, and a failed attempt is repeated:
\* the occurrences are launched in their order and once each all the same, unless
\* a crash hits the launcher between the two commits (launch_due_streams).
OccurrenceLaunchedOnce ==
    [][pc[Launcher] = "started" /\ pc'[Launcher] # "started" /\ crashes' = crashes
         => launched = None \/ launched < copy[Launcher].start \/ interrupted]_vars

\* u is when the schedule of r has its turn after the occurrence at s: local clocks
\* then come for the first time to the time of day they read at s, or pass it, on
\* a later day that the schedule names.
HasTurn(u, s, r) ==
    \E reading \in (Local(u - 1) + 1)..Local(u) :
        /\ TimeOf(reading) = TimeOf(Local(s)) /\ DayOf(reading) > DayOf(Local(s))
        /\ r.repeat = "daily" \/ Weekday(DayOf(reading)) \in ResolveWeekdays(s, r.weekdays)

\* The scheduler moves a schedule that repeats to the first turn after the
\* occurrence it launched or found over, also across the changes of the clocks
\* (compute_next_repeating_start and _localize_wall_time search for it by date).
NextStartIsRight ==
    [][LET last == IF pc[Launcher] = "record" THEN copy[Launcher] ELSE row
           s == last.start  t == row'.start
       IN  /\ row # None /\ row' # None
           /\ row'.start \notin {None, row.start}
           /\ LauncherStep
           => /\ t > s /\ HasTurn(t, s, last)
              /\ \A u \in (s + 1)..(t - 1) : ~HasTurn(u, s, last)]_vars

\* The waits in which a session waits for itself (see the hazards).
SelfBlocked ==
    \/ pc[Launcher] = "audit" /\ lock = Held(Launcher, "update")
    \/ pc[Launcher] = "reset" /\ row # None /\ row.failed
    \/ \E x \in Sessions : pc[x] = "stop_wait" /\ ended # None

Overdue ==
    /\ row # None /\ Recurring(row)
    /\ OccurrenceStop(row) # None /\ OccurrenceStop(row) <= now

\* A schedule that repeats does not stay at an occurrence that is over: whatever
\* starts, stops and failed attempts came before, the scheduler moves on
\* (launch_due_streams), unless a session has come to wait for itself or a crash
\* hit the launcher between its two commits.  (Or the hour of the next attempt is
\* after the horizon.)
RecurrenceGoesOn ==
    Overdue ~> \/ ~Overdue \/ SelfBlocked \/ interrupted
               \/ (row.tried \/ row.stopTried) /\ now = world.horizon

\* Not so: a running stream whose stop has come is stopped by the scheduler
\* (stop_due_streams).
DueStreamsAreStopped ==
    LET due == row # None /\ row.status = "running" /\ row.stop # None /\ row.stop <= now
    IN  due ~> ~due

\* Not so: a request that stops a stream comes to an end.
StopsEnd ==
    \A x \in Requests : pc[x] \in {"audit", "stop", "stop_wait", "stop_commit"} ~> pc[x] = "idle"
=============================================================================

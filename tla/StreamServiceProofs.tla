------------------------ MODULE StreamServiceProofs ------------------------
(***************************************************************************)
(* Proofs about StreamService: what FFmpeg is launched with is sound,      *)
(* whatever the user's files, collections, tier and destinations, and the  *)
(* occurrences of a schedule are launched once each.                       *)
(***************************************************************************)
EXTENDS StreamService, ScheduleTimesProofs

-----------------------------------------------------------------------------
(* What the asset of a file says of the file. *)

\* The chosen video of a file is one of its video streams.
LEMMA PrimaryVideoType ==
    ASSUME NEW streams \in Seq(VideoStream \cup AudioStream), PrimaryVideo(streams) # Absent
    PROVE  PrimaryVideo(streams) \in VideoStream
<1> DEFINE real == {i \in DOMAIN streams : streams[i].type = "video" /\ ~IsCoverArt(streams[i])}
           heights == {streams[i].height : i \in real}
           tallest == {i \in real : \A j \in real : streams[j].height <= streams[i].height}
           f == [i \in real |-> streams[i].height]
<1>1. real # {} /\ PrimaryVideo(streams) = streams[Min(tallest)]
  BY DEF PrimaryVideo
<1>2. \A i \in real : streams[i] \in VideoStream /\ streams[i].height \in Nat
  BY DEF VideoStream, AudioStream
<1>3. IsFiniteSet(real) /\ real \in SUBSET Int
  <2>1. real \in SUBSET (1..Len(streams)) /\ Len(streams) \in Nat
    OBVIOUS
  <2>2. IsFiniteSet(1..Len(streams))
    BY <2>1, FS_Interval
  <2> QED
    BY <2>1, <2>2, FS_Subset
<1>4. heights # {} /\ heights \in SUBSET Int /\ IsFiniteSet(heights)
  <2>1. f \in Surjection(real, heights)
    BY DEF Surjection
  <2>2. IsFiniteSet(heights)
    BY <2>1, <1>3, FS_Surjection
  <2> QED
    BY <1>1, <1>2, <2>2
<1>5. PICK h \in heights : \A g \in heights : h >= g
  BY <1>4, GreatestExists
<1>6. tallest # {}
  <2>1. PICK i \in real : h = streams[i].height
    OBVIOUS
  <2>2. i \in tallest
    BY <1>2, <1>5, <2>1
  <2> QED
    BY <2>2
<1>7. IsFiniteSet(tallest) /\ tallest \in SUBSET Int
  BY <1>3, FS_Subset
<1>8. Min(tallest) \in real
  BY <1>6, <1>7, MinBounds
<1> QED
  BY <1>1, <1>2, <1>8

\* LongestGap bounds the time between two key frames.
LEMMA GapBound ==
    ASSUME NEW keys \in Seq(Nat), NEW i \in 2..Len(keys)
    PROVE  keys[i] - keys[i - 1] <= LongestGap(keys) /\ LongestGap(keys) \in Int
<1> DEFINE D == 1..(Len(keys) - 1)
           f == [j \in D |-> keys[j + 1] - keys[j]]
           G == {keys[j + 1] - keys[j] : j \in D}
<1>1. IsFiniteSet(D)
  BY FS_Interval
<1>2. f \in Surjection(D, G)
  BY DEF Surjection
<1>3. IsFiniteSet(G)
  BY <1>1, <1>2, FS_Surjection
<1>4. \A j \in D : keys[j + 1] - keys[j] \in Int
  OBVIOUS
<1>5. IsFiniteSet({0} \cup G) /\ {0} \cup G \in SUBSET Int /\ {0} \cup G # {}
  <2>1. G \in SUBSET Int
    BY <1>4
  <2>2. IsFiniteSet(G \cup {0}) /\ G \cup {0} = {0} \cup G
    <3> HIDE DEF G
    <3> QED
      BY <1>3, FS_AddElement
  <2>3. {0} \cup G \in SUBSET Int /\ {0} \cup G # {}
    <3> HIDE DEF G
    <3> QED
      BY <2>1
  <2> QED
    BY <2>2, <2>3
<1>6. i - 1 \in D /\ (i - 1) + 1 = i
  OBVIOUS
<1>7. keys[i] - keys[i - 1] \in {0} \cup G
  BY <1>6
<1>8. LongestGap(keys) = Max({0} \cup G)
  BY DEF LongestGap
<1> QED
  BY <1>5, <1>7, <1>8, MaxBounds

\* A file whose asset may be streamed without being re-encoded is one that may.
LEMMA CompatibleFile ==
    ASSUME NEW f \in File, AssetOf(f).compatible, AssetOf(f).video # Absent
    PROVE  /\ VideoOf(f) # Absent /\ VideoOf(f) = AssetOf(f).video
           /\ VideoOf(f).codec = "h264" /\ VideoOf(f).pix = "yuv420p"
           /\ \A i \in 2..Len(f.keys) : f.keys[i] - f.keys[i - 1] <= 4
<1>1. f.readable /\ Compatible(f) /\ VideoOf(f) = AssetOf(f).video
  BY DEF AssetOf, VideoOf
<1>2. ~IsAudioFile(f.streams)
  BY <1>1 DEF IsAudioFile, VideoOf
<1>3. /\ VideoOf(f) # Absent
      /\ VideoOf(f).codec = "h264" /\ VideoOf(f).pix = "yuv420p"
      /\ LongestGap(f.keys) <= 4
  BY <1>1, <1>2 DEF Compatible, VideoOf, MaxKeyframeInterval
<1>4. ASSUME NEW i \in 2..Len(f.keys) PROVE f.keys[i] - f.keys[i - 1] <= 4
  <2>1. f.keys \in Seq(Nat)
    BY DEF File
  <2>2. f.keys[i] - f.keys[i - 1] <= LongestGap(f.keys) /\ LongestGap(f.keys) \in Int
    BY <2>1, GapBound
  <2>3. f.keys[i] - f.keys[i - 1] \in Int
    BY <2>1
  <2> QED
    BY <1>3, <2>2, <2>3
<1> QED
  BY <1>1, <1>3, <1>4

\* An asset with sound has the sound of its file.
LEMMA SoundOfFile ==
    ASSUME NEW f, AssetOf(f).audio # Absent
    PROVE  AudioOf(f) = AssetOf(f).audio
BY DEF AssetOf, AudioOf

\* A list of videos that passes the checks is of files that can be copied one
\* after the other.
LEMMA CheckedVideos ==
    ASSUME NEW files \in Seq(File), validate_playlist_assets(Assets(files)),
           NEW f \in Range(files), NEW g \in Range(files)
    PROVE  /\ AssetOf(f).compatible /\ AssetOf(f).video # Absent /\ AssetOf(f).audio # Absent
           /\ \A field \in {"width", "height", "fps"} : VideoOf(f)[field] = VideoOf(g)[field]
           /\ AudioOf(f).hz = AudioOf(g).hz
<1> DEFINE list == Assets(files)
<1>1. \A h \in Range(files) : AssetOf(h) \in Range(list)
  BY DEF Assets, Range
<1>2. \A a \in Range(list) : Streamable(a) /\ SameParameters(a, list[1])
  BY DEF validate_playlist_assets
<1>3. ASSUME NEW h \in Range(files)
      PROVE  /\ AssetOf(h).compatible /\ AssetOf(h).video # Absent /\ AssetOf(h).audio # Absent
             /\ VideoOf(h) = AssetOf(h).video /\ AudioOf(h) = AssetOf(h).audio
             /\ SameParameters(AssetOf(h), list[1])
  <2>1. Streamable(AssetOf(h)) /\ SameParameters(AssetOf(h), list[1])
    BY <1>1, <1>2
  <2>2. AssetOf(h).compatible /\ AssetOf(h).video # Absent /\ AssetOf(h).audio # Absent
    BY <2>1 DEF Streamable
  <2>3. h \in File
    BY DEF Range
  <2> QED
    BY <2>1, <2>2, <2>3, CompatibleFile, SoundOfFile
<1> QED
  BY <1>3 DEF SameParameters

\* Of a list whose assets all have AAC, so have the files.
LEMMA AacFiles ==
    ASSUME NEW files \in Seq(File), AllAac(Assets(files))
    PROVE  /\ Range(files) # {}
           /\ \A f \in Range(files) : AudioOf(f) # Absent /\ AudioOf(f).codec = "aac"
<1>1. Assets(files) # <<>> /\ DOMAIN Assets(files) = DOMAIN files
  BY DEF AllAac, Assets
<1>2. Range(files) # {}
  <2>1. CASE files = <<>>
    <3>1. Assets(files) = <<>>
      BY <2>1 DEF Assets
    <3> QED
      BY <1>1, <3>1
  <2>2. CASE files # <<>>
    <3>1. 1 \in DOMAIN files
      BY <2>2
    <3> QED
      BY <3>1 DEF Range
  <2> QED
    BY <2>1, <2>2
<1>3. ASSUME NEW f \in Range(files)
      PROVE  AudioOf(f) # Absent /\ AudioOf(f).codec = "aac"
  <2>1. AssetOf(f) \in Range(Assets(files))
    BY DEF Assets, Range
  <2>2. AssetOf(f).audio # Absent /\ AssetOf(f).audio.codec = "aac"
    BY <2>1 DEF AllAac
  <2> QED
    BY <2>2, SoundOfFile
<1> QED
  BY <1>2, <1>3

\* A file the quality gate passes is within the tier.
LEMMA WithinTier ==
    ASSUME NEW limits \in Limits, NEW f \in File,
           ~Incomplete(AssetOf(f)), ~VideoViolation(AssetOf(f), limits)
    PROVE  /\ limits.height # 0 => VideoOf(f).height <= limits.height
           /\ limits.fps # 0 => VideoOf(f).fps <= limits.fps
           /\ limits.rate # 0 /\ VideoOf(f).rate # 0 => VideoOf(f).rate <= limits.rate
<1> DEFINE v == VideoOf(f)
<1>1. AssetOf(f).compatible /\ AssetOf(f).video # Absent
  BY DEF Incomplete
<1>2. v # Absent /\ v = AssetOf(f).video
  BY <1>1, CompatibleFile
<1>3. v \in VideoStream
  <2>1. f.streams \in Seq(VideoStream \cup AudioStream)
    BY DEF File
  <2> QED
    BY <1>2, <2>1, PrimaryVideoType DEF VideoOf
<1>4. v.height \in Nat /\ v.fps \in Nat /\ v.rate \in Nat
  BY <1>3 DEF VideoStream
<1>5. limits.height \in Nat /\ limits.fps \in Nat /\ limits.rate \in Nat
  BY DEF Limits
<1>6. ~(limits.height # 0 /\ v.height > limits.height)
  BY <1>2 DEF VideoViolation
<1>7. ~FpsViolation(v.fps, limits)
  BY <1>2 DEF VideoViolation
<1>8. limits.fps # 0 => v.fps = 0 \/ ~(v.fps > limits.fps)
  BY <1>7 DEF FpsViolation
<1>9. v.rate # 0 => ~(limits.rate # 0 /\ v.rate > limits.rate)
  BY <1>2 DEF VideoViolation, RateViolation
<1> QED
  BY <1>4, <1>5, <1>6, <1>8, <1>9

-----------------------------------------------------------------------------
(* The launch. *)

\* The command of a launch that passes its checks is sound.
LEMMA SoundCommand ==
    ASSUME content \in Contents, Launchable(content), ffmpeg = CommandPlan(content)
    PROVE  LaunchIsSound
<1> DEFINE videos == ListOf(content.videos)
           limits == content.limits
           heard == IF ffmpeg.sound = "videos" THEN videos
                    ELSE IF ffmpeg.sound = "audios" THEN ListOf(content.audios) ELSE {}
<1>1. /\ content.videos \in Seq(File) /\ content.limits \in Limits
      /\ content.audios # Absent => content.audios \in Seq(File)
  BY DEF Contents
<1>2. content.videos # <<>> => validate_playlist_assets(Assets(content.videos))
  BY DEF Launchable, Videos
<1>3. /\ ffmpeg.picture = PictureFrom(content) /\ ffmpeg.sound = SoundFrom(content)
      /\ ffmpeg.copyVideo = (ffmpeg.picture = "videos" /\ \A a \in Range(Videos(content)) : a.compatible)
      /\ ffmpeg.copyAudio = (\/ ffmpeg.sound = "audios" /\ AllAac(Audios(content))
                             \/ ffmpeg.sound = "videos" /\ AllAac(Videos(content)))
  BY DEF CommandPlan
<1>4. ffmpeg.picture = "videos" => content.videos # <<>>
  BY <1>3 DEF PictureFrom
<1>5. videos \in SUBSET Range(content.videos)
  BY DEF ListOf
<1>6. ASSUME content.videos # <<>>, NEW f \in videos, NEW g \in videos
      PROVE  /\ AssetOf(f).compatible /\ AssetOf(f).video # Absent
             /\ \A field \in {"width", "height", "fps"} : VideoOf(f)[field] = VideoOf(g)[field]
             /\ AudioOf(f).hz = AudioOf(g).hz
  BY <1>1, <1>2, <1>5, <1>6, CheckedVideos
<1>7. ffmpeg.picture = "videos" => ffmpeg.copyVideo
  <2>1. SUFFICES ASSUME ffmpeg.picture = "videos", NEW a \in Range(Videos(content)) PROVE a.compatible
    BY <1>3
  <2>2. validate_playlist_assets(Assets(content.videos)) /\ a \in Range(Assets(content.videos))
    BY <1>2, <1>4, <2>1 DEF Videos
  <2> QED
    BY <2>2 DEF validate_playlist_assets, Streamable
<1>8. ASSUME CopiedPicture, NEW f \in videos, NEW g \in videos
      PROVE  /\ VideoOf(f) # Absent
             /\ VideoOf(f).codec = "h264" /\ VideoOf(f).pix = "yuv420p"
             /\ \A i \in 2..Len(f.keys) : f.keys[i] - f.keys[i - 1] <= 4
             /\ \A field \in {"width", "height", "fps"} : VideoOf(f)[field] = VideoOf(g)[field]
  <2>1. content.videos # <<>>
    BY <1>4, <1>8 DEF CopiedPicture
  <2>2. f \in File
    BY <1>1, <1>5 DEF Range
  <2> QED
    BY <1>6, <2>1, <2>2, CompatibleFile
<1>9. ASSUME ffmpeg.copyAudio
      PROVE  /\ heard # {}
             /\ \A f \in heard : AudioOf(f) # Absent /\ AudioOf(f).codec = "aac"
             /\ ffmpeg.sound = "videos" => content.videos # <<>>
  <2>1. CASE ffmpeg.sound = "videos"
    <3>1. AllAac(Assets(content.videos)) /\ heard = Range(content.videos)
      BY <1>1, <1>3, <1>9, <2>1, LaunchChecksAssumption DEF Videos, ListOf
    <3>2. content.videos # <<>>
      BY <3>1 DEF AllAac, Assets
    <3> QED
      BY <1>1, <3>1, <3>2, AacFiles
  <2>2. CASE ffmpeg.sound = "audios"
    <3>1. AllAac(Audios(content))
      BY <1>3, <1>9, <2>2
    <3>2. content.audios # Absent /\ Audios(content) = Assets(content.audios)
      BY <3>1 DEF AllAac, Audios
    <3>3. heard = Range(content.audios)
      BY <2>2, <3>2 DEF ListOf
    <3> QED
      BY <1>1, <2>2, <3>1, <3>2, <3>3, AacFiles
  <2> QED
    BY <1>3, <1>9, <2>1, <2>2
<1>10. ASSUME limits.enforce, NEW f \in videos
       PROVE  /\ limits.height # 0 => VideoOf(f).height <= limits.height
              /\ limits.fps # 0 => VideoOf(f).fps <= limits.fps
              /\ limits.rate # 0 /\ VideoOf(f).rate # 0 => VideoOf(f).rate <= limits.rate
  <2>1. AssetOf(f) \in Range(Videos(content)) /\ f \in File
    BY <1>1, <1>5 DEF Videos, Assets, Range
  <2>2. ~Incomplete(AssetOf(f)) /\ ~VideoViolation(AssetOf(f), limits)
    BY <1>10, <2>1 DEF Launchable, QualityOk
  <2> QED
    BY <1>1, <2>1, <2>2, WithinTier
<1>11. ffmpeg.copyAudio /\ ffmpeg.sound = "videos" =>
          \A f, g \in heard : AudioOf(f).hz = AudioOf(g).hz
  BY <1>6, <1>9
<1> QED
  BY <1>7, <1>8, <1>9, <1>10, <1>11 DEF LaunchIsSound

\* FFmpeg runs with the command of the stream's content, which passed the checks.
LaunchInv ==
    /\ content \in Contents
    /\ ffmpeg # None => Launchable(content) /\ ffmpeg = CommandPlan(content)

\* Nothing has been launched at first.
LEMMA LaunchInvInit == Init => LaunchInv
BY StreamServiceAssumption DEF Init, LaunchInv, content

\* Only a launch sets what FFmpeg runs, and only from a content it has checked.
LEMMA LaunchInvStep == LaunchInv /\ [Next]_vars => LaunchInv'
<1> SUFFICES ASSUME LaunchInv, [Next]_vars PROVE LaunchInv'
  OBVIOUS
<1>1. content' = content
  BY DEF Next, LauncherStep, RequestStep, Ask, StartSteps, StopSteps, Create, AskUpdate, Update,
         AskStart, RefuseStart, Spawn, ResetCounter, CommitStart, AskStop, RecordStopRequest,
         StopRuntime, CommitStop, AskDelete, DeleteStop, Delete, LaunchDue, RecordNext, StopDue,
         FFmpegExits, Finalize, HourPasses, Crash, vars, content
<1>2. \/ ffmpeg' \in {ffmpeg, None}
      \/ Launchable(content) /\ ffmpeg' = CommandPlan(content)
  BY DEF Next, LauncherStep, RequestStep, Ask, StartSteps, StopSteps, Create, AskUpdate, Update,
         AskStart, RefuseStart, Spawn, ResetCounter, CommitStart, AskStop, RecordStopRequest,
         StopRuntime, CommitStop, AskDelete, DeleteStop, Delete, LaunchDue, RecordNext, StopDue,
         FFmpegExits, Finalize, HourPasses, Crash, vars
<1>3. Launchable(content)' = Launchable(content) /\ CommandPlan(content)' = CommandPlan(content)
  BY <1>1
<1> QED
  BY <1>1, <1>2, <1>3 DEF LaunchInv

\* What FFmpeg sends without re-encoding, and what it sends at all, is what
\* LaunchIsSound says, for all files, lists, tiers and destinations.
THEOREM LaunchesAreSound == Spec => []LaunchIsSound
<1>1. Init => LaunchInv
  BY LaunchInvInit
<1>2. LaunchInv /\ [Next]_vars => LaunchInv'
  BY LaunchInvStep
<1>3. LaunchInv => LaunchIsSound
  BY SoundCommand DEF LaunchInv, LaunchIsSound
<1> QED
  BY <1>1, <1>2, <1>3, PTL DEF Spec

-----------------------------------------------------------------------------
(* Rows and schedules keep their types. *)

RowOrNone == Row \cup {None}

\* A valid schedule update makes a row of the types.
LEMMA ScheduledType ==
    ASSUME NEW r \in Row, NEW p \in Payloads, p.repeat # "none" => p.start # None
    PROVE  Scheduled(r, p) \in Row
<1> DEFINE days == IF p.repeat = "weekly" THEN ResolveWeekdays(p.start, p.weekdays) ELSE {}
           stop == ComputeScheduleStop(p.start, p.stop, p.ends, p.after)
<1>1. /\ p.start \in Optional(Int) /\ p.stop \in Optional(Int)
      /\ p.ends \in Optional(0..(DayHours - 1)) /\ p.after \in Optional(Nat \ {0})
      /\ p.repeat \in {"none", "daily", "weekly"} /\ p.weekdays \in SUBSET (0..(Week - 1))
  BY DEF Payloads
<1>2. days \in SUBSET (0..(Week - 1))
  <2>1. ASSUME p.start \in Int PROVE Weekday(DayOf(Local(p.start))) \in 0..(Week - 1)
    <3>1. DayOf(Local(p.start)) \in Int
      BY <2>1, ScheduleTimesAssumption DEF DayOf, Local
    <3> QED
      BY <3>1, ScheduleTimesAssumption DEF Weekday
  <2> QED
    BY <1>1, <2>1 DEF ResolveWeekdays, Optional
<1>3. stop \in Optional(Int)
  <2>1. p.ends \in Nat \cup {None} /\ p.after \in Nat \cup {None}
    BY <1>1, ScheduleTimesAssumption DEF Optional
  <2> HIDE DEF stop
  <2> QED
    BY <1>1, <2>1, StopType DEF Optional, stop
<1> HIDE DEF days, stop
<1> DEFINE s == IF p.mode = "schedule" /\ r.status # "running" THEN "scheduled"
                ELSE IF p.mode # "schedule" /\ r.status = "scheduled" THEN "stopped" ELSE r.status
<1>4. s \in {"scheduled", "stopped", "running", "error"}
  BY DEF Row
<1>5. Scheduled(r, p) =
        [r EXCEPT !.enabled = p.mode = "schedule", !.start = p.start, !.tried = FALSE,
                  !.repeat = p.repeat, !.weekdays = days, !.ends = p.ends, !.after = p.after,
                  !.stop = stop, !.stopTried = FALSE, !.status = s]
  BY DEF Scheduled, days, stop, Row
<1> HIDE DEF s
<1> QED
  BY <1>1, <1>2, <1>3, <1>4, <1>5 DEF Row

\* The stop and the next start of a row's occurrence are instants.
LEMMA OccurrenceType ==
    ASSUME NEW r \in Row, r.start \in Int
    PROVE  OccurrenceStop(r) \in Optional(Int) /\ NextStart(r) \in Int /\ NextStart(r) > r.start
<1>1. r.ends \in Nat \cup {None} /\ r.after \in Nat \cup {None} /\ r.weekdays \in SUBSET (0..(Week - 1))
  BY ScheduleTimesAssumption DEF Row, Optional
<1>2. OccurrenceStop(r) \in Optional(Int)
  BY <1>1, StopType DEF OccurrenceStop, Optional
<1>3. NextStart(r) \in Int /\ NextStart(r) > r.start
  BY <1>1, RecurrenceAdvances DEF NextStart
<1> QED
  BY <1>2, <1>3

\* What clearing a schedule leaves of a row.
LEMMA ClearType ==
    ASSUME NEW r \in Row
    PROVE  /\ ClearStartSchedule(r) \in Row /\ ClearStartSchedule(r).start = None
           /\ ClearStopSchedule(r) \in Row /\ ClearStopSchedule(r).start = r.start
<1>1. ClearStartSchedule(r) \in Row /\ ClearStartSchedule(r).start = None
  BY DEF ClearStartSchedule, Row, Optional
<1>2. ClearStopSchedule(r) \in Row /\ ClearStopSchedule(r).start = r.start
  BY DEF ClearStopSchedule, Row, Optional
<1> QED
  BY <1>1, <1>2

\* An UPDATE writes the new values of the columns that x changed.
LEMMA WriteType ==
    ASSUME row \in RowOrNone, NEW x, copy[x] \in Row, NEW new \in Row, Write(x, new)
    PROVE  /\ row' \in RowOrNone /\ (row = None => row' = None)
           /\ row # None => row'.start = IF new.start = copy[x].start THEN row.start ELSE new.start
<1>1. CASE row = None
  BY <1>1 DEF Write, RowOrNone
<1>2. CASE row # None
  <2> DEFINE kept(column) == IF new[column] = copy[x][column] THEN row[column] ELSE new[column]
  <2>1. row \in Row
    BY <1>2 DEF RowOrNone
  <2>2. row' = [column \in DOMAIN row |-> kept(column)]
    BY <1>2 DEF Write
  <2>3. DOMAIN row = {"status", "enabled", "start", "tried", "repeat", "weekdays", "ends",
                      "after", "stop", "stopTried", "failed"}
    BY <2>1 DEF Row
  <2>4. row' = [status |-> kept("status"), enabled |-> kept("enabled"), start |-> kept("start"),
                tried |-> kept("tried"), repeat |-> kept("repeat"), weekdays |-> kept("weekdays"),
                ends |-> kept("ends"), after |-> kept("after"), stop |-> kept("stop"),
                stopTried |-> kept("stopTried"), failed |-> kept("failed")]
    BY <2>2, <2>3
  <2>5. row' \in Row
    BY <2>1, <2>4 DEF Row
  <2> QED
    BY <1>2, <2>4, <2>5 DEF RowOrNone
<1> QED
  BY <1>1, <1>2

-----------------------------------------------------------------------------
(* Type correctness.  A session that is at work has a row, an update a      *)
(* schedule, and the launcher an occurrence.                                *)

SessionsInv ==
    /\ \A x \in Sessions :
         /\ pc[x] # "idle" => copy[x] \in Row
         /\ pc[x] = "update" =>
              asked[x] \in world.payloads /\ (asked[x].repeat # "none" => asked[x].start # None)
    /\ pc[Launcher] \in {"start", "reset", "started", "record"} => copy[Launcher].start \in Int

TypeInv == TypeOK /\ SessionsInv

\* The initial states have the types.
LEMMA TypeInvInit == Init => TypeInv
<1> SUFFICES ASSUME Init PROVE TypeInv
  OBVIOUS
<1>1. world.horizon \in Nat /\ MaxCrashes \in Nat /\ MaxAsked \in Nat /\ Launcher \in Sessions
  BY StreamServiceAssumption DEF Init, Sessions
<1>2. /\ pc \in [Sessions -> Label]
      /\ copy \in [Sessions -> Row \cup {None}]
      /\ asked \in [Sessions -> world.payloads \cup {None}]
  BY DEF Init, Label
<1>3. \A x \in Sessions : pc[x] = "idle"
  BY DEF Init
<1>4. TypeOK
  <2>1. now \in 0..world.horizon /\ crashes \in 0..MaxCrashes /\ requested \in 0..MaxAsked
    BY <1>1 DEF Init
  <2>2. lock.by \in Sessions \cup {None} /\ lock.mode \in {"free", "share", "write", "update"}
    BY DEF Init, Free
  <2>3. launched \in Optional(Int) /\ row \in Row \cup {None}
    BY DEF Init, Optional
  <2>4. world \in Worlds /\ ffmpeg = None /\ ended = None /\ created \in BOOLEAN /\ interrupted \in BOOLEAN
    BY DEF Init
  <2> QED
    BY <1>2, <2>1, <2>2, <2>3, <2>4 DEF TypeOK
<1>5. SessionsInv
  BY <1>1, <1>3 DEF SessionsInv
<1> QED
  BY <1>4, <1>5 DEF TypeInv

\* Every step of a request, the launcher, FFmpeg and the clock keeps the types.
LEMMA TypeInvStep == TypeInv /\ [Next]_vars => TypeInv'
<1> SUFFICES ASSUME TypeInv, [Next]_vars PROVE TypeInv'
  OBVIOUS
<1> USE DEF TypeInv, TypeOK, SessionsInv, Label, RowOrNone, Goto, Return, Release, Read, Free, Held
<1>0. /\ Launcher \in Sessions /\ Requests \subseteq Sessions /\ Launcher \notin Requests
      /\ MaxCrashes \in Nat /\ MaxAsked \in Nat
      /\ world.payloads \subseteq Payloads /\ world.horizon \in Nat /\ None \notin Int
  BY StreamServiceAssumption, ScheduleTimesAssumption DEF Sessions
<1>b. BlankRow \in Row
  BY DEF BlankRow, Row, Optional
<1>p. ASSUME NEW p \in world.payloads, Accepted(p) PROVE p.repeat # "none" => p.start # None
  BY <1>0, <1>p DEF Accepted, Payloads
<1>r. ASSUME NEW r \in Row
      PROVE  /\ ClearStartSchedule(r) \in Row /\ ClearStopSchedule(r) \in Row
             /\ [r EXCEPT !.failed = FALSE] \in Row /\ [r EXCEPT !.tried = TRUE] \in Row
             /\ [r EXCEPT !.tried = TRUE].start = r.start
             /\ [r EXCEPT !.stopTried = TRUE] \in Row
             /\ [r EXCEPT !.tried = FALSE, !.stopTried = FALSE] \in Row
             /\ [r EXCEPT !.status = "running"] \in Row /\ [r EXCEPT !.status = "stopped"] \in Row
             /\ [r EXCEPT !.status = IF @ = "scheduled" THEN "stopped" ELSE @] \in Row
             /\ \A e \in {"clean", "failed"} :
                  [r EXCEPT !.status = IF e = "clean" THEN "stopped" ELSE "error",
                            !.failed = e = "failed"] \in Row
  <2>1. ClearStartSchedule(r) \in Row /\ ClearStopSchedule(r) \in Row
    BY <1>r DEF ClearStartSchedule, ClearStopSchedule, Row, Optional
  <2>2. /\ [r EXCEPT !.failed = FALSE] \in Row /\ [r EXCEPT !.tried = TRUE] \in Row
        /\ [r EXCEPT !.tried = TRUE].start = r.start
        /\ [r EXCEPT !.stopTried = TRUE] \in Row
        /\ [r EXCEPT !.tried = FALSE, !.stopTried = FALSE] \in Row
    BY <1>r DEF Row
  <2>3. /\ [r EXCEPT !.status = "running"] \in Row /\ [r EXCEPT !.status = "stopped"] \in Row
        /\ [r EXCEPT !.status = IF @ = "scheduled" THEN "stopped" ELSE @] \in Row
    BY <1>r DEF Row
  <2>4. ASSUME NEW e \in {"clean", "failed"}
        PROVE  [r EXCEPT !.status = IF e = "clean" THEN "stopped" ELSE "error",
                         !.failed = e = "failed"] \in Row
    BY <1>r DEF Row
  <2> QED
    BY <2>1, <2>2, <2>3, <2>4
<1>s. ASSUME NEW r \in Row, NEW t \in Int, NEW u \in Optional(Int)
      PROVE  /\ [r EXCEPT !.start = t, !.tried = FALSE, !.status = "scheduled"] \in Row
             /\ [r EXCEPT !.stop = u, !.stopTried = FALSE, !.start = t, !.tried = FALSE] \in Row
  BY <1>s DEF Row, Optional
<1>1. ASSUME NEW x \in Requests, NEW p \in world.payloads, Create(x, p) PROVE TypeInv'
  <2>1. Scheduled(BlankRow, p) \in Row
    BY <1>0, <1>b, <1>p, <1>1, ScheduledType DEF Create
  <2> QED
    BY <1>0, <1>1, <2>1 DEF Create, content
<1>2. ASSUME NEW x \in Requests, NEW p \in world.payloads, AskUpdate(x, p) PROVE TypeInv'
  <2>1. (p.repeat # "none" => p.start # None) /\ row \in Row /\ requested' \in 0..MaxAsked
    BY <1>0, <1>2, <1>p DEF AskUpdate, Asks
  <2> QED
    BY <1>0, <1>2, <2>1 DEF AskUpdate, Asks, content
<1>3. ASSUME NEW x \in Requests, Update(x) PROVE TypeInv'
  <2>1. Scheduled(copy[x], asked[x]) \in Row /\ copy[x] \in Row
    BY <1>0, <1>3, ScheduledType DEF Update
  <2>2. row' \in RowOrNone
    BY <1>3, <2>1, WriteType DEF Update
  <2> QED
    BY <1>0, <1>3, <2>2 DEF Update, content, Optional
<1>4. ASSUME NEW x \in Requests, AskStart(x) \/ AskStop(x) \/ AskDelete(x) PROVE TypeInv'
  <2>1. row \in Row /\ requested' \in 0..MaxAsked
    BY <1>0, <1>4 DEF AskStart, AskStop, AskDelete, Asks
  <2> QED
    BY <1>0, <1>4, <2>1 DEF AskStart, AskStop, AskDelete, Asks, content
<1>5. ASSUME NEW x \in Sessions, RefuseStart(x) \/ Spawn(x) PROVE TypeInv'
  BY <1>0, <1>5 DEF RefuseStart, Spawn, content
<1>6. ASSUME NEW x \in Sessions, ResetCounter(x) PROVE TypeInv'
  <2>1. row' \in RowOrNone
    BY <1>6, <1>r DEF ResetCounter
  <2> QED
    BY <1>0, <1>6, <2>1 DEF ResetCounter, content
<1>7. ASSUME NEW x \in Sessions, CommitStart(x) PROVE TypeInv'
  <2> DEFINE running == [copy[x] EXCEPT !.status = "running"]
             preserve == x = Launcher /\ Recurring(copy[x])
  <2>1. copy[x] \in Row /\ running \in Row /\ ClearStartSchedule(running) \in Row
    BY <1>7, <1>r DEF CommitStart
  <2>2. row' \in RowOrNone
    <3>1. Write(x, IF preserve THEN running ELSE ClearStartSchedule(running))
      BY <1>7 DEF CommitStart
    <3> HIDE DEF running, preserve
    <3> QED
      BY <2>1, <3>1, WriteType
  <2>3. running.start = copy[x].start
    BY <2>1 DEF Row
  <2>4. launched' \in Optional(Int)
    BY <1>0, <1>7 DEF CommitStart, Optional
  <2>5. CASE preserve
    <3>1. copy' = [copy EXCEPT ![x] = running] /\ pc' = [pc EXCEPT ![x] = "record"] /\ asked' = asked
      BY <1>7, <2>5 DEF CommitStart
    <3> HIDE DEF running
    <3> QED
      BY <1>0, <1>7, <2>1, <2>2, <2>3, <2>4, <3>1 DEF CommitStart, content
  <2>6. CASE ~preserve
    <3>1. Return(x)
      BY <1>7, <2>6 DEF CommitStart
    <3> QED
      BY <1>0, <1>7, <2>2, <2>4, <3>1 DEF CommitStart, content
  <2> QED
    BY <2>5, <2>6
<1>8. ASSUME NEW x \in Sessions, RecordStopRequest(x) \/ StopRuntime(x) PROVE TypeInv'
  BY <1>0, <1>8 DEF RecordStopRequest, StopRuntime, content
<1>9. ASSUME NEW x \in Sessions, CommitStop(x) PROVE TypeInv'
  <2> DEFINE stopped == ClearStopSchedule([copy[x] EXCEPT !.status = "stopped"])
             new == IF copy[x].status = "scheduled" THEN ClearStartSchedule(stopped) ELSE stopped
  <2>1. copy[x] \in Row
    BY <1>9 DEF CommitStop
  <2>2. new \in Row
    BY <2>1, <1>r
  <2>3. Write(x, new)
    BY <1>9 DEF CommitStop
  <2>4. row' \in RowOrNone
    <3> HIDE DEF new
    <3> QED
      BY <2>1, <2>2, <2>3, WriteType
  <2> QED
    BY <1>0, <1>9, <2>4 DEF CommitStop, content
<1>10. ASSUME NEW x \in Requests, DeleteStop(x) \/ Delete(x) PROVE TypeInv'
  BY <1>0, <1>10 DEF DeleteStop, Delete, content
<1>11. CASE LaunchDue
  <2>1. row \in Row /\ row.start \in Int
    BY <1>11 DEF LaunchDue, Due, Row, Optional
  <2>2. OccurrenceStop(row) \in Optional(Int) /\ NextStart(row) \in Int
    BY <2>1, OccurrenceType
  <2> DEFINE next == [row EXCEPT !.start = NextStart(row), !.tried = FALSE, !.status = "scheduled"]
             over == [ClearStartSchedule(row) EXCEPT !.status = IF @ = "scheduled" THEN "stopped" ELSE @]
  <2>3. next \in Row
    BY <2>1, <2>2, <1>s
  <2>4. over \in Row
    BY <2>1, <1>r
  <2>5. CASE /\ row' = ClearStopSchedule(IF Recurring(row) THEN next ELSE over)
             /\ UNCHANGED <<lock, pc, copy>>
    <3>1. row' \in Row
      <4> HIDE DEF next, over
      <4> QED
        BY <2>3, <2>4, <2>5, <1>r
    <3> QED
      BY <1>0, <1>11, <2>5, <3>1 DEF LaunchDue, content
  <2>6. CASE /\ row' = [row EXCEPT !.tried = TRUE]
             /\ copy' = [copy EXCEPT ![Launcher] = row']
             /\ lock' = Held(Launcher, "update")
             /\ Goto(Launcher, "start")
    <3>1. row' \in Row /\ row'.start \in Int
      BY <2>1, <2>6, <1>r
    <3> QED
      BY <1>0, <1>11, <2>6, <3>1 DEF LaunchDue, content
  <2> QED
    BY <1>11, <2>5, <2>6 DEF LaunchDue
<1>12. CASE RecordNext
  <2> DEFINE c == copy[Launcher]
             new == [c EXCEPT !.stop = OccurrenceStop(c), !.stopTried = FALSE,
                              !.start = NextStart(c), !.tried = FALSE]
  <2>1. c \in Row /\ c.start \in Int
    BY <1>0, <1>12 DEF RecordNext
  <2>2. new \in Row
    BY <2>1, OccurrenceType, <1>s
  <2>3. Write(Launcher, new)
    BY <1>12 DEF RecordNext
  <2>4. row' \in RowOrNone
    <3> HIDE DEF new
    <3> QED
      BY <2>1, <2>2, <2>3, WriteType
  <2> QED
    BY <1>0, <1>12, <2>4 DEF RecordNext, content
<1>13. CASE StopDue
  <2>1. row \in Row /\ row' \in Row
    BY <1>13, <1>r DEF StopDue
  <2> QED
    BY <1>0, <1>13, <2>1 DEF StopDue, content
<1>14. CASE FFmpegExits
  BY <1>0, <1>14 DEF FFmpegExits, content
<1>15. CASE Finalize
  <2>1. row' \in RowOrNone
    BY <1>15, <1>r DEF Finalize
  <2> QED
    BY <1>0, <1>15, <2>1 DEF Finalize, content
<1>16. CASE HourPasses
  <2>1. row' \in RowOrNone
    BY <1>16, <1>r DEF HourPasses
  <2> QED
    BY <1>0, <1>16, <2>1 DEF HourPasses, content
<1>17. CASE Crash
  BY <1>0, <1>17 DEF Crash, content
<1>18. CASE UNCHANGED vars
  BY <1>18 DEF vars, content
<1> QED
  BY <1>0, <1>1, <1>2, <1>3, <1>4, <1>5, <1>6, <1>7, <1>8, <1>9, <1>10, <1>11, <1>12, <1>13,
     <1>14, <1>15, <1>16, <1>17, <1>18
     DEF Next, LauncherStep, RequestStep, Ask, StartSteps, StopSteps

\* The variables keep their types, for all worlds and any number of requests.
THEOREM TypeCorrect == Spec => []TypeOK
<1>1. TypeInv => TypeOK
  BY DEF TypeInv
<1> QED
  BY <1>1, TypeInvInit, TypeInvStep, PTL DEF Spec

-----------------------------------------------------------------------------
(* Occurrences are launched in their order and once each.  Outside the time *)
(* between its two commits the launcher leaves the next start in the row    *)
(* after the occurrence it launched last.                                   *)

Counts == launched # None /\ ~interrupted

NextIsLater == row # None /\ row.start # None => row.start > launched

OnceInv ==
    /\ ~created => row = None /\ launched = None /\ pc[Launcher] = "idle"
    /\ Counts => IF pc[Launcher] = "record" THEN launched = copy[Launcher].start ELSE NextIsLater
    /\ Counts /\ pc[Launcher] \in {"start", "reset", "started"} => copy[Launcher].start > launched

\* A write that sets no start but clears it, or leaves it, keeps the next start
\* after the last launch.
LEMMA WriteKeepsOrder ==
    ASSUME row \in RowOrNone, NEW x, copy[x] \in Row, NEW new \in Row, Write(x, new),
           new.start \in {copy[x].start, None}, NextIsLater, launched' = launched
    PROVE  NextIsLater'
BY WriteType DEF NextIsLater, RowOrNone

\* No occurrence has been launched at first.
LEMMA OnceInvInit == Init => OnceInv
<1> SUFFICES ASSUME Init PROVE OnceInv
  OBVIOUS
<1>1. pc[Launcher] = "idle"
  BY DEF Init, Sessions
<1> QED
  BY <1>1 DEF Init, OnceInv, Counts

\* Every step keeps the order: a start that is written is later than the last
\* occurrence launched, or belongs to a schedule that begins anew.
LEMMA OnceInvStep == TypeInv /\ OnceInv /\ [Next]_vars => OnceInv'
<1> SUFFICES ASSUME TypeInv, OnceInv, [Next]_vars PROVE OnceInv'
  OBVIOUS
<1> USE DEF OnceInv, Counts, Goto, Return, Read
<1>0. /\ Launcher \in Sessions /\ Requests \subseteq Sessions /\ Launcher \notin Requests
      /\ None \notin Int
  BY StreamServiceAssumption, ScheduleTimesAssumption DEF Sessions
<1>t. /\ row \in RowOrNone /\ pc \in [Sessions -> Label] /\ copy \in [Sessions -> RowOrNone]
      /\ \A x \in Sessions : pc[x] # "idle" => copy[x] \in Row
      /\ pc[Launcher] \in {"start", "reset", "started", "record"} => copy[Launcher].start \in Int
      /\ launched \in Int \cup {None}
  BY DEF TypeInv, TypeOK, SessionsInv, RowOrNone, Optional
\* A request that does not write the row.
<1>q. ASSUME NEW x \in Requests, UNCHANGED <<row, created, launched, interrupted>>,
             pc' = [pc EXCEPT ![x] = pc'[x]], copy' = [copy EXCEPT ![x] = copy'[x]]
      PROVE  OnceInv'
  BY <1>0, <1>q, <1>t DEF NextIsLater
<1>1. ASSUME NEW x \in Requests, NEW p \in world.payloads, Create(x, p) PROVE OnceInv'
  BY <1>1 DEF Create
<1>2. ASSUME NEW x \in Requests, NEW p \in world.payloads, AskUpdate(x, p) PROVE OnceInv'
  BY <1>0, <1>2, <1>q, <1>t DEF AskUpdate
<1>3. ASSUME NEW x \in Requests, Update(x) PROVE OnceInv'
  <2>1. launched' = None /\ pc'[Launcher] = pc[Launcher] /\ created' = created
    BY <1>0, <1>3, <1>t DEF Update
  <2>2. row = None => row' = None
    BY <1>3 DEF Update, Write
  <2> QED
    BY <2>1, <2>2
<1>4. ASSUME NEW x \in Requests, AskStart(x) \/ AskStop(x) \/ AskDelete(x) PROVE OnceInv'
  BY <1>0, <1>4, <1>q, <1>t DEF AskStart, AskStop, AskDelete
<1>5. ASSUME NEW x \in Sessions, RefuseStart(x) \/ Spawn(x) PROVE OnceInv'
  BY <1>0, <1>5, <1>t DEF RefuseStart, Spawn, NextIsLater
<1>6. ASSUME NEW x \in Sessions, ResetCounter(x) PROVE OnceInv'
  <2>1. (row = None <=> row' = None) \/ row # None
    BY <1>6 DEF ResetCounter
  <2>2. row # None /\ row' # None => row'.start = row.start
    BY <1>6, <1>t DEF ResetCounter, RowOrNone, Row
  <2>3. row = None => row' = None
    BY <1>6 DEF ResetCounter
  <2> QED
    BY <1>0, <1>6, <1>t, <2>2, <2>3 DEF ResetCounter, NextIsLater
<1>7. ASSUME NEW x \in Sessions, CommitStart(x) PROVE OnceInv'
  <2> DEFINE running == [copy[x] EXCEPT !.status = "running"]
             preserve == x = Launcher /\ Recurring(copy[x])
             new == IF preserve THEN running ELSE ClearStartSchedule(running)
  <2>1. copy[x] \in Row /\ pc[x] = "started" /\ created' = created /\ interrupted' = interrupted
    BY <1>7, <1>t DEF CommitStart
  <2>2. running \in Row /\ running.start = copy[x].start
    BY <2>1 DEF Row
  <2>3. new \in Row /\ new.start = IF preserve THEN copy[x].start ELSE None
    <3> HIDE DEF running, preserve
    <3> QED
      BY <2>2, ClearType
  <2>4. Write(x, new)
    BY <1>7 DEF CommitStart
  <2>5. row = None => row' = None
    BY <2>4 DEF Write
  <2>6. CASE x # Launcher
    <3>1. launched' = launched /\ pc'[Launcher] = pc[Launcher] /\ copy'[Launcher] = copy[Launcher]
      BY <1>0, <1>7, <1>t, <2>6 DEF CommitStart
    <3>2. new.start = None
      BY <2>3, <2>6
    <3>3. NextIsLater => NextIsLater'
      <4> HIDE DEF new
      <4> QED
        BY <1>t, <2>1, <2>3, <2>4, <3>1, <3>2, WriteKeepsOrder
    <3> QED
      BY <2>1, <2>5, <3>1, <3>3
  <2>7. CASE x = Launcher
    <3>1. launched' = copy[x].start /\ copy[x].start \in Int /\ created
      BY <1>7, <1>t, <2>1, <2>7 DEF CommitStart
    <3>2. CASE preserve
      <4>1. pc'[Launcher] = "record" /\ copy'[Launcher] = running
        BY <1>0, <1>7, <1>t, <2>7, <3>2 DEF CommitStart
      <4> QED
        BY <2>1, <2>2, <3>1, <4>1
    <3>3. CASE ~preserve
      <4>1. pc'[Launcher] = "idle"
        BY <1>0, <1>7, <1>t, <2>7, <3>3 DEF CommitStart
      <4>2. new.start # copy[x].start /\ new.start = None
        BY <1>0, <2>3, <3>1, <3>3
      <4>3. row' = None \/ row'.start = None
        <5> HIDE DEF new
        <5> QED
          BY <1>t, <2>1, <2>3, <2>4, <2>5, <4>2, WriteType
      <4> QED
        BY <2>1, <3>1, <4>1, <4>3 DEF NextIsLater
    <3> QED
      BY <3>2, <3>3
  <2> QED
    BY <2>6, <2>7
<1>8. ASSUME NEW x \in Sessions, RecordStopRequest(x) \/ StopRuntime(x) PROVE OnceInv'
  <2>1. pc[x] \in {"audit", "stop"} /\ pc'[x] \in {"stop", "stop_wait", "stop_commit"}
    BY <1>8, <1>t DEF RecordStopRequest, StopRuntime
  <2>2. pc' = [pc EXCEPT ![x] = pc'[x]] /\ UNCHANGED <<row, created, launched, interrupted, copy>>
    BY <1>8, <1>t DEF RecordStopRequest, StopRuntime
  <2> QED
    BY <1>0, <1>t, <2>1, <2>2 DEF NextIsLater
<1>9. ASSUME NEW x \in Sessions, CommitStop(x) PROVE OnceInv'
  <2> DEFINE stopped == ClearStopSchedule([copy[x] EXCEPT !.status = "stopped"])
             new == IF copy[x].status = "scheduled" THEN ClearStartSchedule(stopped) ELSE stopped
  <2>1. /\ copy[x] \in Row /\ pc[x] \in {"stop_wait", "stop_commit"} /\ pc'[x] = "idle"
        /\ UNCHANGED <<created, launched, interrupted>>
        /\ pc' = [pc EXCEPT ![x] = "idle"] /\ copy' = [copy EXCEPT ![x] = None]
    BY <1>9, <1>t DEF CommitStop
  <2>2. stopped \in Row /\ stopped.start = copy[x].start
    <3>1. [copy[x] EXCEPT !.status = "stopped"] \in Row /\ [copy[x] EXCEPT !.status = "stopped"].start = copy[x].start
      BY <2>1 DEF Row
    <3> QED
      BY <3>1, ClearType
  <2>3. new \in Row /\ new.start \in {copy[x].start, None}
    <3> HIDE DEF stopped
    <3> QED
      BY <2>2, ClearType
  <2>4. Write(x, new)
    BY <1>9 DEF CommitStop
  <2>5. (row = None => row' = None) /\ (NextIsLater => NextIsLater')
    <3> HIDE DEF new
    <3> QED
      BY <1>t, <2>1, <2>3, <2>4, WriteType, WriteKeepsOrder
  <2>6. x = Launcher \/ (pc'[Launcher] = pc[Launcher] /\ copy'[Launcher] = copy[Launcher])
    BY <1>0, <1>t, <2>1
  <2> QED
    BY <1>0, <1>t, <2>1, <2>5, <2>6
<1>10. ASSUME NEW x \in Requests, DeleteStop(x) \/ Delete(x) PROVE OnceInv'
  BY <1>0, <1>10, <1>t DEF DeleteStop, Delete, NextIsLater
<1>11. CASE LaunchDue
  <2>1. /\ row \in Row /\ row.start \in Int /\ pc[Launcher] = "idle" /\ created
        /\ UNCHANGED <<created, launched, interrupted>>
        /\ Counts => row.start > launched
    BY <1>t, <1>11 DEF LaunchDue, Due, Row, RowOrNone, Optional, NextIsLater
  <2>2. NextStart(row) \in Int /\ NextStart(row) > row.start
    BY <2>1, OccurrenceType
  <2> DEFINE next == [row EXCEPT !.start = NextStart(row), !.tried = FALSE, !.status = "scheduled"]
             over == [ClearStartSchedule(row) EXCEPT !.status = IF @ = "scheduled" THEN "stopped" ELSE @]
  <2>3. CASE /\ row' = ClearStopSchedule(IF Recurring(row) THEN next ELSE over)
             /\ UNCHANGED <<lock, pc, copy>>
    <3>1. row'.start \in {NextStart(row), None}
      BY <2>1, <2>3 DEF ClearStopSchedule, ClearStartSchedule, Row
    <3>2. Counts' => row'.start = None \/ row'.start > launched
      BY <1>t, <2>1, <2>2, <3>1
    <3> QED
      BY <2>1, <2>3, <3>2 DEF NextIsLater
  <2>4. CASE /\ row' = [row EXCEPT !.tried = TRUE]
             /\ copy' = [copy EXCEPT ![Launcher] = row']
             /\ lock' = Held(Launcher, "update")
             /\ Goto(Launcher, "start")
    <3>1. row'.start = row.start /\ copy'[Launcher] = row' /\ pc'[Launcher] = "start"
      BY <1>0, <1>t, <2>1, <2>4 DEF Row
    <3> QED
      BY <2>1, <3>1 DEF NextIsLater
  <2> QED
    BY <1>11, <2>3, <2>4 DEF LaunchDue
<1>12. CASE RecordNext
  <2> DEFINE c == copy[Launcher]
             new == [c EXCEPT !.stop = OccurrenceStop(c), !.stopTried = FALSE,
                              !.start = NextStart(c), !.tried = FALSE]
  <2>1. /\ c \in Row /\ c.start \in Int /\ pc[Launcher] = "record" /\ pc'[Launcher] = "idle"
        /\ UNCHANGED <<created, launched, interrupted>>
    BY <1>0, <1>t, <1>12 DEF RecordNext
  <2>2. OccurrenceStop(c) \in Optional(Int) /\ NextStart(c) \in Int /\ NextStart(c) > c.start
    BY <2>1, OccurrenceType
  <2>3. new \in Row /\ new.start = NextStart(c)
    BY <2>1, <2>2 DEF Row, Optional
  <2>4. Write(Launcher, new)
    BY <1>12 DEF RecordNext
  <2>5. (row = None => row' = None) /\ (row # None => row'.start = NextStart(c))
    <3>1. new.start # copy[Launcher].start
      BY <2>1, <2>2, <2>3
    <3> HIDE DEF new
    <3> QED
      BY <1>t, <2>1, <2>3, <2>4, <3>1, WriteType
  <2> QED
    BY <1>t, <2>1, <2>2, <2>5 DEF NextIsLater
<1>13. CASE StopDue
  <2>1. /\ row \in Row /\ row'.start = row.start /\ pc[Launcher] = "idle" /\ created
        /\ UNCHANGED <<created, launched, interrupted>> /\ pc'[Launcher] = "audit"
    BY <1>0, <1>t, <1>13 DEF StopDue, RowOrNone, Row
  <2> QED
    BY <2>1, <1>13 DEF StopDue, NextIsLater
<1>14. CASE FFmpegExits
  BY <1>14 DEF FFmpegExits, NextIsLater
<1>15. CASE Finalize \/ HourPasses
  <2>1. (row = None => row' = None) /\ (row # None => row'.start = row.start)
    BY <1>t, <1>15 DEF Finalize, HourPasses, RowOrNone, Row
  <2>2. UNCHANGED <<created, launched, interrupted, pc, copy>>
    BY <1>15 DEF Finalize, HourPasses
  <2> QED
    BY <2>1, <2>2 DEF NextIsLater
<1>16. CASE Crash
  <2>1. pc'[Launcher] = "idle"
    BY <1>0, <1>16 DEF Crash
  <2> QED
    BY <1>16, <2>1 DEF Crash, NextIsLater
<1>17. CASE UNCHANGED vars
  BY <1>17 DEF vars, NextIsLater
<1> QED
  BY <1>0, <1>1, <1>2, <1>3, <1>4, <1>5, <1>6, <1>7, <1>8, <1>9, <1>10, <1>11, <1>12, <1>13,
     <1>14, <1>15, <1>16, <1>17
     DEF Next, LauncherStep, RequestStep, Ask, StartSteps, StopSteps

\* The scheduler launches the occurrences of a schedule in their order and once
\* each, whatever requests come between its two commits, for all schedules and
\* changes of the clocks, unless a crash hits it between the two.
THEOREM OnceEach == Spec => OccurrenceLaunchedOnce
<1> DEFINE A == pc[Launcher] = "started" /\ pc'[Launcher] # "started" /\ crashes' = crashes
                  => launched = None \/ launched < copy[Launcher].start \/ interrupted
<1>1. TypeInv /\ OnceInv /\ [Next]_vars => [A]_vars
  <2> SUFFICES ASSUME TypeInv, OnceInv, pc[Launcher] = "started"
               PROVE  launched = None \/ launched < copy[Launcher].start \/ interrupted
    OBVIOUS
  <2>1. copy[Launcher].start \in Int /\ launched \in Int \cup {None}
    BY DEF TypeInv, TypeOK, SessionsInv, Optional
  <2> QED
    BY <2>1 DEF OnceInv, Counts
<1> QED
  BY <1>1, TypeInvInit, TypeInvStep, OnceInvInit, OnceInvStep, PTL DEF Spec, OccurrenceLaunchedOnce

-----------------------------------------------------------------------------
(* The next start of a schedule that repeats is its next turn.              *)

\* compute_next_repeating_start gives the first turn after an occurrence.
LEMMA NextTurn ==
    ASSUME NEW s \in Int, NEW r, r.weekdays \in SUBSET (0..(Week - 1))
    PROVE  LET t == ComputeNextRepeatingStart(s, r.repeat, r.weekdays)
           IN  HasTurn(t, s, r) /\ \A u \in (s + 1)..(t - 1) : ~HasTurn(u, s, r)
<1> DEFINE t == ComputeNextRepeatingStart(s, r.repeat, r.weekdays)
           time == TimeOf(Local(s))
           named(d) == /\ d > DayOf(Local(s))
                       /\ r.repeat = "daily" \/ Weekday(d) \in ResolveWeekdays(s, r.weekdays)
<1>1. \A u \in Int : Local(u) \in Int
  BY ScheduleTimesAssumption DEF Local
<1>2. time \in 0..(DayHours - 1) /\ DayOf(Local(s)) \in Int
  BY <1>1, DayAndTime, ScheduleTimesAssumption
<1>3. PICK day \in Int : /\ named(day) /\ \A d \in Int : named(d) => day =< d
                         /\ t = LocalizeWallTime(day, time)
  BY NextDay
<1> DEFINE n == day * DayHours + time
<1>4. n \in Int /\ DayOf(n) = day /\ TimeOf(n) = time
  <2>1. n \in Int
    BY <1>2, ScheduleTimesAssumption
  <2> HIDE DEF time
  <2> QED
    BY <1>2, <2>1, ReadingOfDay
<1> HIDE DEF t
<1>5. t \in Int /\ Local(t) >= n /\ \A u \in Int : u < t => Local(u) < n
  BY <1>2, <1>3, <1>4, WallTimeIsFirstReached
<1>6. HasTurn(t, s, r)
  <2>1. Local(t - 1) < n /\ Local(t - 1) \in Int /\ Local(t) \in Int
    BY <1>1, <1>5
  <2> HIDE DEF n
  <2>2. n \in (Local(t - 1) + 1)..Local(t)
    BY <1>4, <1>5, <2>1
  <2> QED
    BY <1>3, <1>4, <2>2 DEF HasTurn
<1>7. ASSUME NEW u \in (s + 1)..(t - 1), HasTurn(u, s, r) PROVE FALSE
  <2>1. u \in Int /\ u < t
    BY <1>5
  <2>2. Local(u) < n /\ Local(u) \in Int /\ Local(u - 1) \in Int
    BY <1>1, <1>5, <2>1
  <2>3. PICK m \in (Local(u - 1) + 1)..Local(u) : TimeOf(m) = time /\ named(DayOf(m))
    BY <1>7 DEF HasTurn
  <2> DEFINE d == DayOf(m)
  <2>4. m \in Int /\ m =< Local(u)
    BY <2>2
  <2>5. d \in Int /\ m = d * DayHours + time
    BY <2>3, <2>4, DayAndTime
  <2>6. day =< d
    BY <1>3, <2>3, <2>5
  <2>7. day * DayHours =< d * DayHours
    BY <2>5, <2>6, DaysInOrder
  <2> DEFINE p == day * DayHours
             q == d * DayHours
  <2>8. p \in Int /\ q \in Int /\ p =< q /\ n = p + time /\ m = q + time
    BY <2>5, <2>7, ScheduleTimesAssumption
  <2> HIDE DEF p, q, n, d
  <2> QED
    BY <1>2, <1>4, <2>2, <2>4, <2>8
<1> QED
  BY <1>6, <1>7 DEF t

\* The scheduler moves a repeating schedule to its first turn after the occurrence
\* it launched or found over, for days and weeks of any length, changes of the
\* clocks at any hour and whatever requests wrote in between.
THEOREM NextStartsAreRight == Spec => NextStartIsRight
<1> DEFINE last == IF pc[Launcher] = "record" THEN copy[Launcher] ELSE row
           s == last.start
           t == row'.start
           moved == /\ row # None /\ row' # None
                    /\ row'.start \notin {None, row.start}
                    /\ LauncherStep
           right == /\ t > s /\ HasTurn(t, s, last)
                    /\ \A u \in (s + 1)..(t - 1) : ~HasTurn(u, s, last)
<1>1. TypeInv /\ [Next]_vars => [moved => right]_vars
  <2> SUFFICES ASSUME TypeInv, moved PROVE right
    OBVIOUS
  <2>0. Launcher \in Sessions /\ None \notin Int
    BY ScheduleTimesAssumption DEF Sessions
  <2>t. /\ row \in Row /\ row \in RowOrNone
        /\ \A x \in Sessions : pc[x] # "idle" => copy[x] \in Row
        /\ pc \in [Sessions -> Label]
        /\ pc[Launcher] = "record" => copy[Launcher].start \in Int
    BY DEF TypeInv, TypeOK, SessionsInv, RowOrNone
  \* What the next start is right for.
  <2>r. ASSUME last \in Row, s \in Int, t = NextStart(last) PROVE right
    <3>1. last.weekdays \in SUBSET (0..(Week - 1))
      BY <2>r DEF Row
    <3>2. NextStart(last) > s
      BY <2>r, OccurrenceType
    <3>3. /\ HasTurn(NextStart(last), s, last)
          /\ \A u \in (s + 1)..(NextStart(last) - 1) : ~HasTurn(u, s, last)
      <4> HIDE DEF last
      <4> QED
        BY <2>r, <3>1, NextTurn DEF NextStart
    <3> QED
      BY <2>r, <3>2, <3>3
  \* A write of another new row changes no start but to none.
  <2>w. ASSUME NEW x, copy[x] \in Row, NEW new \in Row, Write(x, new),
               new.start \in {copy[x].start, None}
        PROVE  FALSE
    BY <2>t, <2>w, WriteType
  <2>1. CASE LaunchDue
    <3> DEFINE next == [row EXCEPT !.start = NextStart(row), !.tried = FALSE, !.status = "scheduled"]
               over == [ClearStartSchedule(row) EXCEPT !.status = IF @ = "scheduled" THEN "stopped" ELSE @]
    <3>1. pc[Launcher] = "idle" /\ row.start \in Int /\ last = row
      BY <2>1, <2>t DEF LaunchDue, Due, Row, Optional
    <3>2. \/ row' = ClearStopSchedule(IF Recurring(row) THEN next ELSE over)
          \/ row' = [row EXCEPT !.tried = TRUE]
      BY <2>1 DEF LaunchDue
    <3>3. row'.start \in {NextStart(row), None, row.start}
      BY <2>t, <3>2 DEF ClearStopSchedule, ClearStartSchedule, Row
    <3>4. t = NextStart(row)
      BY <3>3
    <3> QED
      BY <2>r, <2>t, <3>1, <3>4
  <2>2. CASE RecordNext
    <3> DEFINE c == copy[Launcher]
               new == [c EXCEPT !.stop = OccurrenceStop(c), !.stopTried = FALSE,
                                !.start = NextStart(c), !.tried = FALSE]
    <3>1. pc[Launcher] = "record" /\ c \in Row /\ c.start \in Int /\ last = c
      BY <2>0, <2>2, <2>t DEF RecordNext
    <3>2. OccurrenceStop(c) \in Optional(Int) /\ NextStart(c) \in Int
      BY <3>1, OccurrenceType
    <3>3. new \in Row /\ new.start = NextStart(c)
      BY <3>1, <3>2 DEF Row, Optional
    <3>4. Write(Launcher, new)
      BY <2>2 DEF RecordNext
    <3>5. t = NextStart(c)
      <4> HIDE DEF new, c
      <4>1. row'.start = IF new.start = copy[Launcher].start THEN row.start ELSE new.start
        BY <2>t, <3>1, <3>3, <3>4, WriteType DEF c
      <4> QED
        BY <3>3, <4>1
    <3> QED
      BY <2>r, <3>1, <3>5
  <2>3. CASE StopDue
    BY <2>3, <2>t DEF StopDue, Row
  <2>4. CASE CommitStart(Launcher)
    <3> DEFINE running == [copy[Launcher] EXCEPT !.status = "running"]
               preserve == Recurring(copy[Launcher])
               new == IF preserve THEN running ELSE ClearStartSchedule(running)
    <3>1. copy[Launcher] \in Row
      BY <2>0, <2>4, <2>t DEF CommitStart
    <3>2. running \in Row /\ running.start = copy[Launcher].start
      BY <3>1 DEF Row
    <3>3. new \in Row /\ new.start \in {copy[Launcher].start, None}
      <4> HIDE DEF running, preserve
      <4> QED
        BY <3>2, ClearType
    <3>4. Write(Launcher, new)
      BY <2>4 DEF CommitStart
    <3> HIDE DEF new
    <3> QED
      BY <2>w, <3>1, <3>3, <3>4
  <2>5. CASE CommitStop(Launcher)
    <3> DEFINE stopped == ClearStopSchedule([copy[Launcher] EXCEPT !.status = "stopped"])
               new == IF copy[Launcher].status = "scheduled" THEN ClearStartSchedule(stopped) ELSE stopped
    <3>1. copy[Launcher] \in Row
      BY <2>0, <2>5, <2>t DEF CommitStop
    <3>2. stopped \in Row /\ stopped.start = copy[Launcher].start
      <4>1. /\ [copy[Launcher] EXCEPT !.status = "stopped"] \in Row
            /\ [copy[Launcher] EXCEPT !.status = "stopped"].start = copy[Launcher].start
        BY <3>1 DEF Row
      <4> QED
        BY <4>1, ClearType
    <3>3. new \in Row /\ new.start \in {copy[Launcher].start, None}
      <4> HIDE DEF stopped
      <4> QED
        BY <3>2, ClearType
    <3>4. Write(Launcher, new)
      BY <2>5 DEF CommitStop
    <3> HIDE DEF new
    <3> QED
      BY <2>w, <3>1, <3>3, <3>4
  <2>6. CASE ResetCounter(Launcher)
    BY <2>6, <2>t DEF ResetCounter, Row
  <2>7. CASE \/ RefuseStart(Launcher) \/ Spawn(Launcher)
             \/ RecordStopRequest(Launcher) \/ StopRuntime(Launcher)
    BY <2>7 DEF RefuseStart, Spawn, RecordStopRequest, StopRuntime
  <2> QED
    BY <2>1, <2>2, <2>3, <2>4, <2>5, <2>6, <2>7 DEF LauncherStep, StartSteps, StopSteps
<1> QED
  BY <1>1, TypeInvInit, TypeInvStep, PTL DEF Spec, NextStartIsRight
=============================================================================

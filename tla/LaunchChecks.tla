---------------------------- MODULE LaunchChecks ----------------------------
(***************************************************************************)
(* What decides whether a stream may be launched and how FFmpeg then       *)
(* treats its files: the probe of an uploaded file (streaming/validator.py),*)
(* the quality gate of the user's tier (core/quota_quality.py), the checks *)
(* of the lists and of the destinations (streaming/playlist_builder.py,    *)
(* services/streams/helpers.py) and the choices of the command             *)
(* (streaming/ffmpeg_manager.py, command_builder.py), all in backend/app.  *)
(*                                                                         *)
(* Rates are in kbit/s, frame rates in frames per second, and 0 stands for *)
(* a rate FFprobe does not report and for a limit a tier does not set.     *)
(***************************************************************************)
EXTENDS Naturals, Sequences, SequencesExt, FiniteSets, FiniteSetsExt

CONSTANT Absent   \* no stream of that kind, no collection, no guideline

-----------------------------------------------------------------------------
(* A file: its streams as FFprobe lists them, its overall rate, and the    *)
(* times of its key frames, none when that analysis failed.                *)

VideoStream == [type : {"video"}, art : BOOLEAN, codec : STRING, frames : Nat,
                width : Nat, height : Nat, pix : STRING, fps : Nat, rate : Nat]
AudioStream == [type : {"audio"}, codec : STRING, hz : Nat, channels : Nat, rate : Nat]
File == [readable : BOOLEAN, streams : Seq(VideoStream \cup AudioStream),
         rate : Nat, keys : Seq(Nat)]

ASSUME LaunchChecksAssumption == Absent \notin Seq(File)

\* A cover is a stream marked as one, or a single picture.
IsCoverArt(s) ==
    \/ s.art
    \/ s.codec \in {"mjpeg", "png", "bmp", "jpeg"} /\ s.fps <= 1 /\ s.frames <= 1

\* The tallest stream that is no cover, the first of equally tall ones.
PrimaryVideo(streams) ==
    LET real == {i \in DOMAIN streams : streams[i].type = "video" /\ ~IsCoverArt(streams[i])}
        tallest == {i \in real : \A j \in real : streams[j].height <= streams[i].height}
    IN  IF real = {} THEN Absent ELSE streams[Min(tallest)]

FirstAudio(streams) ==
    LET sound == {i \in DOMAIN streams : streams[i].type = "audio"}
    IN  IF sound = {} THEN Absent ELSE streams[Min(sound)]

IsAudioFile(streams) == PrimaryVideo(streams) = Absent /\ FirstAudio(streams) # Absent

\* The longest time between two key frames; with fewer than two, nothing.
LongestGap(keys) ==
    Max({0} \cup {keys[i + 1] - keys[i] : i \in 1..(Len(keys) - 1)})

AllowedAudioCodecs == {"aac", "mp3", "mpga"}
MaxKeyframeInterval == 4

\* May the file be streamed without being re-encoded?  (gop_size is no field
\* of FFprobe's answer.)
Compatible(file) ==
    LET video == PrimaryVideo(file.streams)  audio == FirstAudio(file.streams)
    IN  IF IsAudioFile(file.streams) THEN audio.codec \in AllowedAudioCodecs
        ELSE /\ video # Absent /\ audio # Absent
             /\ video.codec = "h264"
             /\ audio.codec \in AllowedAudioCodecs
             /\ video.pix = "yuv420p"
             /\ LongestGap(file.keys) <= MaxKeyframeInterval

ValidationErrors(file) ==
    LET video == PrimaryVideo(file.streams)  audio == FirstAudio(file.streams)
        wrong(what, broken) == IF broken THEN {what} ELSE {}
        ofAudio == IF audio = Absent THEN {"no audio"}
                   ELSE wrong("audio codec", audio.codec \notin AllowedAudioCodecs)
        ofVideo == IF video = Absent THEN {"no video"}
                   ELSE wrong("video codec", video.codec # "h264")
                        \cup wrong("pixel format", video.pix # "yuv420p")
                        \cup wrong("key frames", LongestGap(file.keys) > MaxKeyframeInterval)
    IN  IF IsAudioFile(file.streams) THEN ofAudio ELSE ofVideo \cup ofAudio

\* What the asset keeps of the probe (its meta holds the chosen streams).
AssetOf(file) ==
    IF ~file.readable
    THEN [compatible |-> FALSE, errors |-> {"unreadable"}, video |-> Absent, audio |-> Absent, rate |-> 0]
    ELSE [compatible |-> Compatible(file),
          errors |-> IF Compatible(file) THEN {} ELSE ValidationErrors(file),
          video |-> PrimaryVideo(file.streams), audio |-> FirstAudio(file.streams),
          rate |-> file.rate]

Assets(files) == [i \in DOMAIN files |-> AssetOf(files[i])]

-----------------------------------------------------------------------------
(* The quality gate of the tier.  limits: enforce, height, fps, rate (the  *)
(* highest allowed) and codecs (all when empty).                           *)

Guideline(low, high, fps, min, max) ==
    [low |-> low, high |-> high, fps |-> fps, min |-> min, max |-> max]

BITRATE_GUIDANCE == <<
    Guideline(2000, 2400, 60, 20000, 51000), Guideline(2000, 2400, 30, 13000, 34000),
    Guideline(1300, 1999, 60, 9000, 18000), Guideline(1300, 1999, 30, 6000, 13000),
    Guideline(1000, 1299, 60, 4500, 9000), Guideline(1000, 1299, 30, 3000, 6000),
    Guideline(600, 999, 60, 2250, 6000), Guideline(600, 999, 30, 1500, 4000) >>

Distance(m, n) == IF m > n THEN m - n ELSE n - m

\* The frame rate the guidelines know that is nearer; halfway it is 60.
FpsBucket(fps) ==
    IF fps = 0 THEN Absent
    ELSE IF Distance(fps, 60) > 5 /\ Distance(fps, 30) < Distance(fps, 60) THEN 30 ELSE 60
FpsOutOfGuideline(fps) == Distance(fps, 30) > 3 /\ Distance(fps, 60) > 5

\* The first guideline for the height and the frame rate.
GuidelineFor(height, bucket) ==
    LET inRange == {i \in DOMAIN BITRATE_GUIDANCE : /\ height >= BITRATE_GUIDANCE[i].low
                                                    /\ height <= BITRATE_GUIDANCE[i].high}
        exact == {i \in inRange : bucket \in {Absent, BITRATE_GUIDANCE[i].fps}}
    IN  IF inRange = {} THEN Absent
        ELSE BITRATE_GUIDANCE[Min(IF exact # {} THEN exact ELSE inRange)]

Incomplete(a) == ~a.compatible \/ a.video = Absent \/ a.audio = Absent

\* A frame rate FFprobe could not tell (0) is never found fault with.
FpsViolation(fps, limits) ==
    /\ fps # 0
    /\ \/ limits.fps # 0 /\ (fps > limits.fps \/ FpsBucket(fps) > limits.fps)
       \/ FpsOutOfGuideline(fps)

\* The tier lowers the guideline's highest rate, but not below its lowest; the
\* tier's own limit holds all the same.
RateViolation(rate, guideline, limits) ==
    LET capped == IF limits.rate = 0 THEN guideline.max ELSE Min({guideline.max, limits.rate})
    IN  \/ rate < guideline.min
        \/ rate > Max({capped, guideline.min})
        \/ limits.rate # 0 /\ rate > limits.rate

VideoViolation(a, limits) ==
    LET v == a.video
        guideline == GuidelineFor(v.height, FpsBucket(v.fps))
        rate == IF v.rate # 0 THEN v.rate ELSE a.rate
    IN  \/ limits.codecs # {} /\ v.codec \notin limits.codecs
        \/ limits.height # 0 /\ v.height > limits.height
        \/ FpsViolation(v.fps, limits)
        \/ guideline = Absent
        \/ rate = 0
        \/ RateViolation(rate, guideline, limits)

AudioViolation(a) ==
    \/ a.audio = Absent
    \/ a.audio.codec \notin {"aac", "mp4a", "mp3", "mpga"}
    \/ a.audio.hz # 0 /\ a.audio.hz < 44100
    \/ (IF a.audio.rate # 0 THEN a.audio.rate ELSE a.rate) < 128
    \/ a.audio.channels > 4

\* evaluate_stream_quality_sync(...)["ok"]
QualityOk(limits, videos, audios) ==
    \/ ~limits.enforce
    \/ /\ \A a \in Range(videos) : ~Incomplete(a) /\ ~VideoViolation(a, limits)
       /\ \A a \in Range(audios) : ~AudioViolation(a)

-----------------------------------------------------------------------------
(* The checks of the lists. *)

\* One file of a video list on its own.
Streamable(a) ==
    /\ a.errors = {} /\ a.compatible
    /\ a.video # Absent /\ a.audio # Absent
    /\ a.video.codec = "h264" /\ a.video.pix = "yuv420p"
    /\ a.audio.codec \in AllowedAudioCodecs

\* FFmpeg's concat demuxer needs the parameters of the first file in them all.
SameParameters(a, b) ==
    /\ \A field \in {"codec", "width", "height", "pix", "fps"} : a.video[field] = b.video[field]
    /\ a.audio.codec = b.audio.codec /\ a.audio.hz = b.audio.hz

\* Mutant: the audio of the files is not compared.
SameVideoParameters(list) ==
    /\ \A a \in Range(list) : Streamable(a)
    /\ \A a \in Range(list) : \A field \in {"codec", "width", "height", "pix", "fps"} :
            a.video[field] = list[1].video[field]

validate_playlist_assets(list) ==
    /\ list # <<>>
    /\ \A a \in Range(list) : Streamable(a)
    /\ \A a \in Range(list) : SameParameters(a, list[1])

validate_audio_playlist_assets(list) ==
    /\ list # <<>>
    /\ \A a \in Range(list) : /\ a.audio # Absent
                              /\ a.audio.codec \in AllowedAudioCodecs
                              /\ a.audio.hz \in {44100, 48000}

-----------------------------------------------------------------------------
(* The launch of a stream.  content: mix (mix_mode), videos and audios     *)
(* (files, in order; audios is Absent without an audio collection), limits   *)
(* and destinations (records with enabled and url).                        *)

MixModes == {"video_only", "audio_only", "mixed"}
Limits == [enforce : BOOLEAN, height : Nat, fps : Nat, rate : Nat, codecs : SUBSET STRING]
Destinations == [id : STRING, enabled : BOOLEAN, url : {"allowed", "denied", "none"}]
Contents == [mix : MixModes, videos : Seq(File), audios : Seq(File) \cup {Absent},
             limits : Limits, destinations : SUBSET Destinations]

Videos(content) == Assets(content.videos)
Audios(content) ==
    IF content.audios = Absent \/ content.mix = "video_only" THEN <<>> ELSE Assets(content.audios)

\* extract_stream_assets finds what the mix mode calls for.
HasSources(content) ==
    /\ content.videos # <<>> \/ content.mix = "mixed"
    /\ content.mix = "mixed" => content.audios # Absent
    /\ content.audios # Absent /\ content.mix # "video_only" => content.audios # <<>>

\* The destinations of the stream that are used; one whose URL is not allowed
\* any more refuses the launch.
Outputs(content) == {d \in content.destinations : d.enabled /\ d.url # "none"}

\* validate_stream_launch_prerequisites
Launchable(content) ==
    /\ HasSources(content)
    /\ QualityOk(content.limits, Videos(content), Audios(content))
    /\ \A d \in Outputs(content) : d.url = "allowed"
    /\ content.videos # <<>> => validate_playlist_assets(Videos(content))
    /\ content.mix \in {"audio_only", "mixed"} => validate_audio_playlist_assets(Audios(content))
    /\ Outputs(content) # {}

AllAac(list) == list # <<>> /\ \A a \in Range(list) : a.audio # Absent /\ a.audio.codec = "aac"

\* prepare_stream_playlists and _build_command: where picture and sound come
\* from, which of them are copied, and how the output is written.
PictureFrom(content) ==
    IF content.mix = "audio_only" \/ content.videos = <<>> THEN "placeholder" ELSE "videos"

SoundFrom(content) ==
    LET ownSound == content.mix = "video_only" /\ \E a \in Range(Videos(content)) : a.audio # Absent
    IN  IF Audios(content) # <<>> THEN "audios" ELSE IF ownSound THEN "videos" ELSE "placeholder"

Muxer(content) == IF Cardinality(Outputs(content)) = 1 THEN "fifo" ELSE "tee"

CommandPlan(content) ==
    LET picture == PictureFrom(content)  sound == SoundFrom(content)
    IN  [picture |-> picture,
         sound |-> sound,
         copyVideo |-> picture = "videos" /\ \A a \in Range(Videos(content)) : a.compatible,
         copyAudio |-> \/ sound = "audios" /\ AllAac(Audios(content))
                       \/ sound = "videos" /\ AllAac(Videos(content)),
         muxer |-> Muxer(content)]
=============================================================================

-------------------------- MODULE MCStreamService --------------------------
EXTENDS StreamService

-----------------------------------------------------------------------------
(* Files: a good one, and others that differ from it in one thing. *)

Picture(codec, pix, height, fps, rate) ==
    [type |-> "video", art |-> FALSE, codec |-> codec, frames |-> 900, width |-> height * 2,
     height |-> height, pix |-> pix, fps |-> fps, rate |-> rate]
Cover == [Picture("mjpeg", "yuv420p", 1200, 0, 0) EXCEPT !.frames = 1]
Sound(codec, hz, channels, rate) ==
    [type |-> "audio", codec |-> codec, hz |-> hz, channels |-> channels, rate |-> rate]

AFile(streams, keys) == [readable |-> TRUE, streams |-> streams, rate |-> 4200, keys |-> keys]
GoodPicture == Picture("h264", "yuv420p", 1080, 30, 4000)
GoodSound == Sound("aac", 48000, 2, 192)
GoodFile == AFile(<<GoodPicture, GoodSound>>, <<0, 2, 4>>)
PictureFile(picture) == AFile(<<picture, GoodSound>>, <<0, 2, 4>>)
SoundFile(sound) == AFile(<<sound>>, <<>>)

VideoFiles ==
    {GoodFile,
     [GoodFile EXCEPT !.readable = FALSE],
     [GoodFile EXCEPT !.keys = <<0, 4, 9>>],
     [GoodFile EXCEPT !.keys = <<>>],
     PictureFile(Picture("hevc", "yuv420p", 1080, 30, 4000)),
     PictureFile(Picture("h264", "yuv444p", 1080, 30, 4000)),
     PictureFile(Picture("h264", "yuv420p", 720, 30, 2500)),
     PictureFile(Picture("h264", "yuv420p", 1080, 60, 5000)),
     PictureFile(Picture("h264", "yuv420p", 1080, 0, 4000)),
     PictureFile(Picture("h264", "yuv420p", 1080, 24, 4000)),
     PictureFile(Picture("h264", "yuv420p", 1080, 30, 9000)),
     PictureFile(Picture("h264", "yuv420p", 1080, 30, 0)),
     AFile(<<GoodPicture, Sound("mp3", 48000, 2, 192)>>, <<0, 2, 4>>),
     AFile(<<GoodPicture, Sound("aac", 44100, 2, 192)>>, <<0, 2, 4>>),
     AFile(<<GoodPicture>>, <<0, 2, 4>>),
     AFile(<<Cover, GoodPicture, GoodSound>>, <<0, 2, 4>>),
     SoundFile(GoodSound)}

AudioFiles ==
    {SoundFile(GoodSound), SoundFile(Sound("mp3", 44100, 2, 192)),
     SoundFile(Sound("aac", 22050, 2, 192)), SoundFile(Sound("aac", 48000, 6, 192)),
     SoundFile(Sound("flac", 48000, 2, 192)), AFile(<<Cover, GoodSound>>, <<>>),
     AFile(<<GoodPicture>>, <<0, 2>>)}

\* One file of S, and with a good one before or after it.
Lists(S, good) ==
    {<<>>} \cup {<<a>> : a \in S} \cup {<<good, a>> : a \in S} \cup {<<a, good>> : a \in S}

NoLimits == [enforce |-> FALSE, height |-> 0, fps |-> 0, rate |-> 0, codecs |-> {}]
SmallTier == [enforce |-> TRUE, height |-> 720, fps |-> 30, rate |-> 3000, codecs |-> {"h264"}]
LargeTier == [enforce |-> TRUE, height |-> 1080, fps |-> 60, rate |-> 8000, codecs |-> {}]

Destination(id, enabled, url) == [id |-> id, enabled |-> enabled, url |-> url]
Allowed == Destination("one", TRUE, "allowed")

Content(mix, videos, audios, limits, destinations) ==
    [mix |-> mix, videos |-> videos, audios |-> audios, limits |-> limits,
     destinations |-> destinations]
PlainContent == Content("video_only", <<GoodFile>>, Absent, LargeTier, {Allowed})

MCContents ==
    {Content("video_only", v, Absent, l, {Allowed}) :
        v \in Lists(VideoFiles, GoodFile), l \in {NoLimits, SmallTier, LargeTier}}
    \cup {Content(m, v, a, LargeTier, {Allowed}) :
        m \in MixModes, v \in {<<>>, <<GoodFile>>}, a \in Lists(AudioFiles, SoundFile(GoodSound)) \cup {Absent}}
    \cup {[PlainContent EXCEPT !.destinations = d] :
        d \in {{}, {Destination("off", FALSE, "allowed")}, {Destination("gone", TRUE, "none")},
               {Allowed, Destination("two", TRUE, "allowed")}, {Allowed, Destination("bad", TRUE, "denied")}}}

-----------------------------------------------------------------------------
(* Schedules: days of three hours, weeks of two days; clocks go forward on *)
(* day 1 and back on day 2.                                                *)

Payload(mode, start, stop, repeat, weekdays, ends, after) ==
    [mode |-> mode, start |-> start, stop |-> stop, repeat |-> repeat, weekdays |-> weekdays,
     ends |-> ends, after |-> after]
JustStart == Payload("now", None, None, "none", {}, None, None)

StopAt(stop) == Payload("now", None, stop, "none", {}, None, None)
Once(start, stop) == Payload("schedule", start, stop, "none", {}, None, None)
Daily == Payload("schedule", 1, None, "daily", {}, 2, None)
WeeklyOn(weekdays, ends, after) == Payload("schedule", 1, None, "weekly", weekdays, ends, after)

World(c, payloads, horizon) == [content |-> c, payloads |-> payloads, horizon |-> horizon]
MCWorlds ==
    {World(c, {JustStart}, 0) : c \in MCContents}
    \cup {World(PlainContent, {StopAt(3)}, 3), World(PlainContent, {Once(2, None), JustStart}, 3),
          World(PlainContent, {Once(1, 3), Daily}, 3), World(PlainContent, {Daily}, 5),
          World(PlainContent, {WeeklyOn({}, 0, 2)}, 3),
          World(PlainContent, {WeeklyOn({1}, None, 1), JustStart}, 3)}

\* A stream that is to stop at the hour 2.
StopWorlds == {World(PlainContent, {StopAt(2)}, 3)}
=============================================================================

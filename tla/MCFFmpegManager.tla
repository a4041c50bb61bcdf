------------------------- MODULE MCFFmpegManager -------------------------
(* Instances of FFmpegManager for TLC. *)
EXTENDS FFmpegManager

CONSTANTS c1

OneCaller == {c1}

NoProcess == {}

=============================================================================

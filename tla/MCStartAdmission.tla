------------------------ MODULE MCStartAdmission ------------------------
(* An instance of StartAdmission for TLC. *)
EXTENDS StartAdmission

CONSTANTS s1, s2, r1, r2, k1

TwoStreams == {s1, s2}
TwoRequests == {r1, r2}
OneScheduler == {k1}

=============================================================================

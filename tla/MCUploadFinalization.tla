----------------------- MODULE MCUploadFinalization -----------------------
(* Instances of UploadFinalization for TLC. *)
EXTENDS UploadFinalization

CONSTANTS u1, u2, h1, h2, r1, d1

TwoUploads == {u1, u2}
TwoHooks == {h1, h2}
OneRegistrar == {r1}
OneDeleter == {d1}

=============================================================================

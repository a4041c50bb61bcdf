------------------------- MODULE MCSystemdRuntime -------------------------
(* Instances of SystemdRuntime for TLC. *)
EXTENDS SystemdRuntime

CONSTANTS api, poll, reconciler

Nobody == {}
OneRequest == {api}
OnePoll == {poll}
OneReconciler == {reconciler}

=============================================================================

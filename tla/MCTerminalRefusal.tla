------------------------ MODULE MCTerminalRefusal ------------------------
(* Instances of TerminalRefusal for TLC. *)
EXTENDS TerminalRefusal

CONSTANTS api

Nobody == {}
OneRequest == {api}

=============================================================================

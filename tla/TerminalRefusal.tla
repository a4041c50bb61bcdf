-------------------------- MODULE TerminalRefusal --------------------------
(***************************************************************************)
(* What systemd's restarts may do with a stream whose row is terminal:     *)
(* SystemdRuntime with one history variable.                               *)
(***************************************************************************)
EXTENDS SystemdRuntime

VARIABLE barred   \* with no request in flight, the unit waited for its
                  \* restart while the row was terminal

barredVars == <<vars, barred>>

InFlight == \E a \in Api : pc[a] # "idle"

Remember ==
    barred' = /\ ~InFlight'
              /\ barred \/ (unit' = "activating" /\ status' \in Terminal)

BarredSpec == Init /\ barred = FALSE /\ [][Next /\ Remember]_barredVars /\ Fairness

\* A unit that waited for its restart while the row was terminal, with nobody
\* asking for anything since, has not got FFmpeg started again (the refusal in
\* _start_stream).
RefusesTerminal == barred => runner \in {"none", "boot"}

\* And its restart loop ends, unless runners are killed for ever before they
\* can refuse: the refusal leaves the unit failed.
RefusalEndsLoop ==
    <>[][~RunnerKilled]_vars => (barred ~> unit \in Down \/ InFlight)

=============================================================================

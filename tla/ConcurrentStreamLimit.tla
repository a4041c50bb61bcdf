----------------------- MODULE ConcurrentStreamLimit -----------------------
(***************************************************************************)
(* What QuotaEnforcer.check_concurrent_streams promises a user's           *)
(* subscription tier: a stream goes live only while fewer than Limit       *)
(* streams are, as if the count and the write were one step.               *)
(***************************************************************************)
EXTENDS Naturals, FiniteSets

CONSTANTS Streams, Limit

VARIABLE live   \* the streams whose status is "starting" or "running"

Init == live = {}

Admit(s) ==
    /\ Cardinality(live) < Limit
    /\ live' = live \cup {s}

Retire(s) == live' = live \ {s}

Next == \E s \in Streams : Admit(s) \/ Retire(s)

Spec == Init /\ [][Next]_live

=============================================================================

--------------------------- MODULE StartAdmission ---------------------------
(***************************************************************************)
(* How a stream of one user is admitted: StreamControlService.start_stream *)
(* in systemd mode (backend/app/services/streams/control.py), the quota    *)
(* check it calls (backend/app/core/quota.py) and the scheduler's batches  *)
(* that call it (backend/app/services/streams/scheduler.py).               *)
(*                                                                         *)
(* A session is one AsyncSession: an API request starts one stream, a      *)
(* scheduler run starts a batch.  An action is the code between two awaits *)
(* that touch the database or systemd.  PostgreSQL's locks last until the  *)
(* transaction ends: userLock is the advisory lock of the user's           *)
(* START_STREAM namespace, rowLock[s] the lock on the row of s.            *)
(*                                                                         *)
(* The statuses draft, scheduled, stopped and error, none of which counts  *)
(* against the quota, are one value, "idle".                               *)
(***************************************************************************)
EXTENDS Naturals, FiniteSets

CONSTANTS
    Streams,     \* the streams of the user
    Requests,    \* API sessions
    Schedulers,  \* sessions of scheduled_stream_launcher, one per backend worker
    Limit,       \* max_concurrent_streams of the user's tier
    None         \* no session, no stream

Sessions == Requests \cup Schedulers

ASSUME AdmissionAssumption ==
    /\ IsFiniteSet(Streams)
    /\ Limit \in Nat
    /\ Requests \cap Schedulers = {}
    /\ None \notin Sessions \cup Streams

VARIABLES
    status,    \* the committed column streams.status
    due,       \* streams with an enabled start schedule whose time has come
    userLock,  \* the session that holds the advisory lock
    rowLock,   \* the session that holds each row's lock
    pc,        \* where each session is
    target,    \* the stream it is starting
    batch      \* the streams of a scheduler run still to be started

vars == <<status, due, userLock, rowLock, pc, target, batch>>

Status == {"idle", "starting", "running", "stopping"}
Label == {"free", "next", "flush", "precheck", "lock", "check", "prepare", "launch"}

TypeOK ==
    /\ status \in [Streams -> Status]
    /\ due \subseteq Streams
    /\ userLock \in Sessions \cup {None}
    /\ rowLock \in [Streams -> Sessions \cup {None}]
    /\ pc \in [Sessions -> Label]
    /\ target \in [Sessions -> Streams \cup {None}]
    /\ batch \in [Sessions -> SUBSET Streams]

Init ==
    /\ status = [s \in Streams |-> "idle"]
    /\ due = {}
    /\ userLock = None
    /\ rowLock = [s \in Streams |-> None]
    /\ pc = [x \in Sessions |-> "free"]
    /\ target = [x \in Sessions |-> None]
    /\ batch = [x \in Sessions |-> {}]

\* The rows check_concurrent_streams counts.
Counted == {s \in Streams : status[s] \in {"starting", "running"}}

Goto(x, label) == pc' = [pc EXCEPT ![x] = label]

\* A commit or a rollback drops the locks of the session's transaction.
ReleaseLocks(x) ==
    /\ userLock' = IF userLock = x THEN None ELSE userLock
    /\ rowLock' = [s \in Streams |-> IF rowLock[s] = x THEN None ELSE rowLock[s]]

\* A session may write the row of s: nobody else holds its lock.
MayWrite(x, s) == rowLock[s] \in {None, x}

\* After one start a request is answered and a scheduler run takes the next
\* stream of its batch.
Finish(x) ==
    /\ Goto(x, IF x \in Requests THEN "free" ELSE "next")
    /\ target' = [target EXCEPT ![x] = None]

-----------------------------------------------------------------------------
(* start_stream *)

\* A request for a stream found starting, running or stopping is answered at
\* once; otherwise it goes on to the advisory lock.
BeginRequest(r, s) ==
    /\ pc[r] = "free"
    /\ status[s] = "idle"
    /\ target' = [target EXCEPT ![r] = s]
    /\ Goto(r, "lock")
    /\ UNCHANGED <<status, due, userLock, rowLock, batch>>

AcquireUserLock(x) ==
    /\ pc[x] = "lock"
    /\ userLock = None
    /\ userLock' = x
    /\ Goto(x, "check")
    /\ UNCHANGED <<status, due, rowLock, target, batch>>

\* Mutant: the quota check ends its transaction.
CheckQuotaCommits(x) ==
    /\ pc[x] = "check"
    /\ Cardinality(Counted) < Limit
    /\ ReleaseLocks(x)
    /\ Goto(x, "prepare")
    /\ UNCHANGED <<status, due, target, batch>>

\* Mutant: the limit is compared off by one.
CheckQuotaOffByOne(x) ==
    /\ pc[x] = "check"
    /\ Cardinality(Counted) <= Limit
    /\ Goto(x, "prepare")
    /\ UNCHANGED <<status, due, userLock, rowLock, target, batch>>

CheckQuota(x) ==
    /\ pc[x] = "check"
    /\ Cardinality(Counted) < Limit
    /\ Goto(x, "prepare")
    /\ UNCHANGED <<status, due, userLock, rowLock, target, batch>>

\* Mutant: a refusal leaves the transaction open.
RefuseHolding(x) ==
    /\ \/ pc[x] = "check" /\ Cardinality(Counted) >= Limit
       \/ pc[x] = "prepare"
    /\ Finish(x)
    /\ UNCHANGED <<status, due, userLock, rowLock, batch>>

\* An HTTPException: the quota is used up; or, with quota left, the daily limit
\* is, a launch prerequisite is missing or the unit is active already.  The
\* session rolls back (a scheduler run commits what it flushed).
Refuse(x) ==
    /\ \/ pc[x] = "check" /\ Cardinality(Counted) >= Limit
       \/ pc[x] = "prepare"
    /\ ReleaseLocks(x)
    /\ Finish(x)
    /\ UNCHANGED <<status, due, batch>>

\* "starting" is written and committed; the commit drops the locks before
\* systemctl is called.
CommitStart(x) ==
    /\ pc[x] = "prepare"
    /\ MayWrite(x, target[x])
    /\ status' = [status EXCEPT ![target[x]] = "starting"]
    /\ due' = due \ {target[x]}
    /\ ReleaseLocks(x)
    /\ Goto(x, "launch")
    /\ UNCHANGED <<target, batch>>

LaunchSucceeds(x) ==
    /\ pc[x] = "launch"
    /\ Finish(x)
    /\ UNCHANGED <<status, due, userLock, rowLock, batch>>

\* Mutant: the status to write back was never saved.
LaunchFailsUnsaved(x) ==
    /\ pc[x] = "launch"
    /\ MayWrite(x, target[x])
    /\ status' = [status EXCEPT ![target[x]] = None]
    /\ Finish(x)
    /\ UNCHANGED <<due, userLock, rowLock, batch>>

\* systemctl start fails: the status read before the start is written back,
\* whatever the row says by now.
LaunchFails(x) ==
    /\ pc[x] = "launch"
    /\ MayWrite(x, target[x])
    /\ status' = [status EXCEPT ![target[x]] = "idle"]
    /\ Finish(x)
    /\ UNCHANGED <<due, userLock, rowLock, batch>>

-----------------------------------------------------------------------------
(* launch_due_streams *)

\* SELECT ... FOR UPDATE SKIP LOCKED
BeginBatch(k) ==
    LET free == {s \in due : status[s] = "idle" /\ rowLock[s] = None}
    IN  /\ pc[k] = "free"
        /\ free # {}
        /\ batch' = [batch EXCEPT ![k] = free]
        /\ rowLock' = [s \in Streams |-> IF s \in free THEN k ELSE rowLock[s]]
        /\ Goto(k, "next")
        /\ UNCHANGED <<status, due, userLock, target>>

PickDue(k, s) ==
    /\ pc[k] = "next"
    /\ s \in batch[k]
    /\ batch' = [batch EXCEPT ![k] = @ \ {s}]
    /\ target' = [target EXCEPT ![k] = s]
    /\ Goto(k, "flush")
    /\ UNCHANGED <<status, due, userLock, rowLock>>

\* The batch is done: the last commit dropped the locks.
EndBatch(k) ==
    /\ pc[k] = "next"
    /\ batch[k] = {}
    /\ Goto(k, "free")
    /\ UNCHANGED <<status, due, userLock, rowLock, target, batch>>

\* scheduled_start_attempted_at is flushed, which keeps the stream out of the
\* batches until the retry interval is over.  The row lock taken with the
\* batch may be gone: the commit of an earlier start dropped it.
FlushAttempt(k) ==
    /\ pc[k] = "flush"
    /\ MayWrite(k, target[k])
    /\ rowLock' = [rowLock EXCEPT ![target[k]] = k]
    /\ due' = due \ {target[k]}
    /\ Goto(k, "precheck")
    /\ UNCHANGED <<status, userLock, target, batch>>

\* The stream's window is over, or its schedule has no start time: it is not
\* started, and the transaction ends.
SkipDue(k) ==
    /\ pc[k] = "flush"
    /\ MayWrite(k, target[k])
    /\ due' = due \ {target[k]}
    /\ ReleaseLocks(k)
    /\ Finish(k)
    /\ UNCHANGED <<status, batch>>

\* start_stream looks at the row the batch loaded, and at the unit: it goes on
\* unless another session has started the stream and its unit is up by now.  A
\* status that differs from the unit's ends the transaction on the way.
Precheck(k) ==
    /\ pc[k] = "precheck"
    /\ \/ /\ Goto(k, "lock")
          /\ ReleaseLocks(k) \/ UNCHANGED <<userLock, rowLock>>
          /\ UNCHANGED target
       \/ /\ status[target[k]] # "idle"
          /\ ReleaseLocks(k)
          /\ Finish(k)
    /\ UNCHANGED <<status, due, batch>>

-----------------------------------------------------------------------------
(* PostgreSQL *)

\* x waits for a lock y holds.
WaitsFor(x, y) ==
    \/ pc[x] = "lock" /\ userLock = y
    \/ /\ pc[x] \in {"flush", "prepare", "launch"}
       /\ rowLock[target[x]] = y
       /\ x # y

\* Waiting is a function, so a set it maps onto itself is a set of cycles.
Deadlocked(x) ==
    \E D \in SUBSET Sessions :
        /\ x \in D
        /\ \A y \in D : \E z \in D : WaitsFor(y, z)
        /\ \A z \in D : \E y \in D : WaitsFor(y, z)

\* The deadlock detector aborts the transaction of one session in the cycle.  A
\* scheduler run goes on with the batch, or ends if the failed flush has left
\* the session unusable.
AbortDeadlocked(x) ==
    /\ Deadlocked(x)
    /\ ReleaseLocks(x)
    /\ target' = [target EXCEPT ![x] = None]
    /\ \/ /\ Goto(x, IF x \in Requests THEN "free" ELSE "next")
          /\ UNCHANGED batch
       \/ /\ x \in Schedulers
          /\ Goto(x, "free")
          /\ batch' = [batch EXCEPT ![x] = {}]
    /\ UNCHANGED <<status, due>>

-----------------------------------------------------------------------------
(* The streams' lives after their start, and the users' schedules. *)

\* The runner or the reconciler reports the stream live.
ReportsRunning(s) ==
    /\ status[s] = "starting"
    /\ rowLock[s] = None
    /\ status' = [status EXCEPT ![s] = "running"]
    /\ UNCHANGED <<due, userLock, rowLock, pc, target, batch>>

\* A stop request is accepted; the stream ends; it fails or is found dead.
LeavesCount(s) ==
    /\ status[s] # "idle"
    /\ rowLock[s] = None
    /\ \E next \in {"stopping", "idle"} : status' = [status EXCEPT ![s] = next]
    /\ UNCHANGED <<due, userLock, rowLock, pc, target, batch>>

ComesDue(s) ==
    /\ s \notin due
    /\ rowLock[s] = None
    /\ due' = due \cup {s}
    /\ UNCHANGED <<status, userLock, rowLock, pc, target, batch>>

-----------------------------------------------------------------------------

\* The steps of a session that wait for a lock, and the others.
LockStep(x) == AcquireUserLock(x) \/ FlushAttempt(x) \/ SkipDue(x) \/ CommitStart(x)

FreeStep(x) ==
    \/ CheckQuota(x) \/ Refuse(x)
    \/ LaunchSucceeds(x) \/ LaunchFails(x)
    \/ \E s \in Streams : PickDue(x, s)
    \/ EndBatch(x) \/ Precheck(x)
    \/ AbortDeadlocked(x)

Environment(s) == ReportsRunning(s) \/ LeavesCount(s) \/ ComesDue(s)

Next ==
    \/ \E r \in Requests, s \in Streams : BeginRequest(r, s)
    \/ \E k \in Schedulers : BeginBatch(k)
    \/ \E x \in Sessions : LockStep(x) \/ FreeStep(x)
    \/ \E s \in Streams : Environment(s)

Spec == Init /\ [][Next]_vars

\* A session that can go on does, its systemctl call returns, and a lock that
\* is released again and again is granted: PostgreSQL queues the waiters.
\* Nothing makes a stream end.
Fairness == \A x \in Sessions : WF_vars(FreeStep(x)) /\ SF_vars(LockStep(x))

FairSpec == Spec /\ Fairness

-----------------------------------------------------------------------------
(* Properties. *)

\* However many requests and scheduler runs of a user overlap, no more than
\* Limit of the user's streams are starting or running (the lock shared by
\* _acquire_user_start_lock and check_concurrent_streams).
WithinLimit == Cardinality(Counted) <= Limit

Quota == INSTANCE ConcurrentStreamLimit WITH live <- Counted

\* The count and the write of start_stream, two steps of one transaction, act
\* as the single step the quota promises.
AdmissionIsAtomic == Quota!Spec

\* Every start request is answered and every scheduler run ends, although a
\* scheduler waits for the user's lock with rows locked while a request waits
\* for a row with the user's lock held.
SessionsFinish == \A x \in Sessions : pc[x] # "free" ~> pc[x] = "free"

=============================================================================

------------------------- MODULE UploadFinalization -------------------------
(***************************************************************************)
(* How one user's uploads become assets: the tusd hooks                    *)
(* (backend/tusd-hooks/pre-create, post-finish), the webhook that          *)
(* finalizes an upload (backend/app/services/assets/upload_service.py),    *)
(* asset registration and deletion (services/assets/service.py) and the    *)
(* quota they charge (backend/app/core/quota.py, services/assets/          *)
(* storage.py).                                                            *)
(*                                                                         *)
(* A session is one database transaction after another.  An action is the  *)
(* code between two awaits that touch the database; the state holds what   *)
(* is committed, and a transaction's own rows appear when it commits.  All *)
(* locks last until then: the two advisory locks of QuotaEnforcer, the row *)
(* locks of upload_ingests (taken by its unique upload_id as well),        *)
(* of assets and of the user's profile.                                    *)
(*                                                                         *)
(* Every file has size 1.  A creator makes at most one asset, named after  *)
(* it.  Status "received" and "validating" are never committed.            *)
(***************************************************************************)
EXTENDS Naturals, FiniteSets

CONSTANTS
    Uploads,       \* tus uploads of the user
    Hooks,         \* runs of post-finish, each with the webhook session it calls
    Registrars,    \* API sessions of create_asset
    Deleters,      \* API sessions of delete_asset
    AssetLimit,    \* max_assets of the user's tier
    StorageLimit,  \* storage_gb of the user's tier
    None           \* no session, no asset, no upload

Creators == Hooks \cup Registrars
Sessions == Creators \cup Deleters

ASSUME UploadAssumption ==
    /\ IsFiniteSet(Creators)
    /\ AssetLimit \in Nat \ {0}
    /\ StorageLimit \in Nat \ {0}
    /\ Hooks \cap Registrars = {}
    /\ Creators \cap Deleters = {}
    /\ None \notin Sessions \cup Uploads

VARIABLES
    disk,         \* where each upload's file is
    ingest,       \* the upload_ingests rows: status and asset_id
    asset,        \* the assets rows, by creator
    bytes,        \* user_profiles.current_storage_bytes
    manifest,     \* uploads with a file in _failed-finalizations
    assetsLock,   \* holder of the ASSETS advisory lock
    storageLock,  \* holder of the STORAGE advisory lock
    profileLock,  \* holder of the user_profiles row lock
    rowLock,      \* holder of each upload_ingests row or pending upload_id
    assetLock,    \* holder of each assets row
    pc,           \* where each session is
    subject,      \* the upload a creator works on, the asset a deleter removes
    seen,         \* current_storage_bytes as each creator read it, until compared
    troubled      \* history: uploads with a committed failure or a deleted asset

locks == <<assetsLock, storageLock, profileLock, rowLock, assetLock>>
vars == <<disk, ingest, asset, bytes, manifest, locks, pc, subject, seen, troubled>>

Place == {"absent", "temp", "user", "gone"}
IngestStatus == {"none", "failed", "finalized"}
Label == {"idle", "lookup", "insert", "resolve", "mark", "validate",
          "profile", "count", "charge", "persist", "commit", "thumbnail",
          "fail", "failUpdate", "failInsert", "ok", "bad",
          "delete", "detach", "refund", "removed", "unlink", "done"}

TypeOK ==
    /\ disk \in [Uploads -> Place]
    /\ ingest \in [Uploads -> [status : IngestStatus, asset : Creators \cup {None}]]
    /\ asset \in [Creators -> {"none", "live", "deleted"}]
    /\ bytes \in Nat
    /\ manifest \subseteq Uploads
    /\ assetsLock \in Sessions \cup {None}
    /\ storageLock \in Sessions \cup {None}
    /\ profileLock \in Sessions \cup {None}
    /\ rowLock \in [Uploads -> Sessions \cup {None}]
    /\ assetLock \in [Creators -> Sessions \cup {None}]
    /\ pc \in [Sessions -> Label]
    /\ subject \in [Sessions -> Uploads \cup Creators \cup {None}]
    /\ seen \in [Creators -> Nat]
    /\ troubled \subseteq Uploads

Init ==
    /\ disk = [u \in Uploads |-> "absent"]
    /\ ingest = [u \in Uploads |-> [status |-> "none", asset |-> None]]
    /\ asset = [c \in Creators |-> "none"]
    /\ bytes = 0
    /\ manifest = {}
    /\ assetsLock = None
    /\ storageLock = None
    /\ profileLock = None
    /\ rowLock = [u \in Uploads |-> None]
    /\ assetLock = [c \in Creators |-> None]
    /\ pc = [x \in Sessions |-> "idle"]
    /\ subject = [x \in Sessions |-> None]
    /\ seen = [c \in Creators |-> 0]
    /\ troubled = {}

Live == {c \in Creators : asset[c] = "live"}

Goto(x, label) == pc' = [pc EXCEPT ![x] = label]

Free(lock, x) == lock \in {None, x}

\* A commit or a rollback drops every lock of the sessions in gone.
ReleaseLocks(gone) ==
    /\ assetsLock' = IF assetsLock \in gone THEN None ELSE assetsLock
    /\ storageLock' = IF storageLock \in gone THEN None ELSE storageLock
    /\ profileLock' = IF profileLock \in gone THEN None ELSE profileLock
    /\ rowLock' = [u \in Uploads |-> IF rowLock[u] \in gone THEN None ELSE rowLock[u]]
    /\ assetLock' = [c \in Creators |-> IF assetLock[c] \in gone THEN None ELSE assetLock[c]]

-----------------------------------------------------------------------------
(* The tusd hooks *)

\* check_quota_internal: no lock is taken, and a limit of 0 assets counts as
\* no limit here.
MayUpload ==
    /\ bytes + 1 <= StorageLimit
    /\ AssetLimit = 0 \/ Cardinality(Live) < AssetLimit

\* pre-create lets tusd create the file.  A refusal, and in production an
\* unreachable backend, changes nothing.
PreCreate(u) ==
    /\ disk[u] = "absent"
    /\ MayUpload
    /\ disk' = [disk EXCEPT ![u] = "temp"]
    /\ UNCHANGED <<ingest, asset, bytes, manifest, locks, pc, subject, seen, troubled>>

\* post-finish moves the file below the user's directory and calls the webhook.
Deliver(h, u) ==
    /\ pc[h] = "idle"
    /\ disk[u] \in {"temp", "user"}
    /\ disk' = [disk EXCEPT ![u] = "user"]
    /\ subject' = [subject EXCEPT ![h] = u]
    /\ Goto(h, "lookup")
    /\ UNCHANGED <<ingest, asset, bytes, manifest, locks, seen, troubled>>

\* A later delivery of an upload whose file is gone only leaves a manifest.
DeliverMissing(h, u) ==
    /\ pc[h] = "idle"
    /\ disk[u] = "gone"
    /\ manifest' = manifest \cup {u}
    /\ subject' = [subject EXCEPT ![h] = u]
    /\ Goto(h, "done")
    /\ UNCHANGED <<disk, ingest, asset, bytes, locks, seen, troubled>>

\* Mutant: the hook does not look at the webhook's answer.
FinishHookSilently(h) ==
    /\ pc[h] \in {"ok", "bad"}
    /\ Goto(h, "done")
    /\ UNCHANGED <<disk, ingest, asset, bytes, manifest, locks, subject, seen, troubled>>

\* The hook's last words: a manifest unless the webhook reported success.
FinishHook(h) ==
    /\ pc[h] \in {"ok", "bad"}
    /\ manifest' = IF pc[h] = "bad" THEN manifest \cup {subject[h]} ELSE manifest
    /\ Goto(h, "done")
    /\ UNCHANGED <<disk, ingest, asset, bytes, locks, subject, seen, troubled>>

-----------------------------------------------------------------------------
(* handle_upload_complete *)

\* An upload already finalized is answered from its row.
LookupIngest(h) ==
    LET row == ingest[subject[h]] IN
    /\ pc[h] = "lookup"
    /\ Goto(h, CASE row.status = "none" -> "insert"
                 [] row.status = "finalized" /\ row.asset # None -> "ok"
                 [] OTHER -> "resolve")
    /\ UNCHANGED <<disk, ingest, asset, bytes, manifest, locks, subject, seen, troubled>>

\* Mutant: upload_id is not unique.
InsertIngestTwice(h) ==
    /\ pc[h] = "insert"
    /\ Goto(h, "resolve")
    /\ UNCHANGED <<disk, ingest, asset, bytes, manifest, locks, subject, seen, troubled>>

\* The INSERT waits for a pending row of the same upload_id and conflicts with
\* a committed one; the conflict is rolled back and the row looked up again.
InsertIngest(h) ==
    LET u == subject[h] IN
    /\ pc[h] = "insert"
    /\ rowLock[u] = None
    /\ IF ingest[u].status = "none"
         THEN rowLock' = [rowLock EXCEPT ![u] = h] /\ Goto(h, "resolve")
         ELSE Goto(h, "lookup") /\ UNCHANGED rowLock
    /\ UNCHANGED <<disk, ingest, asset, bytes, manifest, assetsLock, storageLock,
                   profileLock, assetLock, subject, seen, troubled>>

\* Six looks at the disk; a file that stays missing fails the upload.
ResolveFile(h) ==
    /\ pc[h] = "resolve"
    /\ Goto(h, IF disk[subject[h]] = "user" THEN "mark" ELSE "fail")
    /\ UNCHANGED <<disk, ingest, asset, bytes, manifest, locks, subject, seen, troubled>>

\* Mutant: the status "validating" is committed, not only flushed.
MarkValidatingCommits(h) ==
    LET u == subject[h] IN
    /\ pc[h] = "mark"
    /\ Free(rowLock[u], h)
    /\ ingest' = [ingest EXCEPT ![u].status = "validating"]
    /\ ReleaseLocks({h})
    /\ Goto(h, "validate")
    /\ UNCHANGED <<disk, asset, bytes, manifest, subject, seen, troubled>>

\* The flush of status "validating" locks a row that was there already.
MarkValidating(h) ==
    LET u == subject[h] IN
    /\ pc[h] = "mark"
    /\ Free(rowLock[u], h)
    /\ rowLock' = [rowLock EXCEPT ![u] = h]
    /\ Goto(h, "validate")
    /\ UNCHANGED <<disk, ingest, asset, bytes, manifest, assetsLock, storageLock,
                   profileLock, assetLock, subject, seen, troubled>>

\* stat() and ffprobe; a deletion may have unlinked the file meanwhile.
ValidateUpload(h) ==
    /\ pc[h] = "validate"
    /\ \/ disk[subject[h]] = "user" /\ Goto(h, "profile")
       \/ Goto(h, "fail")
    /\ UNCHANGED <<disk, ingest, asset, bytes, manifest, locks, subject, seen, troubled>>

-----------------------------------------------------------------------------
(* The quota checks, the new asset and its commit, shared with create_asset *)

BeginRegister(r, u) ==
    /\ pc[r] = "idle"
    /\ disk[u] = "user"
    /\ subject' = [subject EXCEPT ![r] = u]
    /\ Goto(r, "profile")
    /\ UNCHANGED <<disk, ingest, asset, bytes, manifest, locks, seen, troubled>>

\* The profile is read once, before either advisory lock; a suspended account
\* is refused.
LoadProfile(c) ==
    /\ pc[c] = "profile"
    /\ \/ seen' = [seen EXCEPT ![c] = bytes] /\ Goto(c, "count")
       \/ UNCHANGED seen /\ Goto(c, "fail")
    /\ UNCHANGED <<disk, ingest, asset, bytes, manifest, locks, subject, troubled>>

\* Mutant: the count is taken without the advisory lock.
CheckAssetsLimitUnlocked(c) ==
    /\ pc[c] = "count"
    /\ Goto(c, IF Cardinality(Live) < AssetLimit THEN "charge" ELSE "fail")
    /\ UNCHANGED <<disk, ingest, asset, bytes, manifest, locks, subject, seen, troubled>>

CheckAssetsLimit(c) ==
    /\ pc[c] = "count"
    /\ assetsLock = None
    /\ assetsLock' = c
    /\ Goto(c, IF Cardinality(Live) < AssetLimit THEN "charge" ELSE "fail")
    /\ UNCHANGED <<disk, ingest, asset, bytes, manifest, storageLock, profileLock,
                   rowLock, assetLock, subject, seen, troubled>>

\* The lock is new, the compared bytes are those LoadProfile read.
CheckStorageLimit(c) ==
    /\ pc[c] = "charge"
    /\ storageLock = None
    /\ storageLock' = c
    /\ Goto(c, IF seen[c] + 1 <= StorageLimit THEN "persist" ELSE "fail")
    /\ seen' = [seen EXCEPT ![c] = 0]
    /\ UNCHANGED <<disk, ingest, asset, bytes, manifest, assetsLock, profileLock,
                   rowLock, assetLock, subject, troubled>>

\* INSERT of the asset and apply_storage_delta.
PersistAsset(c) ==
    /\ pc[c] = "persist"
    /\ profileLock = None
    /\ profileLock' = c
    /\ Goto(c, "commit")
    /\ UNCHANGED <<disk, ingest, asset, bytes, manifest, assetsLock, storageLock,
                   rowLock, assetLock, subject, seen, troubled>>

CommitAsset(c) ==
    /\ pc[c] = "commit"
    /\ asset' = [asset EXCEPT ![c] = "live"]
    /\ bytes' = bytes + 1
    /\ ReleaseLocks({c})
    /\ IF c \in Hooks
         THEN /\ ingest' = [ingest EXCEPT ![subject[c]] =
                              [status |-> "finalized", asset |-> c]]
              /\ Goto(c, "thumbnail")
         ELSE UNCHANGED ingest /\ Goto(c, "done")
    /\ UNCHANGED <<disk, manifest, subject, seen, troubled>>

\* A second commit stores the thumbnail in the asset, which fails when the
\* asset was deleted since the first; audio needs none, and without a thumbnail
\* the ingest gets a warning.
AddThumbnail(h) ==
    /\ pc[h] = "thumbnail"
    /\ \/ asset[h] = "live" /\ assetLock[h] = None /\ Goto(h, "ok")
       \/ asset[h] = "deleted" /\ Goto(h, "fail")
       \/ rowLock[subject[h]] = None /\ Goto(h, "ok")
    /\ UNCHANGED <<disk, ingest, asset, bytes, manifest, locks, subject, seen, troubled>>

-----------------------------------------------------------------------------
(* _mark_ingest_failed, and the rollback of a failed create_asset *)

\* Mutant: the transaction of a refused upload stays open.
RollBackLeaking(c) ==
    /\ pc[c] = "fail"
    /\ Goto(c, CASE c \in Registrars -> "done"
                 [] ingest[subject[c]].status = "none" -> "failInsert"
                 [] OTHER -> "failUpdate")
    /\ UNCHANGED <<disk, ingest, asset, bytes, manifest, locks, subject, seen, troubled>>

RollBack(c) ==
    /\ pc[c] = "fail"
    /\ ReleaseLocks({c})
    /\ Goto(c, CASE c \in Registrars -> "done"
                 [] ingest[subject[c]].status = "none" -> "failInsert"
                 [] OTHER -> "failUpdate")
    /\ seen' = [seen EXCEPT ![c] = 0]
    /\ UNCHANGED <<disk, ingest, asset, bytes, manifest, subject, troubled>>

\* The failure is committed, whatever the row says by now; inserting it loses
\* against a row another delivery committed meanwhile.
RecordFailure(h) ==
    LET u == subject[h] IN
    /\ pc[h] \in {"failUpdate", "failInsert"}
    /\ rowLock[u] = None
    /\ IF pc[h] = "failInsert" /\ ingest[u].status # "none"
         THEN UNCHANGED <<ingest, troubled>>
         ELSE /\ ingest' = [ingest EXCEPT ![u].status = "failed"]
              /\ troubled' = troubled \cup {u}
    /\ Goto(h, "bad")
    /\ UNCHANGED <<disk, asset, bytes, manifest, locks, subject, seen>>

-----------------------------------------------------------------------------
(* delete_asset *)

BeginDelete(d, c) ==
    /\ pc[d] = "idle"
    /\ asset[c] = "live"
    /\ subject' = [subject EXCEPT ![d] = c]
    /\ Goto(d, "delete")
    /\ UNCHANGED <<disk, ingest, asset, bytes, manifest, locks, seen, troubled>>

DeleteRow(d) ==
    LET c == subject[d] IN
    /\ pc[d] = "delete"
    /\ assetLock[c] = None
    /\ assetLock' = [assetLock EXCEPT ![c] = d]
    /\ Goto(d, "detach")
    /\ UNCHANGED <<disk, ingest, asset, bytes, manifest, assetsLock, storageLock,
                   profileLock, rowLock, subject, seen, troubled>>

\* The ingests that name the asset, which the foreign key sets to NULL.
Naming(c) == {u \in Uploads : ingest[u].asset = c}

DetachIngests(d) ==
    LET c == subject[d] IN
    /\ pc[d] = "detach"
    /\ \A u \in Naming(c) : rowLock[u] = None
    /\ rowLock' = [u \in Uploads |-> IF u \in Naming(c) THEN d ELSE rowLock[u]]
    /\ Goto(d, "refund")
    /\ UNCHANGED <<disk, ingest, asset, bytes, manifest, assetsLock, storageLock,
                   profileLock, assetLock, subject, seen, troubled>>

\* apply_storage_delta, also when the DELETE found no row.
RefundBytes(d) ==
    /\ pc[d] = "refund"
    /\ profileLock = None
    /\ profileLock' = d
    /\ Goto(d, "removed")
    /\ UNCHANGED <<disk, ingest, asset, bytes, manifest, assetsLock, storageLock,
                   rowLock, assetLock, subject, seen, troubled>>

\* Mutant: the bytes of the deleted asset are not given back.
CommitDeleteKeepingBytes(d) ==
    LET c == subject[d] IN
    /\ pc[d] = "removed"
    /\ asset' = [asset EXCEPT ![c] = "deleted"]
    /\ ingest' = [u \in Uploads |->
                    IF u \in Naming(c) THEN [ingest[u] EXCEPT !.asset = None] ELSE ingest[u]]
    /\ troubled' = troubled \cup {subject[c]}
    /\ ReleaseLocks({d})
    /\ Goto(d, "unlink")
    /\ UNCHANGED <<disk, bytes, manifest, subject, seen>>

CommitDelete(d) ==
    LET c == subject[d] IN
    /\ pc[d] = "removed"
    /\ asset' = [asset EXCEPT ![c] = "deleted"]
    /\ bytes' = IF bytes = 0 THEN 0 ELSE bytes - 1
    /\ ingest' = [u \in Uploads |->
                    IF u \in Naming(c) THEN [ingest[u] EXCEPT !.asset = None] ELSE ingest[u]]
    /\ troubled' = troubled \cup {subject[c]}
    /\ ReleaseLocks({d})
    /\ Goto(d, "unlink")
    /\ UNCHANGED <<disk, manifest, subject, seen>>

UnlinkFile(d) ==
    /\ pc[d] = "unlink"
    /\ disk' = [disk EXCEPT ![subject[subject[d]]] = "gone"]
    /\ Goto(d, "done")
    /\ UNCHANGED <<ingest, asset, bytes, manifest, locks, subject, seen, troubled>>

-----------------------------------------------------------------------------
(* The backend dies: its transactions are rolled back and callers see no     *)
(* answer.  The hooks, processes of tusd, live on.                           *)

InBackend == {x \in Sessions : pc[x] \notin {"idle", "ok", "bad", "done"}}

BackendCrash ==
    /\ InBackend # {}
    /\ ReleaseLocks(InBackend)
    /\ pc' = [x \in Sessions |->
                IF x \notin InBackend THEN pc[x]
                ELSE IF x \in Hooks THEN "bad" ELSE "done"]
    /\ seen' = [c \in Creators |-> 0]
    /\ UNCHANGED <<disk, ingest, asset, bytes, manifest, subject, troubled>>

HookStep(h) ==
    \/ FinishHook(h) \/ LookupIngest(h) \/ InsertIngest(h) \/ ResolveFile(h)
    \/ MarkValidating(h) \/ ValidateUpload(h) \/ AddThumbnail(h) \/ RecordFailure(h)

CreatorStep(c) ==
    \/ LoadProfile(c) \/ CheckAssetsLimit(c) \/ CheckStorageLimit(c)
    \/ PersistAsset(c) \/ CommitAsset(c) \/ RollBack(c)

DeleterStep(d) ==
    DeleteRow(d) \/ DetachIngests(d) \/ RefundBytes(d) \/ CommitDelete(d) \/ UnlinkFile(d)

Next ==
    \/ \E u \in Uploads : PreCreate(u)
    \/ \E h \in Hooks, u \in Uploads : Deliver(h, u) \/ DeliverMissing(h, u)
    \/ \E h \in Hooks : HookStep(h)
    \/ \E r \in Registrars, u \in Uploads : BeginRegister(r, u)
    \/ \E c \in Creators : CreatorStep(c)
    \/ \E d \in Deleters, c \in Creators : BeginDelete(d, c)
    \/ \E d \in Deleters : DeleterStep(d)
    \/ BackendCrash

Spec == Init /\ [][Next]_vars

\* A request once accepted is served: an await on a lock that stays free ends.
Fairness ==
    /\ \A h \in Hooks : WF_vars(HookStep(h))
    /\ \A c \in Creators : WF_vars(CreatorStep(c))
    /\ \A d \in Deleters : WF_vars(DeleterStep(d))

FairSpec == Spec /\ Fairness

-----------------------------------------------------------------------------
(* Properties *)

\* The user never has more assets than the tier allows, however finalizations,
\* registrations and deletions interleave (check_assets_limit counts and the
\* caller inserts under one advisory lock).
AssetLimitHolds == Cardinality(Live) <= AssetLimit

\* The profile is never charged for more than the assets that exist, although
\* the charge, the refund and the rows change in several statements, sessions
\* and crashes (apply_storage_delta in the caller's transaction).
NeverOvercharged == bytes <= Cardinality(Live)

\* The assets the webhook made of an upload.
Finalizations(u) == {h \in Hooks : subject[h] = u /\ asset[h] # "none"}

\* However often and however concurrently an upload is delivered, it becomes
\* one asset as long as no delivery failed and the asset was not deleted
\* (_get_or_create_ingest and the unique upload_id).
IdempotentUntilFailure ==
    \A u \in Uploads \ troubled : Cardinality(Finalizations(u)) <= 1

\* What get_upload_status answers: the manifest counts only without a row.
ReportedStatus(u) ==
    CASE ingest[u].status # "none" -> ingest[u].status
      [] u \in manifest -> "failed"
      [] OTHER -> "unknown"

\* No upload disappears: once a delivery is over, its upload was made an asset
\* or its owner is told that it failed, also when the backend died half-way
\* (post-finish's manifest and _mark_ingest_failed complete each other).
OutcomeIsReported ==
    \A h \in Hooks : pc[h] = "done" =>
        \/ Finalizations(subject[h]) # {}
        \/ ReportedStatus(subject[h]) = "failed"

\* Every delivery, registration and deletion ends: the locks, taken in
\* different orders by different requests, never make a circle, and every way
\* out of a transaction drops them.
SessionsEnd == \A x \in Sessions : (pc[x] # "idle") ~> (pc[x] = "done")

=============================================================================

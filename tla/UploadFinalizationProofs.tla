---------------------- MODULE UploadFinalizationProofs ----------------------
(***************************************************************************)
(* Proofs about UploadFinalization, for any number of uploads, deliveries, *)
(* registrations and deletions, and any limits.                            *)
(***************************************************************************)
EXTENDS UploadFinalization, FiniteSetTheorems, TLAPS

-----------------------------------------------------------------------------
(* Type correctness.  A session that has begun names an upload or, if it    *)
(* deletes, an asset that was created: manifest and troubled need it.       *)

SubjectInv ==
    /\ \A c \in Creators :
         pc[c] # "idle" \/ asset[c] # "none" => subject[c] \in Uploads
    /\ \A d \in Deleters :
         pc[d] # "idle" => subject[d] \in Creators /\ asset[subject[d]] # "none"

TypeInv == TypeOK /\ SubjectInv

\* With no session begun the types hold.
THEOREM InitType == Init => TypeInv
BY DEF Init, TypeInv, TypeOK, SubjectInv, Place, IngestStatus, Label, Sessions, Creators

\* The end of transactions keeps the locks well typed.
LEMMA ReleaseType ==
    ASSUME TypeOK, NEW gone, ReleaseLocks(gone)
    PROVE  /\ assetsLock' \in Sessions \cup {None}
           /\ storageLock' \in Sessions \cup {None}
           /\ profileLock' \in Sessions \cup {None}
           /\ rowLock' \in [Uploads -> Sessions \cup {None}]
           /\ assetLock' \in [Creators -> Sessions \cup {None}]
BY DEF TypeOK, ReleaseLocks

\* A step of a begun creator that leaves the assets alone keeps the subjects.
LEMMA SubjectStays ==
    ASSUME TypeOK, SubjectInv, NEW x \in Sessions, pc[x] # "idle",
           NEW label, Goto(x, label), UNCHANGED <<subject, asset>>
    PROVE  SubjectInv'
<1>1. Creators \subseteq Sessions /\ Deleters \subseteq Sessions
  BY DEF Sessions
<1>2. \A y \in Sessions : pc'[y] # "idle" => pc[y] # "idle"
  BY DEF Goto, TypeOK
<1> QED
  BY <1>1, <1>2 DEF SubjectInv

\* The steps of a delivery keep the types.
LEMMA HookType ==
    ASSUME TypeInv, NEW h \in Hooks, HookStep(h)
    PROVE  TypeInv'
<1>0. h \in Creators /\ h \in Sessions /\ TypeOK /\ SubjectInv
  BY DEF Creators, Sessions, TypeInv
<1>1. CASE FinishHook(h)
  <2>1. subject[h] \in Uploads
    BY <1>0, <1>1 DEF FinishHook, SubjectInv
  <2>2. SubjectInv'
    BY <1>0, <1>1, SubjectStays DEF FinishHook
  <2> QED
    BY <1>0, <1>1, <2>1, <2>2 DEF FinishHook, Goto, TypeInv, TypeOK, Label, locks
<1>2. CASE LookupIngest(h)
  <2>1. PICK label \in {"insert", "ok", "resolve"} : Goto(h, label)
    BY <1>2 DEF LookupIngest
  <2>2. SubjectInv'
    BY <1>0, <1>2, <2>1, SubjectStays DEF LookupIngest
  <2> QED
    BY <1>0, <1>2, <2>1, <2>2 DEF LookupIngest, Goto, TypeInv, TypeOK, Label, locks
<1>3. CASE InsertIngest(h)
  <2>1. PICK label \in {"resolve", "lookup"} : Goto(h, label)
    BY <1>3 DEF InsertIngest
  <2>2. SubjectInv'
    BY <1>0, <1>3, <2>1, SubjectStays DEF InsertIngest
  <2>3. rowLock' \in [Uploads -> Sessions \cup {None}]
    BY <1>0, <1>3 DEF InsertIngest, TypeOK
  <2> QED
    BY <1>0, <1>3, <2>1, <2>2, <2>3 DEF InsertIngest, Goto, TypeInv, TypeOK, Label
<1>4. CASE ResolveFile(h)
  <2>1. PICK label \in {"mark", "fail"} : Goto(h, label)
    BY <1>4 DEF ResolveFile
  <2>2. SubjectInv'
    BY <1>0, <1>4, <2>1, SubjectStays DEF ResolveFile
  <2> QED
    BY <1>0, <1>4, <2>1, <2>2 DEF ResolveFile, Goto, TypeInv, TypeOK, Label, locks
<1>5. CASE MarkValidating(h)
  <2>1. SubjectInv'
    BY <1>0, <1>5, SubjectStays DEF MarkValidating
  <2> QED
    BY <1>0, <1>5, <2>1 DEF MarkValidating, Goto, TypeInv, TypeOK, Label
<1>6. CASE ValidateUpload(h)
  <2>1. PICK label \in {"profile", "fail"} : Goto(h, label)
    BY <1>6 DEF ValidateUpload
  <2>2. SubjectInv'
    BY <1>0, <1>6, <2>1, SubjectStays DEF ValidateUpload
  <2> QED
    BY <1>0, <1>6, <2>1, <2>2 DEF ValidateUpload, Goto, TypeInv, TypeOK, Label, locks
<1>7. CASE AddThumbnail(h)
  <2>1. PICK label \in {"ok", "fail"} : Goto(h, label)
    BY <1>7 DEF AddThumbnail
  <2>2. SubjectInv'
    BY <1>0, <1>7, <2>1, SubjectStays DEF AddThumbnail
  <2> QED
    BY <1>0, <1>7, <2>1, <2>2 DEF AddThumbnail, Goto, TypeInv, TypeOK, Label, locks
<1>8. CASE RecordFailure(h)
  <2>1. subject[h] \in Uploads
    BY <1>0, <1>8 DEF RecordFailure, SubjectInv
  <2>2. SubjectInv'
    BY <1>0, <1>8, SubjectStays DEF RecordFailure
  <2>3. ingest' \in [Uploads -> [status : IngestStatus, asset : Creators \cup {None}]]
    BY <1>0, <1>8, <2>1 DEF RecordFailure, TypeOK, IngestStatus
  <2>4. troubled' \subseteq Uploads
    BY <1>0, <1>8, <2>1 DEF RecordFailure, TypeOK
  <2> QED
    BY <1>0, <1>8, <2>2, <2>3, <2>4 DEF RecordFailure, Goto, TypeInv, TypeOK, Label, locks
<1> QED
  BY <1>1, <1>2, <1>3, <1>4, <1>5, <1>6, <1>7, <1>8 DEF HookStep

\* The steps shared by deliveries and registrations keep the types.
LEMMA CreatorType ==
    ASSUME TypeInv, NEW c \in Creators, CreatorStep(c)
    PROVE  TypeInv'
<1>0. c \in Sessions /\ TypeOK /\ SubjectInv
  BY DEF Sessions, TypeInv
<1>1. CASE LoadProfile(c)
  <2>1. PICK label \in {"count", "fail"} : Goto(c, label)
    BY <1>1 DEF LoadProfile
  <2>2. SubjectInv'
    BY <1>0, <1>1, <2>1, SubjectStays DEF LoadProfile
  <2>3. seen' \in [Creators -> Nat]
    BY <1>0, <1>1 DEF LoadProfile, TypeOK
  <2> QED
    BY <1>0, <1>1, <2>1, <2>2, <2>3 DEF LoadProfile, Goto, TypeInv, TypeOK, Label, locks
<1>2. CASE CheckAssetsLimit(c)
  <2>1. PICK label \in {"charge", "fail"} : Goto(c, label)
    BY <1>2 DEF CheckAssetsLimit
  <2>2. SubjectInv'
    BY <1>0, <1>2, <2>1, SubjectStays DEF CheckAssetsLimit
  <2> QED
    BY <1>0, <1>2, <2>1, <2>2 DEF CheckAssetsLimit, Goto, TypeInv, TypeOK, Label
<1>3. CASE CheckStorageLimit(c)
  <2>1. PICK label \in {"persist", "fail"} : Goto(c, label)
    BY <1>3 DEF CheckStorageLimit
  <2>2. SubjectInv'
    BY <1>0, <1>3, <2>1, SubjectStays DEF CheckStorageLimit
  <2> QED
    BY <1>0, <1>3, <2>1, <2>2 DEF CheckStorageLimit, Goto, TypeInv, TypeOK, Label
<1>4. CASE PersistAsset(c)
  <2>1. SubjectInv'
    BY <1>0, <1>4, SubjectStays DEF PersistAsset
  <2> QED
    BY <1>0, <1>4, <2>1 DEF PersistAsset, Goto, TypeInv, TypeOK, Label
<1>5. CASE CommitAsset(c)
  <2>1. PICK label \in {"thumbnail", "done"} : Goto(c, label)
    BY <1>5 DEF CommitAsset
  <2>2. subject[c] \in Uploads
    BY <1>0, <1>5 DEF CommitAsset, SubjectInv
  <2>3. asset' = [asset EXCEPT ![c] = "live"] /\ subject' = subject
    BY <1>5 DEF CommitAsset
  <2>4. SubjectInv'
    <3>1. \A x \in Sessions : pc'[x] # "idle" => pc[x] # "idle"
      BY <1>0, <1>5, <2>1 DEF CommitAsset, Goto, TypeOK
    <3>2. \A b \in Creators : asset'[b] # "none" => asset[b] # "none" \/ b = c
      BY <2>3 DEF TypeOK
    <3>3. \A b \in Creators : asset[b] # "none" => asset'[b] # "none"
      BY <1>0, <2>3 DEF TypeOK
    <3>4. Creators \subseteq Sessions /\ Deleters \subseteq Sessions
      BY DEF Sessions
    <3> QED
      BY <1>0, <2>2, <2>3, <3>1, <3>2, <3>3, <3>4 DEF SubjectInv
  <2>5. ingest' \in [Uploads -> [status : IngestStatus, asset : Creators \cup {None}]]
    BY <1>0, <1>5 DEF CommitAsset, TypeOK, IngestStatus
  <2>6. asset' \in [Creators -> {"none", "live", "deleted"}] /\ bytes' \in Nat
    BY <1>0, <1>5, <2>3 DEF CommitAsset, TypeOK
  <2>7. pc' \in [Sessions -> Label]
    BY <1>0, <2>1 DEF Goto, TypeOK, Label
  <2> QED
    BY <1>0, <1>5, <2>4, <2>5, <2>6, <2>7, ReleaseType DEF CommitAsset, TypeInv, TypeOK
<1>6. CASE RollBack(c)
  <2>1. PICK label \in {"done", "failInsert", "failUpdate"} : Goto(c, label)
    BY <1>6 DEF RollBack
  <2>2. SubjectInv'
    BY <1>0, <1>6, <2>1, SubjectStays DEF RollBack
  <2>3. pc' \in [Sessions -> Label]
    BY <1>0, <2>1 DEF Goto, TypeOK, Label
  <2>4. seen' \in [Creators -> Nat]
    BY <1>0, <1>6 DEF RollBack, TypeOK
  <2> QED
    BY <1>0, <1>6, <2>2, <2>3, <2>4, ReleaseType DEF RollBack, TypeInv, TypeOK
<1> QED
  BY <1>1, <1>2, <1>3, <1>4, <1>5, <1>6 DEF CreatorStep

\* The steps of a deletion keep the types.
LEMMA DeleterType ==
    ASSUME TypeInv, NEW d \in Deleters, DeleterStep(d)
    PROVE  TypeInv'
<1>0. d \in Sessions /\ TypeOK /\ SubjectInv
  BY DEF Sessions, TypeInv
<1>1. CASE DeleteRow(d)
  <2>1. SubjectInv'
    BY <1>0, <1>1, SubjectStays DEF DeleteRow
  <2> QED
    BY <1>0, <1>1, <2>1 DEF DeleteRow, Goto, TypeInv, TypeOK, Label
<1>2. CASE DetachIngests(d)
  <2>1. SubjectInv'
    BY <1>0, <1>2, SubjectStays DEF DetachIngests
  <2>2. rowLock' \in [Uploads -> Sessions \cup {None}]
    BY <1>0, <1>2 DEF DetachIngests, TypeOK
  <2> QED
    BY <1>0, <1>2, <2>1, <2>2 DEF DetachIngests, Goto, TypeInv, TypeOK, Label
<1>3. CASE RefundBytes(d)
  <2>1. SubjectInv'
    BY <1>0, <1>3, SubjectStays DEF RefundBytes
  <2> QED
    BY <1>0, <1>3, <2>1 DEF RefundBytes, Goto, TypeInv, TypeOK, Label
<1>4. CASE CommitDelete(d)
  <2> DEFINE c == subject[d]
  <2>1. c \in Creators /\ subject[c] \in Uploads
    BY <1>0, <1>4 DEF CommitDelete, SubjectInv
  <2>2. asset' = [asset EXCEPT ![c] = "deleted"] /\ subject' = subject
    BY <1>4 DEF CommitDelete
  <2>3. SubjectInv'
    <3>1. \A x \in Sessions : pc'[x] # "idle" => pc[x] # "idle"
      BY <1>0, <1>4 DEF CommitDelete, Goto, TypeOK
    <3>2. \A b \in Creators : asset'[b] # "none" => asset[b] # "none" \/ b = c
      BY <2>2 DEF TypeOK
    <3>3. \A b \in Creators : asset[b] # "none" => asset'[b] # "none"
      BY <1>0, <2>2 DEF TypeOK
    <3>4. Creators \subseteq Sessions /\ Deleters \subseteq Sessions
      BY DEF Sessions
    <3> QED
      BY <1>0, <2>1, <2>2, <3>1, <3>2, <3>3, <3>4 DEF SubjectInv
  <2>4. ingest' \in [Uploads -> [status : IngestStatus, asset : Creators \cup {None}]]
    <3>1. ASSUME NEW u \in Uploads
          PROVE  [ingest[u] EXCEPT !.asset = None]
                   \in [status : IngestStatus, asset : Creators \cup {None}]
      BY <1>0, <3>1 DEF TypeOK
    <3> QED
      BY <1>0, <1>4, <3>1 DEF CommitDelete, TypeOK
  <2>5. asset' \in [Creators -> {"none", "live", "deleted"}] /\ bytes' \in Nat
    <3>1. bytes \in Nat /\ bytes' = IF bytes = 0 THEN 0 ELSE bytes - 1
      BY <1>0, <1>4 DEF CommitDelete, TypeOK
    <3>2. asset \in [Creators -> {"none", "live", "deleted"}]
      BY <1>0 DEF TypeOK
    <3> QED
      BY <2>1, <2>2, <3>1, <3>2
  <2>6. pc' \in [Sessions -> Label] /\ troubled' \subseteq Uploads
    BY <1>0, <1>4, <2>1 DEF CommitDelete, Goto, TypeOK, Label
  <2> QED
    BY <1>0, <1>4, <2>3, <2>4, <2>5, <2>6, ReleaseType DEF CommitDelete, TypeInv, TypeOK
<1>5. CASE UnlinkFile(d)
  <2>1. SubjectInv'
    BY <1>0, <1>5, SubjectStays DEF UnlinkFile
  <2>2. disk' \in [Uploads -> Place]
    BY <1>0, <1>5 DEF UnlinkFile, TypeOK, Place
  <2> QED
    BY <1>0, <1>5, <2>1, <2>2 DEF UnlinkFile, Goto, TypeInv, TypeOK, Label, locks
<1> QED
  BY <1>1, <1>2, <1>3, <1>4, <1>5 DEF DeleterStep

\* Taking on a request or a delivery keeps the types.
LEMMA BeginType ==
    ASSUME TypeInv, NEW x \in Sessions, pc[x] = "idle", NEW label \in Label,
           NEW it, subject' = [subject EXCEPT ![x] = it], Goto(x, label),
           x \in Creators => it \in Uploads,
           x \in Deleters => it \in Creators /\ asset[it] # "none",
           UNCHANGED <<ingest, asset, bytes, locks, seen, troubled>>,
           disk' \in [Uploads -> Place], manifest' \subseteq Uploads
    PROVE  TypeInv'
<1>0. TypeOK /\ SubjectInv
  BY DEF TypeInv
<1>1. subject' \in [Sessions -> Uploads \cup Creators \cup {None}]
  BY <1>0 DEF TypeOK, Sessions
<1>2. \A y \in Sessions \ {x} : subject'[y] = subject[y] /\ pc'[y] = pc[y]
  BY <1>0 DEF TypeOK, Goto
<1>3. subject'[x] = it
  BY <1>0 DEF TypeOK
<1>4. Creators \subseteq Sessions /\ Deleters \subseteq Sessions
  BY DEF Sessions
<1>5. SubjectInv'
  BY <1>0, <1>2, <1>3, <1>4 DEF SubjectInv
<1> QED
  BY <1>0, <1>1, <1>5 DEF TypeInv, TypeOK, Goto, locks

\* Every step keeps the types.
LEMMA NextType == TypeInv /\ [Next]_vars => TypeInv'
<1> SUFFICES ASSUME TypeInv, [Next]_vars PROVE TypeInv'
  OBVIOUS
<1>0. /\ TypeOK /\ SubjectInv
      /\ Hooks \subseteq Creators /\ Registrars \subseteq Creators
      /\ Creators \subseteq Sessions /\ Deleters \subseteq Sessions
      /\ Creators \cap Deleters = {}
  BY UploadAssumption DEF TypeInv, Creators, Sessions
<1>1. ASSUME NEW u \in Uploads, PreCreate(u) PROVE TypeInv'
  BY <1>0, <1>1 DEF PreCreate, TypeInv, TypeOK, SubjectInv, Place, locks
<1>2. ASSUME NEW h \in Hooks, NEW u \in Uploads, Deliver(h, u) PROVE TypeInv'
  <2>1. disk' \in [Uploads -> Place]
    BY <1>0, <1>2 DEF Deliver, TypeOK, Place
  <2>2. "lookup" \in Label
    BY DEF Label
  <2> QED
    BY <1>0, <1>2, <2>1, <2>2, BeginType DEF Deliver, TypeOK
<1>3. ASSUME NEW h \in Hooks, NEW u \in Uploads, DeliverMissing(h, u) PROVE TypeInv'
  <2>1. manifest' \subseteq Uploads /\ "done" \in Label
    BY <1>0, <1>3 DEF DeliverMissing, TypeOK, Label
  <2> QED
    BY <1>0, <1>3, <2>1, BeginType DEF DeliverMissing, TypeOK
<1>4. ASSUME NEW r \in Registrars, NEW u \in Uploads, BeginRegister(r, u) PROVE TypeInv'
  <2>1. "profile" \in Label
    BY DEF Label
  <2> QED
    BY <1>0, <1>4, <2>1, BeginType DEF BeginRegister, TypeOK
<1>5. ASSUME NEW d \in Deleters, NEW c \in Creators, BeginDelete(d, c) PROVE TypeInv'
  <2>1. "delete" \in Label
    BY DEF Label
  <2> QED
    BY <1>0, <1>5, <2>1, BeginType DEF BeginDelete, TypeOK
<1>6. CASE BackendCrash
  <2>1. pc' \in [Sessions -> Label]
    BY <1>0, <1>6 DEF BackendCrash, TypeOK, Label
  <2>2. \A x \in Sessions : pc'[x] # "idle" => pc[x] # "idle"
    <3> SUFFICES ASSUME NEW x \in Sessions, pc[x] = "idle" PROVE pc'[x] = "idle"
      OBVIOUS
    <3>1. x \notin InBackend
      BY DEF InBackend
    <3> QED
      BY <1>6, <3>1 DEF BackendCrash
  <2>3. SubjectInv'
    BY <1>0, <1>6, <2>2 DEF BackendCrash, SubjectInv
  <2> QED
    BY <1>0, <1>6, <2>1, <2>3, ReleaseType DEF BackendCrash, TypeInv, TypeOK
<1>7. CASE UNCHANGED vars
  BY <1>0, <1>7 DEF vars, locks, TypeInv, TypeOK, SubjectInv
<1> QED
  BY <1>1, <1>2, <1>3, <1>4, <1>5, <1>6, <1>7, HookType, CreatorType, DeleterType DEF Next

\* Every reachable state is well typed, and every session's subject exists.
THEOREM TypesAndSubjects == Spec => []TypeInv
BY InitType, NextType, PTL DEF Spec

\* Every reachable state is well typed.
THEOREM TypeCorrect == Spec => []TypeOK
BY TypesAndSubjects, PTL DEF TypeInv

-----------------------------------------------------------------------------
(* The asset limit and the charged bytes.  A creator before its commit has   *)
(* no asset, and from the count to the commit it holds the advisory lock, so *)
(* the free place it counted stays free.                                     *)

Early == {"idle", "lookup", "insert", "resolve", "mark", "validate",
          "profile", "count", "charge", "persist", "commit"}
Holding == {"charge", "persist", "commit"}

EarlyInv == \A c \in Creators : pc[c] \in Early => asset[c] = "none"
LimitInv == \A c \in Creators :
              pc[c] \in Holding => assetsLock = c /\ Cardinality(Live) < AssetLimit

QuotaInv == EarlyInv /\ LimitInv /\ AssetLimitHolds /\ NeverOvercharged

\* The user's assets are finitely many.
LEMMA LiveFinite == IsFiniteSet(Live) /\ Cardinality(Live) \in Nat
<1>1. Live \subseteq Creators
  BY DEF Live
<1> QED
  BY <1>1, UploadAssumption, FS_Subset, FS_CardinalityType

\* Without an asset the limits hold.
THEOREM InitQuota == Init => QuotaInv
<1> SUFFICES ASSUME Init PROVE QuotaInv
  OBVIOUS
<1>1. Live = {}
  BY DEF Init, Live
<1>2. Cardinality(Live) = 0
  BY <1>1, FS_EmptySet
<1>3. EarlyInv /\ LimitInv
  BY DEF Init, EarlyInv, LimitInv, Holding, Creators, Sessions
<1> QED
  BY <1>2, <1>3, UploadAssumption DEF Init, QuotaInv, AssetLimitHolds, NeverOvercharged

\* A step that moves one session, leaves assets and bytes alone and drops at
\* most that session's own lock keeps the limits.
LEMMA QuotaStays ==
    ASSUME TypeOK, QuotaInv, NEW x \in Sessions, NEW label, Goto(x, label),
           UNCHANGED <<asset, bytes>>,
           label \in Early => pc[x] \in Early,
           label \in Holding => pc[x] \in Holding /\ assetsLock' = assetsLock,
           assetsLock' = assetsLock \/ assetsLock = x
    PROVE  QuotaInv'
<1>1. Live' = Live
  BY DEF Live
<1>2. Creators \subseteq Sessions
  BY DEF Sessions
<1>3. \A y \in Sessions : pc'[y] = IF y = x THEN label ELSE pc[y]
  BY DEF Goto, TypeOK
<1>4. EarlyInv'
  BY <1>2, <1>3 DEF QuotaInv, EarlyInv
<1>5. LimitInv'
  BY <1>1, <1>2, <1>3 DEF QuotaInv, LimitInv
<1> QED
  BY <1>1, <1>4, <1>5 DEF QuotaInv, AssetLimitHolds, NeverOvercharged

\* A new asset takes the place that was counted for it.
LEMMA CommitAssetQuota ==
    ASSUME TypeOK, QuotaInv, NEW c \in Creators, CommitAsset(c)
    PROVE  QuotaInv'
<1>0. c \in Sessions /\ Creators \subseteq Sessions
  BY DEF Sessions
<1>1. PICK label \in {"thumbnail", "done"} : Goto(c, label)
  BY DEF CommitAsset
<1>2. \A y \in Sessions : pc'[y] = IF y = c THEN label ELSE pc[y]
  BY <1>0, <1>1 DEF Goto, TypeOK
<1>3. asset[c] = "none" /\ assetsLock = c /\ Cardinality(Live) < AssetLimit
  BY DEF CommitAsset, QuotaInv, EarlyInv, LimitInv, Early, Holding
<1>4. Live' = Live \cup {c} /\ c \notin Live
  BY <1>3 DEF CommitAsset, Live, TypeOK
<1>5. Cardinality(Live') = Cardinality(Live) + 1
  BY <1>4, LiveFinite, FS_AddElement
<1>6. EarlyInv'
  BY <1>1, <1>2, <1>0 DEF CommitAsset, QuotaInv, EarlyInv, Early, TypeOK
<1>7. LimitInv'
  <2>1. \A b \in Creators : pc'[b] \notin Holding
    BY <1>0, <1>1, <1>2, <1>3 DEF QuotaInv, LimitInv, Holding
  <2> QED
    BY <2>1 DEF LimitInv
<1>8. AssetLimitHolds'
  BY <1>3, <1>5, LiveFinite, UploadAssumption DEF AssetLimitHolds
<1>9. NeverOvercharged'
  BY <1>5, LiveFinite DEF CommitAsset, QuotaInv, NeverOvercharged, TypeOK
<1> QED
  BY <1>6, <1>7, <1>8, <1>9 DEF QuotaInv

\* A deletion gives back one byte for at most one asset.
LEMMA CommitDeleteQuota ==
    ASSUME TypeInv, QuotaInv, NEW d \in Deleters, CommitDelete(d)
    PROVE  QuotaInv'
<1> DEFINE c == subject[d]
<1>0. /\ TypeOK /\ d \in Sessions /\ Creators \subseteq Sessions /\ d \notin Creators
      /\ c \in Creators /\ asset[c] # "none"
  BY UploadAssumption DEF TypeInv, SubjectInv, CommitDelete, Sessions
<1>1. \A y \in Creators : pc'[y] = pc[y]
  BY <1>0 DEF CommitDelete, Goto, TypeOK
<1>2. asset' = [asset EXCEPT ![c] = "deleted"]
  BY DEF CommitDelete
<1>3. Live' = Live \ {c}
  BY <1>0, <1>2 DEF Live, TypeOK
<1>4. Cardinality(Live') = IF c \in Live THEN Cardinality(Live) - 1 ELSE Cardinality(Live)
  BY <1>3, LiveFinite, FS_RemoveElement
<1>5. Cardinality(Live) \in Nat /\ (c \in Live => Cardinality(Live) # 0)
  BY LiveFinite, FS_EmptySet
<1>6. EarlyInv'
  BY <1>0, <1>1, <1>2 DEF QuotaInv, EarlyInv, TypeOK
<1>7. \A b \in Creators : assetsLock = b => assetsLock' = b
  BY <1>0 DEF CommitDelete, ReleaseLocks
<1>8. LimitInv'
  BY <1>1, <1>4, <1>5, <1>7, UploadAssumption DEF QuotaInv, LimitInv
<1>9. AssetLimitHolds'
  BY <1>4, <1>5, UploadAssumption DEF QuotaInv, AssetLimitHolds
<1>10. bytes \in Nat /\ bytes' = IF bytes = 0 THEN 0 ELSE bytes - 1
  BY <1>0 DEF CommitDelete, TypeOK
<1>11. NeverOvercharged'
  BY <1>4, <1>5, <1>10 DEF QuotaInv, NeverOvercharged
<1> QED
  BY <1>6, <1>8, <1>9, <1>11 DEF QuotaInv

\* The steps of a delivery that are its own keep the limits.
LEMMA HookQuota ==
    ASSUME TypeOK, QuotaInv, NEW h \in Hooks, HookStep(h)
    PROVE  QuotaInv'
<1>0. h \in Sessions
  BY DEF Creators, Sessions
<1>1. PICK label \in {"done", "insert", "ok", "resolve", "lookup", "mark", "fail",
                      "validate", "profile", "bad"} : Goto(h, label)
  BY DEF HookStep, FinishHook, LookupIngest, InsertIngest, ResolveFile,
         MarkValidating, ValidateUpload, AddThumbnail, RecordFailure
<1>2. UNCHANGED <<asset, bytes, assetsLock>>
  BY DEF HookStep, FinishHook, LookupIngest, InsertIngest, ResolveFile,
         MarkValidating, ValidateUpload, AddThumbnail, RecordFailure, locks
<1>3. label \in Early => pc[h] \in Early
  <2>1. pc'[h] = label
    BY <1>0, <1>1 DEF Goto, TypeOK
  <2>2. CASE FinishHook(h) \/ AddThumbnail(h) \/ RecordFailure(h)
    <3>1. pc'[h] \in {"done", "ok", "fail", "bad"}
      BY <1>0, <2>2 DEF FinishHook, AddThumbnail, RecordFailure, Goto, TypeOK
    <3> QED
      BY <2>1, <3>1 DEF Early
  <2>3. CASE ~(FinishHook(h) \/ AddThumbnail(h) \/ RecordFailure(h))
    BY <2>3 DEF HookStep, LookupIngest, InsertIngest, ResolveFile, MarkValidating,
                ValidateUpload, Early
  <2> QED
    BY <2>2, <2>3
<1> QED
  BY <1>0, <1>1, <1>2, <1>3, QuotaStays DEF Holding

\* The steps shared by deliveries and registrations keep the limits.
LEMMA CreatorQuota ==
    ASSUME TypeOK, QuotaInv, NEW c \in Creators, CreatorStep(c)
    PROVE  QuotaInv'
<1>0. c \in Sessions /\ Creators \subseteq Sessions
  BY DEF Sessions
<1>1. CASE LoadProfile(c)
  <2>1. PICK label \in {"count", "fail"} : Goto(c, label)
    BY <1>1 DEF LoadProfile
  <2> QED
    BY <1>0, <1>1, <2>1, QuotaStays DEF LoadProfile, locks, Early, Holding
<1>2. CASE CheckAssetsLimit(c)
  <2>1. PICK label \in {"charge", "fail"} :
             Goto(c, label) /\ (label = "charge" => Cardinality(Live) < AssetLimit)
    BY <1>2 DEF CheckAssetsLimit
  <2>2. \A y \in Sessions : pc'[y] = IF y = c THEN label ELSE pc[y]
    BY <1>0, <2>1 DEF Goto, TypeOK
  <2>3. Live' = Live /\ asset' = asset /\ bytes' = bytes
    BY <1>2 DEF CheckAssetsLimit, Live
  <2>4. \A b \in Creators : pc[b] \notin Holding
    BY <1>0, <1>2, UploadAssumption DEF CheckAssetsLimit, QuotaInv, LimitInv
  <2>5. LimitInv'
    <3>1. assetsLock' = c
      BY <1>2 DEF CheckAssetsLimit
    <3>2. ASSUME NEW b \in Creators, pc'[b] \in Holding
          PROVE  b = c /\ Cardinality(Live) < AssetLimit
      BY <1>0, <2>1, <2>2, <2>4, <3>2 DEF Holding
    <3> QED
      BY <2>3, <3>1, <3>2 DEF LimitInv
  <2>6. EarlyInv'
    BY <1>0, <1>2, <2>1, <2>2, <2>3 DEF CheckAssetsLimit, QuotaInv, EarlyInv, Early
  <2> QED
    BY <2>3, <2>5, <2>6 DEF QuotaInv, AssetLimitHolds, NeverOvercharged
<1>3. CASE CheckStorageLimit(c)
  <2>1. PICK label \in {"persist", "fail"} : Goto(c, label)
    BY <1>3 DEF CheckStorageLimit
  <2> QED
    BY <1>0, <1>3, <2>1, QuotaStays DEF CheckStorageLimit, Early, Holding
<1>4. CASE PersistAsset(c)
  BY <1>0, <1>4, QuotaStays DEF PersistAsset, Early, Holding
<1>5. CASE CommitAsset(c)
  BY <1>5, CommitAssetQuota
<1>6. CASE RollBack(c)
  <2>1. PICK label \in {"done", "failInsert", "failUpdate"} : Goto(c, label)
    BY <1>6 DEF RollBack
  <2>2. assetsLock' = assetsLock \/ assetsLock = c
    BY <1>6 DEF RollBack, ReleaseLocks
  <2> QED
    BY <1>0, <1>6, <2>1, <2>2, QuotaStays DEF RollBack, Early, Holding
<1> QED
  BY <1>1, <1>2, <1>3, <1>4, <1>5, <1>6 DEF CreatorStep

\* Every step keeps the limits.
LEMMA NextQuota == TypeInv /\ QuotaInv /\ [Next]_vars => QuotaInv'
<1> SUFFICES ASSUME TypeInv, QuotaInv, [Next]_vars PROVE QuotaInv'
  OBVIOUS
<1>0. /\ TypeOK
      /\ Hooks \subseteq Creators /\ Registrars \subseteq Creators
      /\ Creators \subseteq Sessions /\ Deleters \subseteq Sessions
  BY DEF TypeInv, Creators, Sessions
<1>1. CASE UNCHANGED vars \/ \E u \in Uploads : PreCreate(u)
  <2>1. UNCHANGED <<asset, bytes, assetsLock, pc>>
    BY <1>1 DEF PreCreate, vars, locks
  <2> QED
    BY <2>1 DEF QuotaInv, EarlyInv, LimitInv, AssetLimitHolds, NeverOvercharged, Live
<1>2. ASSUME NEW h \in Hooks, NEW u \in Uploads, Deliver(h, u) \/ DeliverMissing(h, u)
      PROVE  QuotaInv'
  <2>1. PICK label \in {"lookup", "done"} : Goto(h, label)
    BY <1>2 DEF Deliver, DeliverMissing
  <2>2. pc[h] = "idle" /\ UNCHANGED <<asset, bytes, assetsLock>>
    BY <1>2 DEF Deliver, DeliverMissing, locks
  <2> QED
    BY <1>0, <2>1, <2>2, QuotaStays DEF Early, Holding
<1>3. ASSUME NEW r \in Registrars, NEW u \in Uploads, BeginRegister(r, u)
      PROVE  QuotaInv'
  BY <1>0, <1>3, QuotaStays DEF BeginRegister, locks, Early, Holding
<1>4. ASSUME NEW d \in Deleters, NEW c \in Creators, BeginDelete(d, c)
      PROVE  QuotaInv'
  BY <1>0, <1>4, QuotaStays DEF BeginDelete, locks, Early, Holding
<1>5. ASSUME NEW d \in Deleters, DeleterStep(d)
      PROVE  QuotaInv'
  <2>1. CASE CommitDelete(d)
    BY <2>1, CommitDeleteQuota
  <2>2. CASE ~CommitDelete(d)
    <3>1. PICK label \in {"detach", "refund", "removed", "done"} : Goto(d, label)
      BY <1>5, <2>2 DEF DeleterStep, DeleteRow, DetachIngests, RefundBytes, UnlinkFile
    <3>2. UNCHANGED <<asset, bytes, assetsLock>>
      BY <1>5, <2>2 DEF DeleterStep, DeleteRow, DetachIngests, RefundBytes, UnlinkFile, locks
    <3> QED
      BY <1>0, <3>1, <3>2, QuotaStays DEF Early, Holding
  <2> QED
    BY <2>1, <2>2
<1>6. CASE BackendCrash
  <2>1. UNCHANGED <<asset, bytes>> /\ Live' = Live
    BY <1>6 DEF BackendCrash, Live
  <2>2. \A x \in Sessions : pc'[x] \in {pc[x], "bad", "done"}
    BY <1>6 DEF BackendCrash
  <2>3. \A x \in Sessions : pc'[x] \notin Holding
    <3> SUFFICES ASSUME NEW x \in Sessions PROVE pc'[x] \notin Holding
      OBVIOUS
    <3>1. CASE x \in InBackend
      BY <1>6, <3>1 DEF BackendCrash, Holding
    <3>2. CASE x \notin InBackend
      BY <1>6, <3>2 DEF BackendCrash, InBackend, Holding
    <3> QED
      BY <3>1, <3>2
  <2>4. EarlyInv'
    BY <1>0, <2>1, <2>2 DEF QuotaInv, EarlyInv, Early
  <2>5. LimitInv'
    BY <1>0, <2>3 DEF LimitInv
  <2> QED
    BY <2>1, <2>4, <2>5 DEF QuotaInv, AssetLimitHolds, NeverOvercharged
<1> QED
  BY <1>0, <1>1, <1>2, <1>3, <1>4, <1>5, <1>6, HookQuota, CreatorQuota DEF Next

\* The limits and what they rest on hold in every reachable state.
THEOREM QuotaInvariant == Spec => []QuotaInv
BY InitQuota, NextQuota, TypesAndSubjects, PTL DEF Spec

\* A user never has more assets than the tier allows, for any number of
\* overlapping finalizations, registrations and deletions.
THEOREM AssetsWithinLimit == Spec => []AssetLimitHolds
BY QuotaInvariant, PTL DEF QuotaInv

\* The profile is never charged for more bytes than its assets have.
THEOREM ChargeIsCovered == Spec => []NeverOvercharged
BY QuotaInvariant, PTL DEF QuotaInv

-----------------------------------------------------------------------------
(* Outcomes.  The row of an upload that was finalized stays so unless a      *)
(* failure is written over it, and then the asset that was made remains; a   *)
(* hook that got no success leaves a manifest.                               *)

NamedInv ==
    \A u \in Uploads : ingest[u].asset # None => ingest[u].asset \in Finalizations(u)

FinalizedInv ==
    \A u \in Uploads : ingest[u].status = "finalized" => Finalizations(u) # {}

AnswerInv ==
    \A h \in Hooks :
        /\ pc[h] = "thumbnail" => asset[h] # "none"
        /\ pc[h] = "ok" => Finalizations(subject[h]) # {}
        /\ pc[h] = "done" => Finalizations(subject[h]) # {} \/ subject[h] \in manifest

(* One asset for each upload.  Whoever works on an upload without trouble    *)
(* holds its row, which it inserted and has not committed.                   *)

Working == {"resolve", "mark", "validate", "profile", "count", "charge", "persist", "commit"}

Untroubled == Uploads \ troubled

UnmadeInv == \A u \in Uploads : ingest[u].status = "none" => Finalizations(u) = {}

CommittedInv ==
    \A u \in Untroubled : ingest[u].status # "none" =>
        ingest[u].status = "finalized" /\ ingest[u].asset # None

RowHeld ==
    \A h \in Hooks : pc[h] \in Working /\ subject[h] \in Untroubled =>
        rowLock[subject[h]] = h /\ ingest[subject[h]].status = "none"

MadeOnce == \A u \in Untroubled : \A g, h \in Finalizations(u) : g = h

DeliveryInv ==
    /\ NamedInv /\ FinalizedInv /\ AnswerInv
    /\ UnmadeInv /\ CommittedInv /\ RowHeld /\ MadeOnce

\* Before the first upload there is nothing to report.
LEMMA InitDelivery == Init => DeliveryInv
<1> SUFFICES ASSUME Init PROVE DeliveryInv
  OBVIOUS
<1>1. \A h \in Hooks : pc[h] = "idle" /\ asset[h] = "none"
  BY DEF Init, Sessions, Creators
<1>2. \A u \in Uploads : Finalizations(u) = {}
  BY <1>1 DEF Finalizations
<1> QED
  BY <1>1, <1>2 DEF Init, DeliveryInv, NamedInv, FinalizedInv, AnswerInv, UnmadeInv,
     CommittedInv, RowHeld, MadeOnce, Working, Untroubled

\* A step that only moves session x, and touches at most the rows that are free
\* or its own, keeps it if the new place of x is in order.
LEMMA DeliveryStays ==
    ASSUME TypeOK, DeliveryInv, NEW x \in Sessions, NEW label, Goto(x, label),
           UNCHANGED <<ingest, asset, subject, troubled>>, manifest \subseteq manifest',
           \A u \in Uploads : rowLock'[u] = rowLock[u] \/ rowLock[u] \in {x, None},
           x \in Hooks =>
             /\ label = "thumbnail" => asset[x] # "none"
             /\ label = "ok" => Finalizations(subject[x]) # {}
             /\ label = "done" => Finalizations(subject[x]) # {} \/ subject[x] \in manifest'
             /\ label \in Working /\ subject[x] \in Untroubled =>
                  rowLock'[subject[x]] = x /\ ingest[subject[x]].status = "none"
    PROVE  DeliveryInv'
<1>1. \A y \in Sessions : pc'[y] = IF y = x THEN label ELSE pc[y]
  BY DEF Goto, TypeOK
<1>2. Hooks \subseteq Sessions /\ None \notin Sessions
  BY UploadAssumption DEF Sessions, Creators
<1>3. \A u : Finalizations(u)' = Finalizations(u)
  BY DEF Finalizations
<1>4. NamedInv' /\ FinalizedInv' /\ UnmadeInv' /\ CommittedInv' /\ MadeOnce'
  BY <1>3 DEF DeliveryInv, NamedInv, FinalizedInv, UnmadeInv, CommittedInv, MadeOnce, Untroubled
<1>5. AnswerInv'
  BY <1>1, <1>2, <1>3 DEF DeliveryInv, AnswerInv
<1>6. RowHeld'
  <2> SUFFICES ASSUME NEW h \in Hooks, pc'[h] \in Working, subject[h] \in Untroubled
               PROVE  rowLock'[subject[h]] = h /\ ingest[subject[h]].status = "none"
    BY DEF RowHeld, Untroubled
  <2>1. CASE h = x
    BY <1>1, <1>2, <2>1
  <2>2. CASE h # x
    <3>1. rowLock[subject[h]] = h /\ ingest[subject[h]].status = "none"
      BY <1>1, <1>2, <2>2 DEF DeliveryInv, RowHeld
    <3> QED
      BY <1>2, <2>2, <3>1 DEF Untroubled
  <2> QED
    BY <2>1, <2>2
<1> QED
  BY <1>4, <1>5, <1>6 DEF DeliveryInv

\* Taking on a request or a delivery makes nothing: a session that begins has
\* no asset that a row could name.
LEMMA DeliveryBegins ==
    ASSUME TypeOK, QuotaInv, DeliveryInv, NEW x \in Sessions, pc[x] = "idle",
           NEW it, subject' = [subject EXCEPT ![x] = it],
           NEW label \in {"lookup", "profile", "delete", "done"}, Goto(x, label),
           x \in Hooks => label # "profile" /\ (label = "done" => it \in manifest'),
           manifest \subseteq manifest',
           UNCHANGED <<ingest, asset, rowLock, troubled>>
    PROVE  DeliveryInv'
<1>0. Hooks \subseteq Sessions /\ Hooks \subseteq Creators
  BY DEF Sessions, Creators
<1>1. \A h \in Hooks : pc'[h] = IF h = x THEN label ELSE pc[h]
  BY <1>0 DEF Goto, TypeOK
<1>2. \A h \in Hooks : subject'[h] = IF h = x THEN it ELSE subject[h]
  BY <1>0 DEF TypeOK
<1>3. x \in Hooks => asset[x] = "none"
  BY <1>0 DEF QuotaInv, EarlyInv, Early
<1>4. \A u : Finalizations(u)' = Finalizations(u)
  BY <1>2, <1>3 DEF Finalizations
<1>5. NamedInv' /\ FinalizedInv' /\ UnmadeInv' /\ CommittedInv' /\ MadeOnce'
  BY <1>4 DEF DeliveryInv, NamedInv, FinalizedInv, UnmadeInv, CommittedInv, MadeOnce, Untroubled
<1>6. AnswerInv'
  BY <1>1, <1>2, <1>4 DEF DeliveryInv, AnswerInv
<1>7. RowHeld'
  BY <1>1, <1>2 DEF DeliveryInv, RowHeld, Working, Untroubled
<1> QED
  BY <1>5, <1>6, <1>7 DEF DeliveryInv

\* A commit adds its asset to an upload that had none, or belongs to a
\* registration.
LEMMA CommitAssetDelivery ==
    ASSUME TypeInv, QuotaInv, DeliveryInv, NEW c \in Creators, CommitAsset(c)
    PROVE  DeliveryInv'
<1> DEFINE u == subject[c]
<1>0. /\ TypeOK /\ c \in Sessions /\ Hooks \subseteq Sessions /\ Hooks \subseteq Creators
      /\ u \in Uploads /\ pc[c] = "commit" /\ asset[c] = "none" /\ c # None
      /\ UNCHANGED <<manifest, subject, troubled>>
  BY UploadAssumption DEF TypeInv, SubjectInv, CommitAsset, Sessions, Creators, QuotaInv,
     EarlyInv, Early
<1>1. \A h \in Hooks : pc'[h] = IF h = c THEN "thumbnail" ELSE pc[h]
  BY <1>0 DEF CommitAsset, Goto, TypeOK
<1>2. \A b \in Creators : asset'[b] = IF b = c THEN "live" ELSE asset[b]
  BY <1>0 DEF CommitAsset, TypeOK
<1>3. \A v \in Uploads : rowLock'[v] = IF rowLock[v] = c THEN None ELSE rowLock[v]
  BY DEF CommitAsset, ReleaseLocks
<1>4. \A v : Finalizations(v)' =
        IF c \in Hooks /\ v = u THEN Finalizations(v) \cup {c} ELSE Finalizations(v)
  BY <1>0, <1>2 DEF Finalizations
<1>5. CASE c \notin Hooks
  <2>1. ingest' = ingest /\ \A v : Finalizations(v)' = Finalizations(v)
    BY <1>4, <1>5 DEF CommitAsset
  <2>2. NamedInv' /\ FinalizedInv' /\ UnmadeInv' /\ CommittedInv' /\ MadeOnce'
    BY <1>0, <2>1 DEF DeliveryInv, NamedInv, FinalizedInv, UnmadeInv, CommittedInv, MadeOnce, Untroubled
  <2>3. AnswerInv'
    BY <1>0, <1>1, <1>2, <1>5, <2>1 DEF DeliveryInv, AnswerInv
  <2>4. RowHeld'
    BY <1>0, <1>1, <1>3, <1>5, <2>1 DEF DeliveryInv, RowHeld, Untroubled
  <2> QED
    BY <2>2, <2>3, <2>4 DEF DeliveryInv
<1>6. CASE c \in Hooks
  <2>1. \A v \in Uploads : ingest'[v] = IF v = u THEN [status |-> "finalized", asset |-> c]
                                                 ELSE ingest[v]
    BY <1>0, <1>6 DEF CommitAsset, TypeOK
  <2>2. NamedInv' /\ FinalizedInv'
    BY <1>4, <1>6, <2>1 DEF DeliveryInv, NamedInv, FinalizedInv
  <2>3. UnmadeInv' /\ CommittedInv'
    BY <1>0, <1>4, <1>6, <2>1 DEF DeliveryInv, UnmadeInv, CommittedInv, Untroubled
  <2>4. AnswerInv'
    BY <1>0, <1>1, <1>2, <1>4 DEF DeliveryInv, AnswerInv
  <2>5. u \in Untroubled => rowLock[u] = c /\ Finalizations(u) = {}
    BY <1>0, <1>6 DEF DeliveryInv, RowHeld, UnmadeInv, Working
  <2>6. MadeOnce'
    BY <1>0, <1>4, <2>5 DEF DeliveryInv, MadeOnce, Untroubled
  <2>7. RowHeld'
    <3> SUFFICES ASSUME NEW h \in Hooks, pc'[h] \in Working, subject[h] \in Untroubled
                 PROVE  rowLock'[subject[h]] = h /\ ingest'[subject[h]].status = "none"
      BY <1>0 DEF RowHeld, Untroubled
    <3>1. h # c /\ pc[h] \in Working /\ subject[h] \in Uploads
      BY <1>1 DEF Working, Untroubled
    <3>2. rowLock[subject[h]] = h /\ ingest[subject[h]].status = "none"
      BY <3>1 DEF DeliveryInv, RowHeld
    <3>3. subject[h] # u
      BY <2>5, <3>1, <3>2
    <3> QED
      BY <1>3, <2>1, <3>1, <3>2, <3>3
  <2> QED
    BY <2>2, <2>3, <2>4, <2>6, <2>7 DEF DeliveryInv
<1> QED
  BY <1>5, <1>6

\* A failure is written over the row of an upload that is in trouble from then on.
LEMMA RecordFailureDelivery ==
    ASSUME TypeInv, DeliveryInv, NEW h \in Hooks, RecordFailure(h)
    PROVE  DeliveryInv'
<1> DEFINE u == subject[h]
<1>0. /\ TypeOK /\ h \in Sessions /\ Hooks \subseteq Sessions /\ u \in Uploads
      /\ UNCHANGED <<manifest, subject, asset, rowLock>>
  BY DEF TypeInv, SubjectInv, RecordFailure, Sessions, Creators, locks
<1>1. Goto(h, "bad")
  BY DEF RecordFailure
<1>2. CASE UNCHANGED <<ingest, troubled>>
  BY <1>0, <1>1, <1>2, DeliveryStays DEF Working
<1>3. CASE ~UNCHANGED <<ingest, troubled>>
  <2>1. ingest' = [ingest EXCEPT ![u].status = "failed"] /\ troubled' = troubled \cup {u}
    BY <1>3 DEF RecordFailure
  <2>2. \A v \in Uploads : /\ ingest'[v].asset = ingest[v].asset
                           /\ ingest'[v].status = IF v = u THEN "failed" ELSE ingest[v].status
    BY <1>0, <2>1 DEF TypeOK
  <2>3. Untroubled' = Untroubled \ {u}
    BY <2>1 DEF Untroubled
  <2>4. \A v : Finalizations(v)' = Finalizations(v)
    BY <1>0 DEF Finalizations
  <2>5. NamedInv' /\ FinalizedInv' /\ UnmadeInv'
    BY <2>2, <2>4 DEF DeliveryInv, NamedInv, FinalizedInv, UnmadeInv
  <2>6. CommittedInv' /\ MadeOnce'
    BY <2>2, <2>3, <2>4 DEF DeliveryInv, CommittedInv, MadeOnce, Untroubled
  <2>7. \A g \in Hooks : pc'[g] = IF g = h THEN "bad" ELSE pc[g]
    BY <1>0, <1>1 DEF Goto, TypeOK
  <2>8. AnswerInv'
    BY <1>0, <2>4, <2>7 DEF DeliveryInv, AnswerInv
  <2>9. RowHeld'
    BY <1>0, <2>2, <2>3, <2>7 DEF DeliveryInv, RowHeld, Working, Untroubled
  <2> QED
    BY <2>5, <2>6, <2>8, <2>9 DEF DeliveryInv
<1> QED
  BY <1>2, <1>3

\* A deletion takes its asset out of the rows of an upload that is in trouble
\* from then on.
LEMMA CommitDeleteDelivery ==
    ASSUME TypeInv, DeliveryInv, NEW d \in Deleters, CommitDelete(d)
    PROVE  DeliveryInv'
<1> DEFINE c == subject[d]
<1>0. /\ TypeOK /\ d \in Sessions /\ d \notin Hooks
      /\ Hooks \subseteq Sessions /\ Hooks \subseteq Creators
      /\ c \in Creators /\ asset[c] # "none" /\ c # None
      /\ UNCHANGED <<manifest, subject>>
  BY UploadAssumption DEF TypeInv, SubjectInv, CommitDelete, Sessions, Creators
<1>1. \A h \in Hooks : pc'[h] = pc[h]
  BY <1>0 DEF CommitDelete, Goto, TypeOK
<1>2. \A b \in Creators : asset'[b] = "none" <=> asset[b] = "none"
  BY <1>0 DEF CommitDelete, TypeOK
<1>3. \A v : Finalizations(v)' = Finalizations(v)
  BY <1>0, <1>2 DEF Finalizations
<1>4. \A v \in Uploads :
        /\ ingest'[v].status = ingest[v].status
        /\ ingest'[v].asset = IF ingest[v].asset = c THEN None ELSE ingest[v].asset
  BY <1>0 DEF CommitDelete, Naming, TypeOK
<1>5. troubled' = troubled \cup {subject[c]}
  BY DEF CommitDelete
<1>6. \A v \in Uploads : ingest[v].asset = c => v = subject[c]
  BY <1>0 DEF DeliveryInv, NamedInv, Finalizations
<1>7. NamedInv' /\ FinalizedInv' /\ UnmadeInv'
  BY <1>3, <1>4 DEF DeliveryInv, NamedInv, FinalizedInv, UnmadeInv
<1>8. CommittedInv' /\ MadeOnce'
  BY <1>3, <1>4, <1>5, <1>6 DEF DeliveryInv, CommittedInv, MadeOnce, Untroubled
<1>9. AnswerInv'
  BY <1>0, <1>1, <1>2, <1>3 DEF DeliveryInv, AnswerInv
<1>10. \A v \in Uploads : rowLock[v] # d => rowLock'[v] = rowLock[v]
  BY DEF CommitDelete, ReleaseLocks
<1>11. RowHeld'
  BY <1>0, <1>1, <1>4, <1>5, <1>10 DEF DeliveryInv, RowHeld, Untroubled
<1> QED
  BY <1>7, <1>8, <1>9, <1>11 DEF DeliveryInv

\* A delivery's own steps keep it: the lookup believes a row only with its asset,
\* and an upload without trouble goes on only after its row was inserted.
LEMMA HookDelivery ==
    ASSUME TypeInv, QuotaInv, DeliveryInv, NEW h \in Hooks, HookStep(h)
    PROVE  DeliveryInv'
<1> DEFINE u == subject[h]
<1>0. TypeOK /\ SubjectInv /\ h \in Sessions /\ h \in Creators
  BY DEF TypeInv, Sessions, Creators
<1>1. CASE FinishHook(h)
  <2>1. Goto(h, "done") /\ pc[h] \in {"ok", "bad"} /\ manifest \subseteq manifest'
    BY <1>1 DEF FinishHook
  <2>2. Finalizations(u) # {} \/ u \in manifest'
    BY <1>1 DEF FinishHook, DeliveryInv, AnswerInv
  <2> QED
    BY <1>0, <1>1, <2>1, <2>2, DeliveryStays DEF FinishHook, locks, Working
<1>2. CASE LookupIngest(h)
  <2>1. u \in Uploads
    BY <1>0, <1>2 DEF LookupIngest, SubjectInv
  <2>2. PICK label \in {"insert", "ok", "resolve"} :
             /\ Goto(h, label)
             /\ label = "ok" => ingest[u].status = "finalized"
             /\ label = "resolve" => ingest[u].status # "none" /\
                  ~(ingest[u].status = "finalized" /\ ingest[u].asset # None)
    BY <1>2 DEF LookupIngest
  <2>3. label = "ok" => Finalizations(u) # {}
    BY <2>1, <2>2 DEF DeliveryInv, FinalizedInv
  <2>4. label = "resolve" => u \notin Untroubled
    BY <2>1, <2>2 DEF DeliveryInv, CommittedInv
  <2> QED
    BY <1>0, <1>2, <2>2, <2>3, <2>4, DeliveryStays DEF LookupIngest, locks, Working
<1>3. CASE InsertIngest(h)
  <2>1. u \in Uploads
    BY <1>0, <1>3 DEF InsertIngest, SubjectInv
  <2>2. PICK label \in {"lookup", "resolve"} :
             Goto(h, label) /\ (label = "resolve" => ingest[u].status = "none"
                                                     /\ rowLock' = [rowLock EXCEPT ![u] = h])
    BY <1>3 DEF InsertIngest
  <2>3. \A v \in Uploads : rowLock'[v] = rowLock[v] \/ rowLock[v] \in {h, None}
    BY <1>0, <1>3 DEF InsertIngest, TypeOK
  <2>4. label = "resolve" => rowLock'[u] = h
    BY <1>0, <2>1, <2>2 DEF TypeOK
  <2> QED
    BY <1>0, <1>3, <2>2, <2>3, <2>4, DeliveryStays DEF InsertIngest, Working
<1>4. CASE ResolveFile(h) \/ ValidateUpload(h)
  <2>1. PICK label \in {"mark", "profile", "fail"} : Goto(h, label)
    BY <1>4 DEF ResolveFile, ValidateUpload
  <2>2. u \in Untroubled => rowLock[u] = h /\ ingest[u].status = "none"
    BY <1>4 DEF ResolveFile, ValidateUpload, DeliveryInv, RowHeld, Working
  <2>3. UNCHANGED <<ingest, asset, subject, troubled, manifest, rowLock>>
    BY <1>4 DEF ResolveFile, ValidateUpload, locks
  <2> QED
    BY <1>0, <2>1, <2>2, <2>3, DeliveryStays
<1>5. CASE MarkValidating(h)
  <2>1. u \in Untroubled => rowLock[u] = h /\ ingest[u].status = "none"
    BY <1>5 DEF MarkValidating, DeliveryInv, RowHeld, Working
  <2>2. /\ \A v \in Uploads : rowLock'[v] = rowLock[v] \/ rowLock[v] \in {h, None}
        /\ u \in Uploads => rowLock'[u] = h
    BY <1>0, <1>5 DEF MarkValidating, Free, TypeOK
  <2> QED
    BY <1>0, <1>5, <2>1, <2>2, DeliveryStays DEF MarkValidating, Untroubled
<1>6. CASE AddThumbnail(h)
  <2>1. PICK label \in {"ok", "fail"} : Goto(h, label)
    BY <1>6 DEF AddThumbnail
  <2>2. h \in Finalizations(u)
    BY <1>6 DEF AddThumbnail, DeliveryInv, AnswerInv, Finalizations
  <2> QED
    BY <1>0, <1>6, <2>1, <2>2, DeliveryStays DEF AddThumbnail, locks, Working
<1>7. CASE RecordFailure(h)
  BY <1>7, RecordFailureDelivery
<1> QED
  BY <1>1, <1>2, <1>3, <1>4, <1>5, <1>6, <1>7 DEF HookStep

\* The steps shared with registrations keep it: the row stays locked until the
\* commit or the rollback.
LEMMA CreatorDelivery ==
    ASSUME TypeInv, QuotaInv, DeliveryInv, NEW c \in Creators, CreatorStep(c)
    PROVE  DeliveryInv'
<1>0. TypeOK /\ c \in Sessions
  BY DEF TypeInv, Sessions
<1>1. CASE CommitAsset(c)
  BY <1>1, CommitAssetDelivery
<1>2. CASE RollBack(c)
  <2>1. PICK label \in {"done", "failInsert", "failUpdate"} :
             Goto(c, label) /\ (label = "done" => c \in Registrars)
    BY <1>2 DEF RollBack
  <2>2. \A v \in Uploads : rowLock'[v] = rowLock[v] \/ rowLock[v] = c
    BY <1>2 DEF RollBack, ReleaseLocks
  <2>3. c \in Hooks => label # "done"
    BY <2>1, UploadAssumption
  <2> QED
    BY <1>0, <1>2, <2>1, <2>2, <2>3, DeliveryStays DEF RollBack, Working
<1>3. CASE ~CommitAsset(c) /\ ~RollBack(c)
  <2>1. PICK label \in {"count", "charge", "persist", "commit", "fail"} : Goto(c, label)
    BY <1>3 DEF CreatorStep, LoadProfile, CheckAssetsLimit, CheckStorageLimit, PersistAsset
  <2>2. pc[c] \in Working
    BY <1>3 DEF CreatorStep, LoadProfile, CheckAssetsLimit, CheckStorageLimit, PersistAsset, Working
  <2>3. UNCHANGED <<ingest, asset, subject, troubled, manifest, rowLock>>
    BY <1>3 DEF CreatorStep, LoadProfile, CheckAssetsLimit, CheckStorageLimit, PersistAsset, locks
  <2>4. c \in Hooks /\ subject[c] \in Untroubled =>
          rowLock[subject[c]] = c /\ ingest[subject[c]].status = "none"
    BY <2>2 DEF DeliveryInv, RowHeld
  <2> QED
    BY <1>0, <2>1, <2>3, <2>4, DeliveryStays
<1> QED
  BY <1>1, <1>2, <1>3

\* The steps of a deletion keep it: it waits for the rows that name its asset.
LEMMA DeleterDelivery ==
    ASSUME TypeInv, DeliveryInv, NEW d \in Deleters, DeleterStep(d)
    PROVE  DeliveryInv'
<1>0. TypeOK /\ d \in Sessions /\ d \notin Hooks
  BY UploadAssumption DEF TypeInv, Sessions, Creators
<1>1. CASE CommitDelete(d)
  BY <1>1, CommitDeleteDelivery
<1>2. CASE ~CommitDelete(d)
  <2>1. PICK label \in {"detach", "refund", "removed", "done"} : Goto(d, label)
    BY <1>2 DEF DeleterStep, DeleteRow, DetachIngests, RefundBytes, UnlinkFile
  <2>2. UNCHANGED <<ingest, asset, subject, troubled, manifest>>
    BY <1>2 DEF DeleterStep, DeleteRow, DetachIngests, RefundBytes, UnlinkFile
  <2>3. \A v \in Uploads : rowLock'[v] = rowLock[v] \/ rowLock[v] = None
    BY <1>2 DEF DeleterStep, DeleteRow, DetachIngests, RefundBytes, UnlinkFile, Naming, locks
  <2> QED
    BY <1>0, <2>1, <2>2, <2>3, DeliveryStays
<1> QED
  BY <1>1, <1>2

\* The death of the backend ends all work on rows, and what is committed stays.
LEMMA CrashDelivery ==
    ASSUME TypeOK, DeliveryInv, BackendCrash
    PROVE  DeliveryInv'
<1>0. Hooks \subseteq Sessions
  BY DEF Sessions, Creators
<1>1. \A h \in Hooks : pc'[h] = IF h \in InBackend THEN "bad" ELSE pc[h]
  BY <1>0 DEF BackendCrash
<1>2. UNCHANGED <<ingest, asset, subject, troubled, manifest>>
  BY DEF BackendCrash
<1>3. \A v : Finalizations(v)' = Finalizations(v)
  BY <1>2 DEF Finalizations
<1>4. NamedInv' /\ FinalizedInv' /\ UnmadeInv' /\ CommittedInv' /\ MadeOnce'
  BY <1>2, <1>3 DEF DeliveryInv, NamedInv, FinalizedInv, UnmadeInv, CommittedInv, MadeOnce, Untroubled
<1>5. AnswerInv'
  BY <1>1, <1>2, <1>3 DEF DeliveryInv, AnswerInv
<1>6. \A h \in Hooks : pc'[h] \notin Working
  BY <1>0, <1>1 DEF InBackend, Working
<1>7. RowHeld'
  BY <1>6 DEF RowHeld
<1> QED
  BY <1>4, <1>5, <1>7 DEF DeliveryInv

\* Every step keeps it.
LEMMA NextDelivery == TypeInv /\ QuotaInv /\ DeliveryInv /\ [Next]_vars => DeliveryInv'
<1> SUFFICES ASSUME TypeInv, QuotaInv, DeliveryInv, [Next]_vars PROVE DeliveryInv'
  OBVIOUS
<1>0. /\ TypeOK /\ Hooks \cap Registrars = {} /\ Hooks \cap Deleters = {}
      /\ Hooks \subseteq Sessions /\ Registrars \subseteq Sessions /\ Deleters \subseteq Sessions
  BY UploadAssumption DEF TypeInv, Creators, Sessions
<1>1. CASE UNCHANGED vars \/ \E u \in Uploads : PreCreate(u)
  <2>1. UNCHANGED <<ingest, asset, subject, troubled, manifest, rowLock, pc>>
    BY <1>1 DEF PreCreate, vars, locks
  <2>2. \A v : Finalizations(v)' = Finalizations(v)
    BY <2>1 DEF Finalizations
  <2> QED
    BY <2>1, <2>2 DEF DeliveryInv, NamedInv, FinalizedInv, AnswerInv, UnmadeInv,
       CommittedInv, RowHeld, MadeOnce, Untroubled
<1>2. ASSUME NEW h \in Hooks, NEW u \in Uploads, Deliver(h, u) PROVE DeliveryInv'
  <2>1. /\ pc[h] = "idle" /\ Goto(h, "lookup") /\ subject' = [subject EXCEPT ![h] = u]
        /\ manifest \subseteq manifest' /\ UNCHANGED <<ingest, asset, rowLock, troubled>>
    BY <1>2 DEF Deliver, locks
  <2> QED
    BY <1>0, <2>1, DeliveryBegins
<1>3. ASSUME NEW h \in Hooks, NEW u \in Uploads, DeliverMissing(h, u) PROVE DeliveryInv'
  <2>1. u \in manifest' /\ manifest \subseteq manifest' /\ Goto(h, "done")
    BY <1>3 DEF DeliverMissing
  <2> QED
    BY <1>0, <1>3, <2>1, DeliveryBegins DEF DeliverMissing, locks
<1>4. ASSUME NEW r \in Registrars, NEW u \in Uploads, BeginRegister(r, u) PROVE DeliveryInv'
  BY <1>0, <1>4, DeliveryBegins DEF BeginRegister, locks
<1>5. ASSUME NEW d \in Deleters, NEW c \in Creators, BeginDelete(d, c) PROVE DeliveryInv'
  BY <1>0, <1>5, DeliveryBegins DEF BeginDelete, locks
<1>6. CASE BackendCrash
  BY <1>0, <1>6, CrashDelivery
<1>7. CASE \/ \E h \in Hooks : HookStep(h)
           \/ \E c \in Creators : CreatorStep(c)
           \/ \E d \in Deleters : DeleterStep(d)
  BY <1>7, HookDelivery, CreatorDelivery, DeleterDelivery
<1> QED
  BY <1>1, <1>2, <1>3, <1>4, <1>5, <1>6, <1>7 DEF Next

\* The outcomes and what they rest on hold in every reachable state.
THEOREM DeliveryInvariant == Spec => []DeliveryInv
BY InitDelivery, NextDelivery, TypesAndSubjects, QuotaInvariant, PTL DEF Spec

\* A delivery that is over made an asset of its upload or the owner is told of
\* the failure, whatever deletions, deliveries and crashes came between.
THEOREM OutcomesReported == Spec => []OutcomeIsReported
<1>1. TypeInv /\ DeliveryInv => OutcomeIsReported
  <2> SUFFICES ASSUME TypeInv, DeliveryInv, NEW h \in Hooks, pc[h] = "done",
                      Finalizations(subject[h]) = {}
               PROVE  ReportedStatus(subject[h]) = "failed"
    BY DEF OutcomeIsReported
  <2> DEFINE u == subject[h]
  <2>1. u \in Uploads /\ u \in manifest
    BY DEF TypeInv, SubjectInv, DeliveryInv, AnswerInv, Creators
  <2>2. ingest[u].status \in {"none", "failed"}
    <3>1. ingest[u].status \in IngestStatus
      BY <2>1 DEF TypeInv, TypeOK
    <3> QED
      BY <2>1, <3>1 DEF DeliveryInv, FinalizedInv, IngestStatus
  <2> QED
    BY <2>1, <2>2 DEF ReportedStatus
<1> QED
  BY <1>1, TypesAndSubjects, DeliveryInvariant, PTL

\* However often an upload is delivered, one asset is made of it as long as no
\* delivery failed and the asset was not deleted.
THEOREM FinalizedOnce == Spec => []IdempotentUntilFailure
<1>1. DeliveryInv => IdempotentUntilFailure
  <2> SUFFICES ASSUME DeliveryInv, NEW u \in Uploads \ troubled
               PROVE  Cardinality(Finalizations(u)) <= 1
    BY DEF IdempotentUntilFailure
  <2>1. CASE Finalizations(u) = {}
    BY <2>1, FS_EmptySet
  <2>2. CASE Finalizations(u) # {}
    <3>1. PICK h : h \in Finalizations(u)
      BY <2>2
    <3>2. Finalizations(u) = {h}
      BY <3>1 DEF DeliveryInv, MadeOnce, Untroubled
    <3> QED
      BY <3>2, FS_Singleton
  <2> QED
    BY <2>1, <2>2
<1> QED
  BY <1>1, DeliveryInvariant, PTL

=============================================================================

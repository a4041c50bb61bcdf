------------------------------ MODULE Playout ------------------------------
(***************************************************************************)
(* Editing what a stream plays while it plays: the slot files and queue of *)
(* a running stream (backend/app/streaming/hot_swap.py and the slot part   *)
(* of playlist_builder.py) and the requests that edit its video collection *)
(* (services/streams/service.py live_update_stream and                     *)
(* enqueue_stream_asset, services/media_collections/service.py             *)
(* replace_items, services/assets/service.py delete_asset).                *)
(*                                                                         *)
(* A request is one database transaction; an action is the code between    *)
(* two awaits.  PostgreSQL, READ COMMITTED: a DELETE works on the rows its *)
(* statement saw and waits for the row locks of other transactions; an     *)
(* INSERT waits for a pending row with the same position or asset and      *)
(* fails on a committed one; it keeps its assets from being deleted until  *)
(* it commits.  DELETE of an asset cascades to its items.  Positions and   *)
(* slots are counted from 1 here, from 0 in the code.                      *)
(*                                                                         *)
(* One stream with one collection and one target ("audio" works the same). *)
(* An automatic restart of FFmpeg is not modelled here.                    *)
(***************************************************************************)
EXTENDS Naturals, Sequences, FiniteSets, FiniteSetsExt, Functions

CONSTANTS
    Assets,       \* the user's video assets
    Edits,        \* the requests that edit the collection
    Requests,     \* what they may ask for: a subset of Ops
    Initial,      \* the list the collection was created with
    MaxSlots,     \* slot files of a playlist at most (4 in the code)
    MaxLaunches,  \* launches of the stream after the first (a bound)
    None          \* no asset

Item == [asset : Assets, mode : {"loop", "once", "shuffle"}]

\* A list has at least one item.
List == Seq(Item) \ {<<>>}

\* PATCH of the running stream with a hot swap or a restart, replacement of the
\* items of the collection, an asset added to the running stream, a deletion.
Ops == [kind : {"swap", "restart", "replace"}, list : List]
          \cup [kind : {"enqueue"}, asset : Assets]
          \cup [kind : {"delete"}, asset : Assets, force : BOOLEAN]

ASSUME PlayoutAssumption ==
    /\ MaxSlots \in Nat \ {0, 1}
    /\ MaxLaunches \in Nat
    /\ None \notin Assets \cup Edits
    /\ Initial \in List
    /\ Requests \subseteq Ops

VARIABLES
    alive,      \* committed rows of assets
    files,      \* assets whose media file is on disk
    items,      \* committed rows of collection_items
    active,     \* media_collections.is_active
    pc,         \* where each request is
    op,         \* what each request does, on which asset or list
    seen,       \* the rows each request read last
    wants,      \* whether the stream was running when the request loaded it
    dels, ins,  \* rows each open transaction deleted and inserted
    impacted,   \* a delete_asset found the asset in the collection
    depleted,   \* its audit found the collection empty
    live,       \* the stream runs, registered with the hot swap manager
    assigned,   \* SlotQueue.assigned
    slot,       \* what the slot files link to
    queue,      \* SlotQueue.queue
    head,       \* SlotQueue.playhead_index
    loop, shuffle,  \* its flags
    ticking,    \* its playhead task has not died
    launches    \* launches so far

db == <<alive, files, items, active>>
session == <<pc, op, seen, wants, dels, ins, impacted, depleted>>
runtime == <<live, assigned, slot, queue, head, loop, shuffle, ticking, launches>>
vars == <<db, session, runtime>>

-----------------------------------------------------------------------------
(* Rows and lists *)

\* normalize_collection_items keeps the first item of each asset, in order.
Normalized(list) ==
    {i \in DOMAIN list : \A j \in DOMAIN list : j < i => list[j].asset # list[i].asset}

\* The rows replace_collection_items adds, numbered afresh; by tells the rows
\* of one request from those of another, as their primary keys do.
RowsOf(list, by) ==
    LET kept == Normalized(list)
    IN  {[pos |-> Cardinality({j \in kept : j <= i}),
          asset |-> list[i].asset, mode |-> list[i].mode, by |-> by] : i \in kept}

\* ORDER BY position: the k-th row has fewer than k before it.
InOrder(rows) ==
    [k \in 1..Cardinality(rows) |->
        CHOOSE r \in rows : /\ Cardinality({t \in rows : t.pos < r.pos}) < k
                            /\ k <= Cardinality({t \in rows : t.pos <= r.pos})]

AssetsOf(rows) == LET sorted == InOrder(rows) IN [i \in DOMAIN sorted |-> sorted[i].asset]

\* any(item.loop_mode != "once"), any(item.loop_mode == "shuffle")
Loops(rows) == \E r \in rows : r.mode # "once"
Shuffles(rows) == \E r \in rows : r.mode = "shuffle"

\* What the transaction of e sees of the collection.
View(e) == (items \ dels[e]) \cup ins[e]

Label == {"idle", "validate", "delete", "deleting", "insert", "fetch", "apply", "commit",
          "usage", "impact", "drop", "cascade", "charge", "audit", "unlink", "done", "failed"}

Rows == [pos : Nat, asset : Assets, mode : {"loop", "once", "shuffle"}, by : Edits \cup {None}]

TypeOK ==
    /\ alive \subseteq Assets /\ files \subseteq Assets
    /\ items \subseteq Rows /\ active \in BOOLEAN
    /\ \A e \in Edits : /\ pc[e] \in Label /\ op[e] \in Requests \cup {None}
                        /\ seen[e] \subseteq Rows /\ dels[e] \subseteq Rows
                        /\ ins[e] \subseteq Rows
                        /\ {wants[e], impacted[e], depleted[e]} \subseteq BOOLEAN
    /\ {live, loop, shuffle, ticking} \subseteq BOOLEAN
    /\ assigned \in Seq(Assets \cup {None}) /\ Len(assigned) <= MaxSlots
    /\ slot \in Seq(Assets \cup {None}) /\ Len(slot) = Len(assigned)
    /\ queue \in Seq(Assets)
    /\ live => head \in DOMAIN assigned
    /\ launches \in 0..MaxLaunches

-----------------------------------------------------------------------------
(* The running stream *)

\* max(2, min(4, n)) slot files, of which those without an asset are left out.
SlotCount(n) == IF n <= MaxSlots THEN n ELSE MaxSlots

\* _assign_slot_file: the slot links to the media file if there is one.
LinkTo(asset) == IF asset \in files THEN asset ELSE None

\* _build_dynamic_playlist fills the slot files and leaves the rest pending;
\* the SlotQueue made by register_stream has nothing assigned and takes the
\* pending assets, or all of them when none is pending.
Launched(rows) ==
    LET list == AssetsOf(rows)
        count == SlotCount(Len(list))
        pending == SubSeq(list, count + 1, Len(list))
    IN  /\ live' = TRUE
        /\ slot' = SubSeq(list, 1, count)
        /\ assigned' = [i \in 1..count |-> None]
        /\ queue' = IF pending # <<>> THEN pending ELSE list
        /\ head' = 1
        /\ loop' = Loops(rows)
        /\ shuffle' = Shuffles(rows)
        /\ ticking' = TRUE

\* Mutant: the recycled asset is put where the next one is taken.
RecycledFirst(at) ==
    IF assigned[at] # None /\ loop THEN <<assigned[at]>> \o queue ELSE queue

\* _advance_slot: the asset of the slot just left goes to the end of the queue.
Recycled(at) ==
    IF assigned[at] # None /\ loop THEN Append(queue, assigned[at]) ELSE queue

\* Mutant: the playhead is not wrapped around.
AdvancePastTheEnd ==
    /\ live /\ ticking
    /\ ~(assigned[head] # None /\ loop /\ shuffle)
    /\ head' = head + 1
    /\ UNCHANGED <<db, session, live, assigned, slot, queue, loop, shuffle, ticking, launches>>

\* A slot that just played gets the next asset of the queue, if there is one.
Advance ==
    /\ live /\ ticking
    /\ ~(assigned[head] # None /\ loop /\ shuffle)
    /\ LET next == Recycled(head)
           asset == IF next = <<>> THEN None ELSE next[1]
       IN  /\ queue' = IF next = <<>> THEN <<>> ELSE Tail(next)
           /\ assigned' = [assigned EXCEPT ![head] = asset]
           /\ slot' = [slot EXCEPT ![head] = LinkTo(asset)]
    /\ head' = (head % Len(assigned)) + 1
    /\ UNCHANGED <<db, session, live, loop, shuffle, ticking, launches>>

\* list.appendleft does not exist: the first asset to recycle into a shuffled
\* queue ends the playhead task, after the playhead moved.
AdvanceShuffled ==
    /\ live /\ ticking
    /\ assigned[head] # None /\ loop /\ shuffle
    /\ ticking' = FALSE
    /\ head' = (head % Len(assigned)) + 1
    /\ UNCHANGED <<db, session, live, assigned, slot, queue, loop, shuffle, launches>>

\* stop_stream, or the process exits: unregister_stream stops the queues.
Stop ==
    /\ live
    /\ live' = FALSE
    /\ UNCHANGED <<db, session, assigned, slot, queue, head, loop, shuffle, ticking, launches>>

\* A start request launches what is committed, unless nothing is or a media
\* file is missing.
Launch ==
    /\ ~live
    /\ launches < MaxLaunches
    /\ launches' = launches + 1
    /\ items # {}
    /\ \A r \in items : r.asset \in files
    /\ Launched(items)
    /\ UNCHANGED <<db, session>>

\* SlotQueue.enqueue: append, then fill every slot with nothing assigned.
\* The initial slots count as empty, the one on air too.
Filled(at, with) ==
    LET empty == {i \in DOMAIN at : at[i] = None}
        rank(i) == Cardinality({j \in empty : j <= i})
    IN  [i \in DOMAIN at |-> IF i \in empty /\ rank(i) <= Len(with) THEN with[rank(i)] ELSE at[i]]

Enqueued(asset) ==
    LET all == Append(queue, asset)
        empty == Cardinality({i \in DOMAIN assigned : assigned[i] = None})
        used == IF empty < Len(all) THEN empty ELSE Len(all)
    IN  /\ assigned' = Filled(assigned, all)
        /\ slot' = [i \in DOMAIN slot |->
                       IF assigned'[i] # assigned[i] THEN LinkTo(assigned'[i]) ELSE slot[i]]
        /\ queue' = SubSeq(all, used + 1, Len(all))
        /\ UNCHANGED <<live, head, loop, shuffle, ticking, launches>>

\* SlotQueue.replace: the slots get the first assets, the queue the others.
Replaced(rows) ==
    LET list == AssetsOf(rows)
        at(i) == IF i <= Len(list) THEN list[i] ELSE None
    IN  /\ assigned' = [i \in DOMAIN assigned |-> at(i)]
        /\ slot' = [i \in DOMAIN slot |-> IF at(i) = None THEN None ELSE LinkTo(at(i))]
        /\ queue' = SubSeq(list, Len(assigned) + 1, Len(list))
        /\ loop' = Loops(rows)
        /\ shuffle' = Shuffles(rows)
        /\ UNCHANGED <<live, head, ticking, launches>>

-----------------------------------------------------------------------------
(* Requests *)

Init ==
    /\ alive = Assets /\ files = Assets
    /\ items = RowsOf(Initial, None) /\ active = TRUE
    /\ pc = [e \in Edits |-> "idle"]
    /\ op = [e \in Edits |-> None]
    /\ seen = [e \in Edits |-> {}]
    /\ wants = [e \in Edits |-> FALSE]
    /\ dels = [e \in Edits |-> {}]
    /\ ins = [e \in Edits |-> {}]
    /\ impacted = [e \in Edits |-> FALSE]
    /\ depleted = [e \in Edits |-> FALSE]
    /\ launches = 0
    /\ LET list == AssetsOf(items)
           count == SlotCount(Len(list))
           pending == SubSeq(list, count + 1, Len(list))
       IN  /\ live = TRUE /\ ticking = TRUE /\ head = 1
           /\ slot = SubSeq(list, 1, count)
           /\ assigned = [i \in 1..count |-> None]
           /\ queue = IF pending # <<>> THEN pending ELSE list
           /\ loop = Loops(items) /\ shuffle = Shuffles(items)

Kind(e) == op[e].kind
Replacing(e) == Kind(e) \in {"swap", "restart", "replace"}

Goto(e, label) == pc' = [pc EXCEPT ![e] = label]

\* Mutant: a request ends without rolling its transaction back.
FinishHolding(e, label) ==
    /\ Goto(e, label)
    /\ UNCHANGED <<op, seen, wants, dels, ins, impacted, depleted>>

\* The request ends, or goes on without its transaction.
Finish(e, label) ==
    /\ Goto(e, label)
    /\ dels' = [dels EXCEPT ![e] = {}]
    /\ ins' = [ins EXCEPT ![e] = {}]
    /\ seen' = [seen EXCEPT ![e] = {}]
    /\ wants' = [wants EXCEPT ![e] = FALSE]
    /\ impacted' = [impacted EXCEPT ![e] = FALSE]
    /\ depleted' = [depleted EXCEPT ![e] = FALSE]
    /\ UNCHANGED op

Rollback(e) == Finish(e, "failed")

\* The request loads the stream and its collection, if it uses them.
Begin(e) ==
    /\ pc[e] = "idle"
    /\ \E o \in Requests :
          /\ op' = [op EXCEPT ![e] = o]
          /\ Goto(e, IF o.kind = "delete" THEN "usage" ELSE "validate")
          /\ seen' = [seen EXCEPT ![e] = IF o.kind \in {"restart", "enqueue"} THEN items ELSE {}]
          /\ wants' = [wants EXCEPT ![e] = o.kind \in {"swap", "enqueue"} /\ live]
    /\ UNCHANGED <<db, runtime, dels, ins, impacted, depleted>>

\* Mutant: an enqueue reaches the running stream before its row is flushed.
ValidateUnflushed(e) ==
    /\ pc[e] = "validate"
    /\ Goto(e, IF Kind(e) = "enqueue" THEN "apply" ELSE "delete")
    /\ UNCHANGED <<db, runtime, op, seen, wants, dels, ins, impacted, depleted>>

\* validate_collection_assets, or _get_asset and build_asset_payload.
Validate(e) ==
    /\ pc[e] = "validate"
    /\ \/ /\ Replacing(e)
          /\ IF \A i \in DOMAIN op[e].list : op[e].list[i].asset \in alive
             THEN Goto(e, "delete") /\ UNCHANGED <<op, seen, wants, dels, ins, impacted, depleted>>
             ELSE Rollback(e)
       \/ /\ Kind(e) = "enqueue"
          /\ IF op[e].asset \in alive \cap files
             THEN Goto(e, "insert") /\ UNCHANGED <<op, seen, wants, dels, ins, impacted, depleted>>
             ELSE Rollback(e)
    /\ UNCHANGED <<db, runtime>>

\* The DELETE of replace_collection_items sees the rows of this moment ...
DeleteItems(e) ==
    /\ pc[e] = "delete"
    /\ dels' = [dels EXCEPT ![e] = items]
    /\ Goto(e, "deleting")
    /\ UNCHANGED <<db, runtime, op, seen, wants, ins, impacted, depleted>>

\* Other transactions that hold the lock of row r.
RowHolders(e, r) == {f \in Edits \ {e} : pc[f] # "deleting" /\ r \in dels[f]}

\* Other transactions that are deleting the asset.
AssetHolders(e, a) ==
    {f \in Edits \ {e} : pc[f] \in {"cascade", "charge", "audit", "commit"}
                            /\ Kind(f) = "delete" /\ op[f].asset = a}

\* ... and deletes those that are still there when it gets their locks.
ItemsDeleted(e) ==
    /\ pc[e] = "deleting"
    /\ \A r \in dels[e] : RowHolders(e, r) = {}
    /\ dels' = [dels EXCEPT ![e] = @ \cap items]
    /\ Goto(e, "insert")
    /\ UNCHANGED <<db, runtime, op, seen, wants, ins, impacted, depleted>>

\* Mutant: no unique constraints.
NoClash(r, t) == FALSE

\* idx_collection_items_position, idx_collection_items_asset
Clash(r, t) == r.pos = t.pos \/ r.asset = t.asset

\* An enqueued asset comes after the positions the request loaded.
NewRows(e) ==
    IF Replacing(e) THEN RowsOf(op[e].list, e)
    ELSE {[pos |-> Max({0} \cup {r.pos : r \in seen[e]}) + 1,
           asset |-> op[e].asset, mode |-> "loop", by |-> e]}

\* Transactions an INSERT of the new rows of e waits for.
InsertWaits(e) ==
    UNION {{f \in Edits \ {e} : \E t \in ins[f] : Clash(r, t)}
              \cup AssetHolders(e, r.asset)
              \cup UNION {RowHolders(e, t) : t \in {t \in items \ dels[e] : Clash(r, t)}}
              : r \in NewRows(e)}

InsertFails(e) ==
    \E r \in NewRows(e) : r.asset \notin alive \/ \E t \in items \ dels[e] : Clash(r, t)

\* The flush that inserts the new rows.
InsertItems(e) ==
    /\ pc[e] = "insert"
    /\ InsertWaits(e) = {}
    /\ IF InsertFails(e)
       THEN Rollback(e)
       ELSE /\ ins' = [ins EXCEPT ![e] = NewRows(e)]
            /\ Goto(e, CASE Kind(e) = "replace" -> "commit"
                         [] Kind(e) = "swap" -> IF wants[e] THEN "fetch" ELSE "commit"
                         [] Kind(e) \in {"restart", "enqueue"} -> "apply")
            /\ UNCHANGED <<op, seen, wants, dels, impacted, depleted>>
    /\ UNCHANGED <<db, runtime>>

\* A hot swap reads the new list back with its media files.
FetchItems(e) ==
    /\ pc[e] = "fetch"
    /\ IF \A r \in View(e) : r.asset \in files
       THEN /\ seen' = [seen EXCEPT ![e] = View(e)]
            /\ Goto(e, "apply")
            /\ UNCHANGED <<op, wants, dels, ins, impacted, depleted>>
       ELSE Rollback(e)
    /\ UNCHANGED <<db, runtime>>

\* apply_live_collection_update.  StreamHotSwapState.replace_queue replaces the
\* queue and then calls a _write_queue_state it does not have.
ApplySwap(e) ==
    /\ pc[e] = "apply" /\ Kind(e) = "swap"
    /\ IF live
       THEN Replaced(seen[e]) /\ Rollback(e)
       ELSE /\ Goto(e, "commit")
            /\ UNCHANGED <<runtime, op, seen, wants, dels, ins, impacted, depleted>>
    /\ UNCHANGED db

\* restart_stream launches the items its session loaded before it replaced
\* them: loading the stream again does not refresh a loaded collection.
ApplyRestart(e) ==
    /\ pc[e] = "apply" /\ Kind(e) = "restart"
    /\ IF seen[e] # {} /\ \A r \in seen[e] : r.asset \in files
       THEN /\ Launched(seen[e])
            /\ UNCHANGED launches
            /\ Goto(e, "commit")
            /\ UNCHANGED <<op, seen, wants, dels, ins, impacted, depleted>>
       ELSE Rollback(e) /\ UNCHANGED runtime
    /\ UNCHANGED db

\* enqueue_hot_swap refuses a stream that is not running.
ApplyEnqueue(e) ==
    /\ pc[e] = "apply" /\ Kind(e) = "enqueue"
    /\ IF wants[e] /\ live
       THEN /\ Enqueued(op[e].asset)
            /\ Goto(e, "commit")
            /\ UNCHANGED <<op, seen, wants, dels, ins, impacted, depleted>>
       ELSE Rollback(e) /\ UNCHANGED runtime
    /\ UNCHANGED db

\* delete_asset: the asset must exist and, without force, be used nowhere.
CheckUsage(e) ==
    /\ pc[e] = "usage"
    /\ LET used == \E r \in items : r.asset = op[e].asset
       IN  IF op[e].asset \in alive /\ (used => op[e].force)
           THEN Goto(e, "impact") /\ UNCHANGED <<op, seen, wants, dels, ins, impacted, depleted>>
           ELSE Rollback(e)
    /\ UNCHANGED <<db, runtime>>

ReadImpact(e) ==
    /\ pc[e] = "impact"
    /\ impacted' = [impacted EXCEPT ![e] = \E r \in items : r.asset = op[e].asset]
    /\ Goto(e, "drop")
    /\ UNCHANGED <<db, runtime, op, seen, wants, dels, ins, depleted>>

\* DELETE of the assets row: it waits for another delete of it, and for
\* transactions that inserted an item that refers to it.
DropWaits(e) ==
    AssetHolders(e, op[e].asset)
        \cup {f \in Edits \ {e} : \E r \in ins[f] : r.asset = op[e].asset}

DropAsset(e) ==
    /\ pc[e] = "drop"
    /\ DropWaits(e) = {}
    /\ Goto(e, "cascade")
    /\ UNCHANGED <<db, runtime, op, seen, wants, dels, ins, impacted, depleted>>

ItemsOf(e) == {r \in items : r.asset = op[e].asset}

Cascade(e) ==
    /\ pc[e] = "cascade"
    /\ \A r \in ItemsOf(e) : RowHolders(e, r) = {}
    /\ dels' = [dels EXCEPT ![e] = ItemsOf(e)]
    /\ Goto(e, "charge")
    /\ UNCHANGED <<db, runtime, op, seen, wants, ins, impacted, depleted>>

\* apply_storage_delta locks the user's profile until the commit.
Charging(e) == \E f \in Edits \ {e} : pc[f] \in {"audit", "commit"} /\ Kind(f) = "delete"

\* Mutant: the profile is charged without waiting for other deletes, as when
\* the audit came before it.
ChargeWithoutLock(e) ==
    /\ pc[e] = "charge"
    /\ Goto(e, "audit")
    /\ UNCHANGED <<db, runtime, op, seen, wants, dels, ins, impacted, depleted>>

Charge(e) ==
    /\ pc[e] = "charge"
    /\ ~Charging(e)
    /\ Goto(e, "audit")
    /\ UNCHANGED <<db, runtime, op, seen, wants, dels, ins, impacted, depleted>>

\* audit_collection_quorum
Audit(e) ==
    /\ pc[e] = "audit"
    /\ depleted' = [depleted EXCEPT ![e] = impacted[e] /\ View(e) = {}]
    /\ Goto(e, "commit")
    /\ UNCHANGED <<db, runtime, op, seen, wants, dels, ins, impacted>>

Commit(e) ==
    /\ pc[e] = "commit"
    /\ items' = (items \ dels[e]) \cup ins[e]
    /\ alive' = IF Kind(e) = "delete" THEN alive \ {op[e].asset} ELSE alive
    /\ active' = (active /\ ~depleted[e])
    /\ Finish(e, IF Kind(e) = "delete" THEN "unlink" ELSE "done")
    /\ UNCHANGED <<files, runtime>>

\* _delete_asset_files, after the commit.
Unlink(e) ==
    /\ pc[e] = "unlink"
    /\ files' = files \ {op[e].asset}
    /\ Goto(e, "done")
    /\ UNCHANGED <<alive, items, active, runtime, op, seen, wants, dels, ins, impacted, depleted>>

\* Transactions that e waits for.
WaitsFor(e) ==
    CASE pc[e] = "deleting" -> UNION {RowHolders(e, r) : r \in dels[e]}
      [] pc[e] = "insert" -> InsertWaits(e)
      [] pc[e] = "drop" -> DropWaits(e)
      [] pc[e] = "cascade" -> UNION {RowHolders(e, r) : r \in ItemsOf(e)}
      [] OTHER -> {}

\* PostgreSQL aborts one of the transactions that wait for each other.
DeadlockVictim(e) ==
    /\ \E f \in WaitsFor(e) : e \in WaitsFor(f)
    /\ Rollback(e)
    /\ UNCHANGED <<db, runtime>>

Request(e) ==
    \/ Begin(e) \/ Validate(e) \/ DeleteItems(e) \/ ItemsDeleted(e) \/ InsertItems(e)
    \/ FetchItems(e) \/ ApplySwap(e) \/ ApplyRestart(e) \/ ApplyEnqueue(e)
    \/ CheckUsage(e) \/ ReadImpact(e) \/ DropAsset(e) \/ Cascade(e) \/ Charge(e)
    \/ Audit(e) \/ Commit(e) \/ Unlink(e) \/ DeadlockVictim(e)

Next == Advance \/ AdvanceShuffled \/ Stop \/ Launch \/ \E e \in Edits : Request(e)

Spec == Init /\ [][Next]_vars

\* asyncio runs a playhead task that is ready and a request whose database
\* answers; the stream need never stop or be launched again.
FairSpec == Spec /\ WF_vars(Advance) /\ WF_vars(\E e \in Edits : Request(e))

-----------------------------------------------------------------------------
(* Properties *)

\* Two replacements of the list never end up mixed: the second fails unless it
\* saw all the rows of the first, or an asset of the first was deleted.
OneEditWins ==
    (\A e \in Edits : pc[e] \in {"unlink", "done"} => Kind(e) # "delete") =>
        \A r, t \in {r \in items : r.by = None \/ Replacing(r.by)} : r.by = t.by

\* A delete that took away the last item of a collection it had found the
\* asset in deactivates the collection when it commits.
DepletionNoticed ==
    [][\A e \in Edits :
          Commit(e) /\ Kind(e) = "delete" /\ impacted[e] /\ dels[e] # {} /\ items' = {}
              => ~active']_vars

\* An asset is handed to the running stream by a request whose row is there
\* to be committed: what goes on air by an enqueue is also in the collection.
QueuedIsCommitted ==
    [][\A e \in Edits : pc[e] = "commit" /\ pc'[e] # "commit" /\ Kind(e) = "enqueue"
          => \E r \in items' : r.asset = op[e].asset]_vars

\* Every request gets its answer, whatever rows and assets it waits for.
Answered(e) == pc[e] \in {"idle", "done", "failed"}
RequestsEnd == (\E e \in Edits : ~Answered(e)) ~> (\A e \in Edits : Answered(e))

\* The assets the playhead task still knows.
Rotation == Range(queue) \cup (Range(assigned) \ {None})

\* In a looping, unshuffled rotation every asset keeps coming under the
\* playhead, as long as the stream is not stopped or given another list.
RotationRecurs ==
    \A a \in Assets :
        (live /\ ticking /\ loop /\ ~shuffle /\ a \in Rotation)
            ~> (assigned[head] = a \/ ~live \/ ~loop \/ shuffle \/ a \notin Rotation)

=============================================================================

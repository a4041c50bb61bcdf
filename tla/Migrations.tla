----------------------------- MODULE Migrations -----------------------------
(***************************************************************************)
(* The migration runner (backend/apply_migrations.py), as entrypoint.sh    *)
(* and the deploy script run it, and the schema patches the backend        *)
(* applies when it starts (backend/app/core/database.py).                  *)
(*                                                                         *)
(* Nothing records which migrations ran: a run guesses it from the schema, *)
(* by checks written by hand twice, once for the status it reads first and *)
(* once for the verification that follows each file.  Every statement      *)
(* commits by itself, so a run may end, by an error or a crash, after any. *)
(* Runs follow one another; the backend starts between two runs.           *)
(***************************************************************************)
EXTENDS MigrationFiles, Naturals

CONSTANTS
    BootPatches,  \* run_schema_patches_on_boot
    MaxFaults     \* bound on the runs that are killed or fail for no reason of ours

ASSUME MigrationAssumption ==
    /\ BootPatches \in BOOLEAN
    /\ MaxFaults \in Nat
    /\ \A n \in DOMAIN Files : 1 \in DOMAIN Files[n] /\ DOMAIN Files[n] \subseteq Nat
    /\ "000" \in DOMAIN Files
    /\ \A k \in DOMAIN Listed : Listed[k] \in DOMAIN Files

\* Only migration 036 drops the restart counter.
ASSUME CounterAssumption ==
    \A n \in DOMAIN Files \ {"036"} : \A i \in DOMAIN Files[n] : Counter \notin Files[n][i].drop

\* Migration 018 builds the performance indexes and nothing else.
ASSUME IndexAssumption ==
    \A i \in DOMAIN Files["018"] : Files["018"][i].add \subseteq PerformanceIndexes

VARIABLES
    schema,     \* the objects in the database
    invalid,    \* indexes whose concurrent build was interrupted
    pc,         \* where the runner is
    file,       \* the migration being applied
    at,         \* its next statement
    pending,    \* migrations the run's status snapshot found missing
    exit,       \* how the last run ended
    sinceBoot,  \* history: runs since the backend last patched the schema, up to 2
    faults      \* runs that ended so

vars == <<schema, invalid, pc, file, at, pending, exit, sinceBoot, faults>>

Numbers == {"003", "006", "009"} \cup {Listed[i] : i \in DOMAIN Listed}
Label == {"idle", "bootstrap", "status", "apply", "probe"}

-----------------------------------------------------------------------------
(* The checks *)

Has(s, objects) == objects \subseteq s
Lacks(s, objects) == objects \cap s = {}
Number(n, applied) == IF applied THEN {n} ELSE {}

CoreTables == {"assets", "playlists", "destinations", "streams"}
ForeignKeys == {"admin_actions.fks", "alerts.user_fk", "alerts.resolved_fk", "activity.user_fk"}

\* get_migration_status, first part: the numbers it counts as applied.
StatusOfUsers(s) ==
    Number("003", Has(s, {"user_profiles"})) \cup
    Number("004", Has(s, CoreTables \cup {"streams.total_duration", "playlists.totals"})) \cup
    Number("005", Has(s, {"admin_actions", "system_alerts", "user_activity_log", "alerts.context"})) \cup
    Number("006", Has(s, {"users_can_manage_own_assets"})) \cup
    Number("007", Lacks(s, {"project_id"})) \cup
    Number("008", Has(s, ForeignKeys)) \cup
    Number("009", Has(s, {"core.fks"}))

StatusOfMedia(s) ==
    Number("010", Has(s, {"tiers.quality"})) \cup
    Number("011", Has(s, {"streams.source_type"})) \cup
    Number("012", Has(s, {"stream_assets"})) \cup
    Number("013", Has(s, {"tiers.seed", "tiers.price"})) \cup
    Number("014", Has(s, {"assets.type", "assets.codec"})) \cup
    Number("015", Has(s, {"media_folders", "asset_folder_links", "folders.is_root"})) \cup
    Number("016", Has(s, {"media_collections", "collection_items", "collections.type",
                     "items.loop_mode", "items.updated_at"}))

StatusOfStreams(s, broken) ==
    Number("017", Has(s, {"streams.collections"})) \cup
    Number("018", Has(s \ broken, PerformanceIndexes)) \cup
    Number("019", Has(s, {"alerts.type_check", "alerts.severity_check", "alerts.depleted",
                     "alerts.user_fk", "activity.user_fk"}))

\* Mutant: the status of 022 is that its table exists.
StatusOfScheduleLoose(s) ==
    Number("020", Has(s, {"admin_actions.reason"})) \cup
    Number("021", Has(s, {"admin_actions.request"})) \cup
    Number("022", Has(s, {"admin_actions"})) \cup
    Number("023", Has(s, {"streams.scheduled_start"})) \cup
    Number("024", Has(s, {"streams.scheduled_stop"})) \cup
    Number("025", Has(s, {"profiles.timezone"})) \cup
    Number("026", Has(s, {"items.updated_at"})) \cup
    Number("027", s \cap {"check_status", "streams_status_check"} /= {})

StatusOfSchedule(s) ==
    Number("020", Has(s, {"admin_actions.reason"})) \cup
    Number("021", Has(s, {"admin_actions.request"})) \cup
    Number("022", Has(s, {"admin_actions.type_check"})) \cup
    Number("023", Has(s, {"streams.scheduled_start"})) \cup
    Number("024", Has(s, {"streams.scheduled_stop"})) \cup
    Number("025", Has(s, {"profiles.timezone"})) \cup
    Number("026", Has(s, {"items.updated_at"})) \cup
    Number("027", s \cap {"check_status", "streams_status_check"} /= {})

\* verify_migration: the same numbers, checked again by other queries.  003 wants
\* four rows of limits as well, be they the seed or others.  006 takes any
\* policy named users_can_..., on any table, for the one the status looks for.
VerifyUsers(s) ==
    Number("003", Has(s, {"user_profiles"}) /\ s \cap {"tiers.seed", "tiers.others"} /= {}) \cup
    Number("004", Has(s, CoreTables \cup {"streams.total_duration", "playlists.totals"})) \cup
    Number("005", Has(s, {"admin_actions", "system_alerts", "user_activity_log", "alerts.context"})) \cup
    Number("006", s \cap {"users_can_manage_own_assets", "users_can_others"} /= {}) \cup
    Number("007", Lacks(s, {"project_id"})) \cup
    Number("008", Has(s, ForeignKeys)) \cup
    Number("009", Has(s, {"core.fks"}))

VerifyMedia(s) ==
    Number("010", Has(s, {"tiers.quality"})) \cup
    Number("011", Has(s, {"streams.source_type", "streams.source_filled"})) \cup
    Number("012", Has(s, {"stream_assets", "stream_assets.indexes"})) \cup
    Number("013", Has(s, {"tiers.seed", "tiers.price"})) \cup
    Number("014", Has(s, {"assets.type", "assets.codec"})) \cup
    Number("015", Has(s, {"media_folders", "asset_folder_links", "folders.is_root"}))

\* Mutant: the verification of 016 looks at its tables only.
VerifyCollectionsLoose(s, broken) ==
    Number("016", Has(s, {"media_collections", "collection_items"}))

VerifyCollections(s, broken) ==
    Number("016", Has(s, {"media_collections", "collection_items", "collections.type",
                     "items.loop_mode", "items.updated_at"})) \cup
    Number("017", Has(s, {"streams.collections"})) \cup
    Number("018", Has(s \ broken, PerformanceIndexes)) \cup
    Number("019", Has(s, {"alerts.type_check", "alerts.severity_check", "alerts.depleted",
                     "alerts.user_fk", "activity.user_fk"}))

VerifySchedule(s) ==
    Number("020", Has(s, {"admin_actions.reason"})) \cup
    Number("021", Has(s, {"admin_actions.request"})) \cup
    Number("022", Has(s, {"admin_actions.type_check"})) \cup
    Number("023", Has(s, {"streams.scheduled_start"})) \cup
    Number("024", Has(s, {"streams.scheduled_stop"})) \cup
    Number("025", Has(s, {"profiles.timezone"})) \cup
    Number("026", Has(s, {"items.updated_at"})) \cup
    Number("027", s \cap {"check_status", "streams_status_check"} /= {})

LegacyIsGone(s) ==
    /\ Has(s, {"streams.heartbeat"})
    /\ Lacks(s, Lease \cup RestartTimes \cup RetiredIndexes)

\* 036 leaves out of its check the two columns that 037 adds again; 031, whose
\* columns it drops, does not.
VerifyLeases(s) ==
    Number("028", Has(s, {"streams.schedule", "streams.repeat_check"})) \cup
    Number("029", Has(s, {"assets.optimization", "idx_assets_optimization"})) \cup
    Number("030", Has(s, {"streams.heartbeat"}) /\ Lacks(s, {"idx_owner", "idx_lease"})) \cup
    Number("031", Lacks(s, RestartTimes \cup {Counter, FailureTime, "idx_next_restart"})) \cup
    Number("032", Has(s, {"assets.storage", "idx_assets_storage_backend"}))

VerifyUploads(s) ==
    Number("033", Has(s, {"upload_ingests", "ingests.indexes", "ingests.status_check"})) \cup
    Number("034", Has(s, {"tiers.seed", "tiers.uhd_caps"})) \cup
    Number("035", Has(s, {"alerts.type_check", "alerts.refusal"}))

\* Mutant: the checks of the runtime state have no entry for 037.
VerifyRuntimeAlways037(s) ==
    Number("036", LegacyIsGone(s)) \cup
    {"037"} \cup
    Number("038", Has(s, {"destinations.rtmps_default"}))

VerifyRuntime(s) ==
    Number("036", LegacyIsGone(s)) \cup
    Number("037", Has(s, {Counter, FailureTime})) \cup
    Number("038", Has(s, {"destinations.rtmps_default"}))

Status(s, broken) ==
    StatusOfUsers(s) \cup StatusOfMedia(s) \cup StatusOfStreams(s, broken)
        \cup StatusOfSchedule(s) \cup VerifyLeases(s) \cup VerifyUploads(s) \cup VerifyRuntime(s)

Verified(s, broken) ==
    VerifyUsers(s) \cup VerifyMedia(s) \cup VerifyCollections(s, broken)
        \cup VerifySchedule(s) \cup VerifyLeases(s) \cup VerifyUploads(s) \cup VerifyRuntime(s)

\* Reading the status raises when a table of a ::regclass cast is missing.
StatusReadable == Has(schema, {"admin_actions", "streams"})

-----------------------------------------------------------------------------
(* A run *)

\* What a migration adds.
Added(n) == UNION {Files[n][i].add : i \in DOMAIN Files[n]}

\* The database of a new installation, and one the releases before 036 left.
LegacyFiles == {"000"} \cup ({Listed[k] : k \in DOMAIN Listed} \ {"036", "037", "038"})
LegacySchema == UNION {Added(n) : n \in LegacyFiles}

Init ==
    /\ schema \in {{}, LegacySchema}
    /\ invalid = {}
    /\ pc = "idle"
    /\ file = "000"
    /\ at = 1
    /\ pending = {}
    /\ exit = "none"
    /\ sinceBoot = 2
    /\ faults = 0

Runner == <<pc, file, at, pending, exit>>

End(outcome) ==
    /\ pc' = "idle"
    /\ file' = "000"
    /\ at' = 1
    /\ pending' = {}
    /\ exit' = outcome

\* The migrations in todo that main has not reached at position k, and the first.
Following(todo, k) == {j \in DOMAIN Listed : j > k /\ Listed[j] \in todo}
First(positions) == {j \in positions : \A i \in positions : j <= i}

Position(n) == {k \in DOMAIN Listed : Listed[k] = n}

\* Mutant: the count of statements is not reset.
AdvanceKeepingCount(todo, k) ==
    LET ahead == Following(todo, k)
    IN  \/ /\ ahead = {}
           /\ pc' = "probe"
           /\ file' = "000"
           /\ UNCHANGED at
        \/ /\ pc' = "apply"
           /\ \E j \in First(ahead) : file' = Listed[j]
           /\ UNCHANGED at

\* main goes on to the next pending migration, or to the probe.
Advance(todo, k) ==
    LET ahead == Following(todo, k)
    IN  \/ /\ ahead = {}
           /\ pc' = "probe"
           /\ file' = "000"
           /\ at' = 1
        \/ /\ pc' = "apply"
           /\ \E j \in First(ahead) : file' = Listed[j]
           /\ at' = 1

\* A database without user_profiles gets the initial schema first.
Begin ==
    /\ pc = "idle"
    /\ pc' = IF "user_profiles" \in schema THEN "status" ELSE "bootstrap"
    /\ sinceBoot' = IF sinceBoot = 2 THEN 2 ELSE sinceBoot + 1
    /\ exit' = "none"
    /\ UNCHANGED <<schema, invalid, file, at, pending, faults>>

\* The snapshot decides what this run applies; numbers that are not in the
\* list stay pending and are skipped.
ReadStatus ==
    /\ pc = "status"
    /\ StatusReadable
    /\ pending' = Numbers \ Status(schema, invalid)
    /\ Advance(pending', 0)
    /\ UNCHANGED <<schema, invalid, exit, sinceBoot, faults>>

\* The exception ends the script, with exit code 0.
StatusRaises ==
    /\ pc = "status"
    /\ ~StatusReadable
    /\ End("stopped")
    /\ UNCHANGED <<schema, invalid, sinceBoot, faults>>

Current == Files[file][at]

\* What a statement makes of the schema.
After(statement) ==
    IF statement.unless \in schema
    THEN schema
    ELSE (schema \ statement.drop) \cup statement.add

\* One statement commits.  After the last one verify_migration only warns.
Execute ==
    /\ pc \in {"bootstrap", "apply"}
    /\ Has(schema, Current.needs)
    /\ schema' = After(Current)
    /\ \/ /\ at + 1 \in DOMAIN Files[file]
          /\ at' = at + 1
          /\ UNCHANGED <<pc, file>>
       \/ /\ at + 1 \notin DOMAIN Files[file]
          /\ pc = "bootstrap"
          /\ pc' = "status"
          /\ at' = 1
          /\ UNCHANGED file
       \/ /\ at + 1 \notin DOMAIN Files[file]
          /\ pc = "apply"
          /\ \E k \in Position(file) : Advance(pending, k)
    /\ UNCHANGED <<invalid, pending, exit, sinceBoot, faults>>

\* A concurrent build that does not end leaves its index behind, invalid.
Interrupt ==
    \/ UNCHANGED <<schema, invalid>>
    \/ /\ pc = "apply"
       /\ file = "018"
       /\ Has(schema, Current.needs)
       /\ Current.add \cap schema = {}
       /\ schema' = schema \cup Current.add
       /\ invalid' = invalid \cup Current.add

\* A statement fails, for want of a table or for a reason of the server's own;
\* the migration fails, and main returns: exit code 0.
StatementRaises ==
    /\ pc \in {"bootstrap", "apply"}
    /\ Has(schema, Current.needs) => faults < MaxFaults
    /\ faults' = IF Has(schema, Current.needs) THEN faults + 1 ELSE faults
    /\ Interrupt
    /\ End("stopped")
    /\ UNCHANGED sinceBoot

\* A new connection must see the counter, or the run exits with 1.
Probe ==
    /\ pc = "probe"
    /\ End(IF Counter \in schema THEN "success" ELSE "failed")
    /\ UNCHANGED <<schema, invalid, sinceBoot, faults>>

\* The run is killed.
Crash ==
    /\ pc /= "idle"
    /\ faults < MaxFaults
    /\ faults' = faults + 1
    /\ Interrupt
    /\ End("killed")
    /\ UNCHANGED sinceBoot

-----------------------------------------------------------------------------
(* The backend starts *)

\* Mutant: the patches drop all of the columns 036 retired, as they once did.
PatchDropsCounter ==
    {"storage_trigger"} \cup RetiredIndexes \cup Lease \cup RestartTimes \cup {Counter, FailureTime}

\* _apply_schema_changes, in one transaction: what it drops, and what it adds.
PatchDrops == {"storage_trigger"} \cup RetiredIndexes \cup Lease \cup RestartTimes

PatchAddsToStreams == {
    "tiers.quality", "tiers.uhd_caps", "streams.collections", "streams.total_duration",
    "streams.schedule", "streams.heartbeat", "streams.mix_check", "streams.repeat_check"}

PatchAddsToDestinations == {
    "destinations.stats", "destinations.provider", "youtube_connections",
    "destinations.provider_checks", "items.updated_at", "items.updated_trigger"}

PatchAddsToAssets == {
    "playlists.totals", "assets.storage", "assets.type", "assets.codec",
    "assets.optimization", "idx_assets_storage_backend", "idx_assets_asset_type",
    "idx_assets_validation_status", "idx_assets_optimization", "tiers.features"}

PatchNeeds == {
    "user_profiles", "subscription_tier_limits", "streams", "media_collections",
    "destinations", "collection_items", "playlists", "assets"}

\* The patches of a schema that lacks a table are rolled back.
Boot ==
    /\ BootPatches
    /\ pc = "idle"
    /\ Has(schema, PatchNeeds)
    /\ schema' = (schema \ PatchDrops)
                    \cup PatchAddsToStreams \cup PatchAddsToDestinations \cup PatchAddsToAssets
    /\ sinceBoot' = 0
    /\ UNCHANGED <<invalid, Runner, faults>>

-----------------------------------------------------------------------------

Step == Begin \/ ReadStatus \/ StatusRaises \/ Execute \/ Probe

Next == Step \/ StatementRaises \/ Crash \/ Boot

Spec == Init /\ [][Next]_vars

\* A run ends by itself, and entrypoint.sh runs the script again when it fails.
FairSpec == Spec /\ WF_vars(Step)

-----------------------------------------------------------------------------
(* Properties *)

\* What a migration or the backend may add to a database.
Objects ==
    (UNION {Added(n) : n \in DOMAIN Files})
        \cup PatchAddsToStreams \cup PatchAddsToDestinations \cup PatchAddsToAssets

TypeOK ==
    /\ schema \subseteq Objects
    /\ invalid \subseteq PerformanceIndexes
    /\ pc \in Label
    /\ file \in DOMAIN Files
    /\ at \in DOMAIN Files[file]
    /\ pending \subseteq Numbers
    /\ exit \in {"none", "success", "stopped", "failed", "killed"}
    /\ sinceBoot \in 0..2
    /\ faults \in 0..MaxFaults

\* What one run has verified the next run does not count as missing: of the
\* migrations that main applies, the two hand-written copies of the checks agree
\* in every schema that a crash, an error or a start of the backend leaves
\* behind.  They do not on 006, which is not among them: verify_migration may
\* accept what get_migration_status does not.
VerifiedIsApplied ==
    {Listed[k] : k \in DOMAIN Listed} \cap Verified(schema, invalid) \subseteq Status(schema, invalid)

\* The first run after the backend has started does not lose the restart
\* counter, whatever the database was: the patches leave nothing behind that
\* makes the checks call for migration 036 again.
CounterSurvivesFirstRun ==
    [][sinceBoot' <= 1 /\ Counter \in schema => Counter \in schema']_vars

\* A run that has no counter at its end exits with 1, and running it again, as
\* entrypoint.sh does, brings the counter back.
FailedProbeHeals == exit = "failed" ~> Counter \in schema

\* A run that reaches its end has made good what earlier runs left undone in
\* the middle of a file: everything listed verifies then, but the four files
\* about the runtime state and an index that an interrupted build has spoiled.
InterruptionIsMadeGood ==
    pc = "probe" =>
        {Listed[k] : k \in DOMAIN Listed} \ Verified(schema, invalid)
            \subseteq {"030", "031", "036", "037"} \cup (IF invalid = {} THEN {} ELSE {"018"})

=============================================================================

--------------------------- MODULE MigrationFiles ---------------------------
(***************************************************************************)
(* The migrations of backend/migrations/*.sql as data.  A database schema  *)
(* is the set of the objects it holds; an object stands for a table, for   *)
(* an index or a constraint, or for columns that are always added          *)
(* together, and where a statement only fills rows, for the filled rows.   *)
(* Statements no check can tell apart from their neighbours are one.       *)
(***************************************************************************)
EXTENDS Sequences, TLC

\* A statement fails unless the tables it names exist; it does nothing when
\* the table it would create does; otherwise it drops and adds objects.
Statement(needs, unless, drop, add) ==
    [needs |-> needs, unless |-> unless, drop |-> drop, add |-> add]

Nothing == "-"

Add(table, objects) == Statement({table}, Nothing, {}, objects)
Drop(table, objects) == Statement({table}, Nothing, objects, {})
Create(needs, table, parts) == Statement(needs, table, {}, {table} \cup parts)

AlertTypeCheck == {"alerts.type_check", "alerts.depleted", "alerts.refusal"}

\* The columns of the runtime lease and the runtime restart state.
Lease == {"streams.owner", "streams.lease"}
RestartTimes == {"streams.next_restart", "streams.last_restart"}
Counter == "streams.restart_attempts"
FailureTime == "streams.last_failure"
RetiredIndexes == {"idx_owner", "idx_lease", "idx_next_restart"}

\* 000_local_initial_schema
InitialSchema == <<
    Create({}, "user_profiles", {}),
    Create({}, "subscription_tier_limits", {"tiers.quality", "tiers.price"}),
    Create({"user_profiles"}, "assets", {}),
    Create({"user_profiles"}, "playlists", {}),
    Create({"playlists", "assets"}, "playlist_items", {}),
    Add("playlist_items", {"idx_playlist_items_position"}),
    Create({"user_profiles"}, "destinations", {"destinations.rtmps_default"}),
    Create({"playlists"}, "streams",
           {"streams.source_type", "streams.source_filled", "streams_status_check"}),
    Create({"streams", "assets"}, "stream_assets", {}),
    Add("stream_assets", {"stream_assets.indexes"}),
    Create({"streams"}, "stream_events", {}),
    Create({"user_profiles"}, "media_folders", {}),
    Create({"user_profiles"}, "media_collections", {}),
    Create({"media_collections", "assets"}, "collection_items", {}),
    Create({"user_profiles"}, "admin_actions", {"admin_actions.fks"}),
    Create({"user_profiles"}, "system_alerts",
           {"alerts.type_check", "alerts.severity_check", "alerts.user_fk", "alerts.resolved_fk"}),
    Create({"user_profiles"}, "user_activity_log", {"activity.user_fk"}),
    Add("subscription_tier_limits", {"tiers.seed", "tiers.uhd_caps"}) >>

\* 004_add_user_id_columns: the storage trigger charges every insert of an asset.
UserIdColumns == <<
    Add("destinations", {"idx_destinations_user_enabled"}),
    Add("streams", {"idx_streams_user_started"}),
    Add("assets", {"assets.codec"}),
    Add("assets", {"idx_assets_validation_status"}),
    Add("playlists", {"playlists.totals"}),
    Add("destinations", {"destinations.stats"}),
    Add("streams", {"streams.total_duration"}),
    Add("assets", {"storage_trigger"}),
    Add("playlist_items", {"playlist_triggers"}) >>

\* 005_admin_and_alerts
AdminAndAlerts == <<
    Create({"user_profiles"}, "admin_actions", {"admin_actions.fks"}),
    Create({"user_profiles"}, "system_alerts",
           {"alerts.type_check", "alerts.severity_check", "alerts.user_fk", "alerts.resolved_fk"}),
    Add("system_alerts", {"alerts.context"}),
    Create({"user_profiles"}, "user_activity_log", {"activity.user_fk"}),
    Add("user_activity_log", {"idx_user_activity_ip"}),
    Add("system_alerts", {"alerts.triggers"}) >>

\* 007_remove_projects
RemoveProjects == << Drop("streams", {"project_id"}) >>

\* 008_update_admin_alert_fk: BEGIN and COMMIT make it one step.
AdminForeignKeys == <<
    Statement({"admin_actions", "system_alerts", "user_activity_log"}, Nothing, {},
              {"admin_actions.fks", "alerts.user_fk", "alerts.resolved_fk", "activity.user_fk"}) >>

\* 010_stream_quality_limits, 011_stream_source_type, 012_stream_assets
QualityLimits == << Add("subscription_tier_limits", {"tiers.quality"}) >>

SourceType == <<
    Add("streams", {"streams.source_type"}),
    Add("streams", {"streams.source_filled"}) >>

StreamAssets == <<
    Create({"streams", "assets"}, "stream_assets", {}),
    Add("stream_assets", {"stream_assets.indexes"}) >>

\* 013_update_tariffs
UpdateTariffs == <<
    Drop("user_profiles", {"tier_checks"}),
    Add("subscription_tier_limits", {"tiers.price", "tiers.features"}),
    Add("subscription_tier_limits", {"tiers.seed"}),
    Add("user_profiles", {"tiers.users_moved"}),
    Add("user_profiles", {"tier_checks"}) >>

\* 014_asset_metadata
AssetMetadata == <<
    Add("assets", {"assets.type", "assets.codec"}),
    Add("assets", {"assets.type_check"}),
    Add("assets", {"idx_assets_asset_type"}) >>

\* 015_media_folders: the last statements give every user a root folder.
MediaFolders == <<
    Create({"user_profiles"}, "media_folders", {"folders.is_root"}),
    Add("media_folders", {"folders.is_root"}),
    Create({"assets", "media_folders"}, "asset_folder_links", {}),
    Add("asset_folder_links", {"idx_asset_folder_links_folder"}),
    Add("media_folders", {"folders.roots"}) >>

\* 016_media_collections
MediaCollections == <<
    Create({"user_profiles"}, "media_collections", {"collections.type"}),
    Add("media_collections", {"collections.type"}),
    Create({"media_collections", "assets"}, "collection_items",
           {"items.loop_mode", "items.updated_at"}),
    Add("collection_items", {"items.loop_mode", "items.updated_at"}),
    Add("collection_items", {"idx_collection_items_position"}) >>

\* 017_streams_collection_link: the last statements copy playlists to collections.
CollectionLink == <<
    Add("streams", {"streams.collections"}),
    Add("streams", {"streams.mix_check"}),
    Add("media_collections", {"collections.from_playlists"}) >>

\* 018_performance_indexes, built CONCURRENTLY and each only if its name is free.
PerformanceIndexes == {
    "idx_assets_validation_status", "idx_streams_status_user", "idx_streams_user_started",
    "idx_user_activity_ip", "idx_alerts_severity_resolved", "idx_admin_actions_user_time",
    "idx_destinations_user_enabled", "idx_playlist_items_position",
    "idx_collection_items_position", "idx_stream_events_stream_time",
    "idx_media_folders_parent", "idx_asset_folder_links_folder", "idx_assets_user_type",
    "idx_collections_user_type_active"}

BuildIndexes == <<
    Add("assets", {"idx_assets_validation_status"}),
    Add("streams", {"idx_streams_status_user"}),
    Add("streams", {"idx_streams_user_started"}),
    Add("user_activity_log", {"idx_user_activity_ip"}),
    Add("system_alerts", {"idx_alerts_severity_resolved"}),
    Add("admin_actions", {"idx_admin_actions_user_time"}),
    Add("destinations", {"idx_destinations_user_enabled"}),
    Add("playlist_items", {"idx_playlist_items_position"}),
    Add("collection_items", {"idx_collection_items_position"}),
    Add("stream_events", {"idx_stream_events_stream_time"}),
    Add("media_folders", {"idx_media_folders_parent"}),
    Add("asset_folder_links", {"idx_asset_folder_links_folder"}),
    Add("assets", {"idx_assets_user_type"}),
    Add("media_collections", {"idx_collections_user_type_active"}) >>

\* 019_fix_system_alerts
FixSystemAlerts == <<
    Drop("system_alerts", AlertTypeCheck),
    Add("system_alerts", {"alerts.type_check", "alerts.depleted"}),
    Drop("system_alerts", {"alerts.severity_check"}),
    Add("system_alerts", {"alerts.severity_check"}),
    Drop("system_alerts", {"alerts.user_fk"}),
    Add("system_alerts", {"alerts.user_fk"}),
    Drop("user_activity_log", {"activity.user_fk"}),
    Add("user_activity_log", {"activity.user_fk"}) >>

\* 020_admin_action_reason_column, 021_admin_action_request_metadata,
\* 022_admin_action_type_constraint
ActionReason == << Add("admin_actions", {"admin_actions.reason"}) >>
ActionMetadata == << Add("admin_actions", {"admin_actions.request"}) >>
ActionTypes == <<
    Drop("admin_actions", {"admin_actions.type_check"}),
    Add("admin_actions", {"admin_actions.type_check"}) >>

\* 023_stream_schedule_columns to 028_stream_scheduler_v1
ScheduleStart == <<
    Add("streams", {"streams.scheduled_start"}),
    Drop("streams", {"check_status"}),
    Add("streams", {"check_status"}) >>
ScheduleStop == << Add("streams", {"streams.scheduled_stop"}) >>
ProfileTimezone == << Add("user_profiles", {"profiles.timezone"}) >>
ItemsUpdatedAt == <<
    Add("collection_items", {"items.updated_at"}),
    Add("collection_items", {"items.updated_trigger"}) >>
StatusConstraint == <<
    Drop("streams", {"streams_status_check"}),
    Drop("streams", {"check_status"}),
    Add("streams", {"check_status"}) >>
SchedulerV1 == <<
    Add("streams", {"streams.schedule"}),
    Drop("streams", {"streams.repeat_check"}),
    Add("streams", {"streams.repeat_check"}) >>

\* 029_asset_optimization_status, 032_asset_storage_contract, 033_upload_ingests,
\* 034_fix_uhd_bitrate_caps
OptimizationStatus == <<
    Add("assets", {"assets.optimization"}),
    Add("assets", {"idx_assets_optimization"}) >>
StorageContract == <<
    Add("assets", {"assets.storage"}),
    Add("assets", {"idx_assets_storage_backend"}) >>
UploadIngests == <<
    Create({"user_profiles", "assets"}, "upload_ingests", {"ingests.status_check"}),
    Add("upload_ingests", {"ingests.indexes"}),
    Add("upload_ingests", {"ingests.defaults"}) >>
UhdCaps == << Add("subscription_tier_limits", {"tiers.uhd_caps"}) >>

\* 035_stream_runtime_refusal_alert_type
RefusalAlert == <<
    Drop("system_alerts", AlertTypeCheck),
    Add("system_alerts", AlertTypeCheck) >>

\* 030_stream_runtime_leases
RuntimeLeases == <<
    Add("streams", Lease \cup {"streams.heartbeat"}),
    Add("streams", {"idx_owner"}),
    Add("streams", {"idx_lease"}) >>

\* 031_stream_runtime_restart_state
RestartState == <<
    Add("streams", RestartTimes \cup {Counter, FailureTime}),
    Add("streams", {"idx_next_restart"}) >>

\* 036_drop_legacy_stream_runtime_state: an index goes with its column.
DropLegacyState == <<
    Drop("streams", Lease \cup RestartTimes \cup {Counter, FailureTime} \cup RetiredIndexes) >>

\* 037_stream_runtime_restart_persistence
RestartPersistence == << Add("streams", {Counter, FailureTime}) >>

\* 038_youtube_rtmps_default
RtmpsDefault == << Add("destinations", {"destinations.rtmps_default"}) >>

\* MIGRATIONS: what main applies, in this order.  003, 006 and 009 have checks
\* but no place here; 035_youtube_provider_status has neither.
Listed == <<
    "004", "005", "007", "008", "010", "011", "012", "013", "014", "015", "016", "017",
    "018", "019", "020", "021", "022", "023", "024", "025", "026", "027", "028", "029",
    "030", "031", "032", "033", "034", "035", "036", "037", "038" >>

Files ==
    "000" :> InitialSchema @@ "004" :> UserIdColumns @@ "005" :> AdminAndAlerts @@
    "007" :> RemoveProjects @@ "008" :> AdminForeignKeys @@ "010" :> QualityLimits @@
    "011" :> SourceType @@ "012" :> StreamAssets @@ "013" :> UpdateTariffs @@
    "014" :> AssetMetadata @@ "015" :> MediaFolders @@ "016" :> MediaCollections @@
    "017" :> CollectionLink @@ "018" :> BuildIndexes @@ "019" :> FixSystemAlerts @@
    "020" :> ActionReason @@ "021" :> ActionMetadata @@ "022" :> ActionTypes @@
    "023" :> ScheduleStart @@ "024" :> ScheduleStop @@ "025" :> ProfileTimezone @@
    "026" :> ItemsUpdatedAt @@ "027" :> StatusConstraint @@ "028" :> SchedulerV1 @@
    "029" :> OptimizationStatus @@ "030" :> RuntimeLeases @@ "031" :> RestartState @@
    "032" :> StorageContract @@ "033" :> UploadIngests @@ "034" :> UhdCaps @@
    "035" :> RefusalAlert @@ "036" :> DropLegacyState @@ "037" :> RestartPersistence @@
    "038" :> RtmpsDefault

=============================================================================

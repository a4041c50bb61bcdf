--------------------------- MODULE MigrationFacts ---------------------------
(***************************************************************************)
(* What verify_migration asks of a schema, as sets of objects, and what    *)
(* the files of backend/migrations do about them.  TLC evaluates the       *)
(* assumptions on the files as MigrationFiles gives them; the proofs of    *)
(* Migrations rest on them and look into no file.                          *)
(***************************************************************************)
EXTENDS Migrations

\* The migrations that are checked by the presence of objects.  The checks of 030,
\* 031 and 036 ask for the absence of some that others add, 037's for what 036
\* drops; 007's object does not exist, and 027 is content with either of two.
Checked == {"004", "005", "008", "010", "011", "012", "013", "014", "015", "016", "017",
            "018", "019", "020", "021", "022", "023", "024", "025", "026", "028", "029",
            "032", "033", "034", "035", "038"}

\* The objects the verification of each looks for.
Needed(n) ==
    CASE n = "004" -> CoreTables \cup {"streams.total_duration", "playlists.totals"}
      [] n = "005" -> {"admin_actions", "system_alerts", "user_activity_log", "alerts.context"}
      [] n = "008" -> ForeignKeys
      [] n = "010" -> {"tiers.quality"}
      [] n = "011" -> {"streams.source_type", "streams.source_filled"}
      [] n = "012" -> {"stream_assets", "stream_assets.indexes"}
      [] n = "013" -> {"tiers.seed", "tiers.price"}
      [] n = "014" -> {"assets.type", "assets.codec"}
      [] n = "015" -> {"media_folders", "asset_folder_links", "folders.is_root"}
      [] n = "016" -> {"media_collections", "collection_items", "collections.type",
                       "items.loop_mode", "items.updated_at"}
      [] n = "017" -> {"streams.collections"}
      [] n = "018" -> PerformanceIndexes
      [] n = "019" -> {"alerts.type_check", "alerts.severity_check", "alerts.depleted",
                       "alerts.user_fk", "activity.user_fk"}
      [] n = "020" -> {"admin_actions.reason"}
      [] n = "021" -> {"admin_actions.request"}
      [] n = "022" -> {"admin_actions.type_check"}
      [] n = "023" -> {"streams.scheduled_start"}
      [] n = "024" -> {"streams.scheduled_stop"}
      [] n = "025" -> {"profiles.timezone"}
      [] n = "026" -> {"items.updated_at"}
      [] n = "028" -> {"streams.schedule", "streams.repeat_check"}
      [] n = "029" -> {"assets.optimization", "idx_assets_optimization"}
      [] n = "032" -> {"assets.storage", "idx_assets_storage_backend"}
      [] n = "033" -> {"upload_ingests", "ingests.indexes", "ingests.status_check"}
      [] n = "034" -> {"tiers.seed", "tiers.uhd_caps"}
      [] n = "035" -> {"alerts.type_check", "alerts.refusal"}
      [] n = "038" -> {"destinations.rtmps_default"}

-----------------------------------------------------------------------------
(* What the files do *)

\* A part that comes into being with its table, in every file that creates it.
Parts == {<<"streams", "streams.source_type">>, <<"streams", "streams.source_filled">>,
          <<"upload_ingests", "ingests.status_check">>}

Core(n) == Needed(n) \ {w[2] : w \in Parts}

\* What exists once the status can be read.
Base == CoreTables \cup {"stream_assets", "stream_assets.indexes"}

Refusal == "alerts.refusal"
Either == {"check_status", "streams_status_check"}

\* What is in the schema after a statement, whatever was there before.
Sure(statement) == IF statement.unless = Nothing THEN statement.add ELSE {statement.unless}

\* What file n will have added for good, from its statement i on.
Ahead(n, i) ==
    {o \in Objects : \E j \in DOMAIN Files[n] :
        /\ j >= i /\ o \in Sure(Files[n][j])
        /\ \A m \in DOMAIN Files[n] : m > j => o \notin Files[n][m].drop}

\* The list names files, each once.
ASSUME ListAssumption ==
    /\ DOMAIN Listed = 1..Len(Listed)
    /\ \A j, k \in DOMAIN Listed : Listed[j] = Listed[k] => j = k
    /\ {Listed[k] : k \in DOMAIN Listed} = Checked \cup {"007", "027", "030", "031", "036", "037"}
    /\ \A j, k \in DOMAIN Listed : Listed[j] = "019" /\ Listed[k] = "035" => j < k
    /\ \A n \in DOMAIN Files : DOMAIN Files[n] = 1..Len(Files[n])

\* A table that is created under a condition is the one the condition is about.
ASSUME StatementAssumption ==
    /\ Nothing \notin Objects
    /\ \A n \in DOMAIN Files : \A i \in DOMAIN Files[n] :
          Files[n][i].unless = Nothing \/ Files[n][i].unless \in Files[n][i].add

\* A file adds what its verification looks for, unless an earlier file does, and
\* what a file drops of another's it adds again, but for one alert type.
ASSUME RestoredAssumption ==
    /\ \A k \in DOMAIN Listed : Listed[k] \in Checked =>
          \A o \in Core(Listed[k]) \ (Ahead(Listed[k], 1) \cup Base) :
             \E j \in DOMAIN Listed : j < k /\ Listed[j] \in Checked /\ o \in Core(Listed[j])
    /\ "check_status" \in Ahead("027", 1)
    /\ \A f \in DOMAIN Files : \A i \in DOMAIN Files[f] :
          /\ \A n \in Checked : \A o \in Files[f][i].drop \cap Core(n) :
                o \in Ahead(f, i + 1) \/ (f = "019" /\ n = "035")
          /\ Files[f][i].drop \cap Either # {} => "check_status" \in Ahead(f, i + 1)

\* Nothing drops the tables and their parts, and a table comes with its parts.
ASSUME TableAssumption ==
    /\ \A n \in Checked : \A o \in Needed(n) \ Core(n) :
          \E w \in Parts : w[2] = o /\ w[1] \in Core(n) \cup Base
    /\ \A w \in Parts : w[1] \notin PerformanceIndexes /\ w[2] \notin PatchDrops
    /\ \A n \in DOMAIN Files : \A i \in DOMAIN Files[n] :
          /\ \A w \in Parts : /\ w[2] \notin Files[n][i].drop
                              /\ w[1] \in Files[n][i].add => w[2] \in Files[n][i].add
          /\ Files[n][i].drop \cap (Base \cup {"admin_actions"}) = {}
          /\ n = "000" => Files[n][i].drop = {}
    /\ Base \subseteq Added("000")
    /\ \A i \in DOMAIN Files["000"] : "admin_actions" \in Files["000"][i].add =>
          \A o \in Base : \E j \in DOMAIN Files["000"] : j < i /\ o \in Sure(Files["000"][j])

\* The alert type of 035 is there only with all that 019 adds.
ASSUME RefusalAssumption ==
    /\ Refusal \in Core("035")
    /\ Core("019") \subseteq LegacySchema
    /\ \A n \in DOMAIN Files : \A i \in DOMAIN Files[n] :
          /\ Refusal \in Files[n][i].add => n = "035" /\ Ahead(n, i + 1) = {}
          /\ Files[n][i].drop \cap Core("019") # {} => n = "019" \/ Refusal \in Files[n][i].drop

\* A start of the backend and the builds of 018 touch none of that.
ASSUME UntouchedAssumption ==
    /\ PatchDrops \cap (Base \cup {"admin_actions"} \cup Core("019")) = {}
    /\ \A w \in Parts : w[1] \notin PatchAddsToStreams \cup PatchAddsToDestinations \cup PatchAddsToAssets
    /\ {"admin_actions", Refusal} \cap
          (PatchAddsToStreams \cup PatchAddsToDestinations \cup PatchAddsToAssets \cup PerformanceIndexes) = {}
    /\ "project_id" \notin Objects
=============================================================================

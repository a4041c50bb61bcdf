-------------------------- MODULE MigrationsProofs --------------------------
(***************************************************************************)
(* Proofs about Migrations, for every number of interrupted runs: types,   *)
(* the agreement of the two copies of the checks, the restart counter in   *)
(* the first run after a start of the backend, and what a run that reaches *)
(* its end has made good.                                                  *)
(***************************************************************************)
EXTENDS MigrationFacts, TLAPS

\* The two hand-written copies of the checks agree on every schema, but for 006:
\* any other migration verify_migration accepts get_migration_status counts as
\* applied.
THEOREM ChecksAgree ==
    ASSUME NEW s, NEW broken
    PROVE  Verified(s, broken) \subseteq Status(s, broken) \cup {"006"}
<1>1. VerifyUsers(s) \subseteq StatusOfUsers(s) \cup {"006"}
  BY DEF VerifyUsers, StatusOfUsers, Number, Has
<1>2. VerifyMedia(s) \subseteq StatusOfMedia(s)
  BY DEF VerifyMedia, StatusOfMedia, Number, Has
<1>3. VerifyCollections(s, broken) \subseteq StatusOfMedia(s) \cup StatusOfStreams(s, broken)
  BY DEF VerifyCollections, StatusOfMedia, StatusOfStreams, Number
<1>4. VerifySchedule(s) = StatusOfSchedule(s)
  BY DEF VerifySchedule, StatusOfSchedule
<1>5. QED
  BY <1>1, <1>2, <1>3, <1>4 DEF Verified, Status

\* On 006 they do not: another policy that is named users_can_... satisfies
\* verify_migration alone.
THEOREM ChecksDisagreeOn006 ==
    ASSUME NEW broken
    PROVE  "006" \in Verified({"users_can_others"}, broken) \ Status({"users_can_others"}, broken)
<1>1. "006" \in Verified({"users_can_others"}, broken)
  BY DEF Verified, VerifyUsers, Number
<1>2. "006" \notin Status({"users_can_others"}, broken)
  BY DEF Status, StatusOfUsers, StatusOfMedia, StatusOfStreams, StatusOfSchedule,
         VerifyLeases, VerifyUploads, VerifyRuntime, Number, Has
<1>3. QED
  BY <1>1, <1>2

\* What a run has verified of the files main applies, 006 not among them, is
\* never missing for the next run.
THEOREM ChecksAlwaysAgree == Spec => []VerifiedIsApplied
<1>1. "006" \notin {Listed[k] : k \in DOMAIN Listed}
  BY ListAssumption DEF Checked
<1>2. VerifiedIsApplied
  BY <1>1, ChecksAgree DEF VerifiedIsApplied
<1>3. QED
  BY <1>2, PTL DEF Spec

-----------------------------------------------------------------------------
(* The counter *)

\* 036 is counted as applied when its check holds.
LEMMA LegacyIsApplied ==
    ASSUME NEW s, NEW broken, LegacyIsGone(s)
    PROVE  "036" \in Status(s, broken)
BY DEF Status, VerifyRuntime, Number

\* A position in the list and its migration belong together.
LEMMA AdvanceTo ==
    ASSUME NEW todo, NEW k, Advance(todo, k)
    PROVE  /\ pc' = "probe" \/ (pc' = "apply" /\ file' \in todo)
           /\ file' \in DOMAIN Files
           /\ at' \in DOMAIN Files[file']
<1>1. "000" \in DOMAIN Files /\ \A n \in DOMAIN Files : 1 \in DOMAIN Files[n]
  BY MigrationAssumption
<1>2. CASE pc' = "probe" /\ file' = "000" /\ at' = 1
  BY <1>1, <1>2
<1>3. CASE pc' = "apply" /\ (\E j \in First(Following(todo, k)) : file' = Listed[j]) /\ at' = 1
  <2>1. PICK j \in First(Following(todo, k)) : file' = Listed[j]
    BY <1>3
  <2>2. j \in DOMAIN Listed /\ Listed[j] \in todo
    BY <2>1 DEF Following, First
  <2>3. Listed[j] \in DOMAIN Files
    BY <2>2, MigrationAssumption
  <2>4. QED
    BY <1>1, <1>3, <2>1, <2>2, <2>3
<1>4. QED
  BY <1>2, <1>3 DEF Advance

\* Where the runner is, with what a run that starts after Boot relies on.
Located ==
    /\ file \in DOMAIN Files
    /\ at \in DOMAIN Files[file]
    /\ pc \in Label
    /\ sinceBoot \in 0..2
    /\ pc = "idle" => pending = {}

FirstRun ==
    /\ sinceBoot = 0 => /\ pc = "idle"
                        /\ LegacyIsGone(schema)
                        /\ "user_profiles" \in schema
    /\ sinceBoot = 1 => /\ pc /= "bootstrap"
                        /\ pc = "status" => LegacyIsGone(schema)
                        /\ "036" \notin pending
                        /\ pc = "apply" => file \in pending

Inv == Located /\ FirstRun

\* At first the runner is idle, and no run is the first after a start of the backend.
LEMMA InitInv == Init => Inv
BY MigrationAssumption DEF Init, Inv, Located, FirstRun, Label

\* Every step keeps it: nothing but migration 036 takes the counter away, and a
\* first run does not reach 036's statements.
LEMMA NextInv == Inv /\ [Next]_vars => Inv'
<1> SUFFICES ASSUME Inv, [Next]_vars PROVE Inv'
  OBVIOUS
<1> USE DEF Inv, Located, FirstRun, Label
<1>a. "000" \in DOMAIN Files /\ \A n \in DOMAIN Files : 1 \in DOMAIN Files[n] /\ DOMAIN Files[n] \subseteq Nat
  BY MigrationAssumption
<1>b. ASSUME NEW outcome, End(outcome), sinceBoot' = sinceBoot, sinceBoot /= 0
      PROVE  Inv'
  BY <1>a, <1>b DEF End
<1>1. CASE Begin
  BY <1>1 DEF Begin
<1>2. CASE ReadStatus
  <2>1. Advance(pending', 0) /\ sinceBoot' = sinceBoot /\ pc = "status" /\ pending' = Numbers \ Status(schema, invalid)
    BY <1>2 DEF ReadStatus
  <2>2. /\ pc' = "probe" \/ (pc' = "apply" /\ file' \in pending')
        /\ file' \in DOMAIN Files
        /\ at' \in DOMAIN Files[file']
    BY <2>1, AdvanceTo
  <2>3. sinceBoot = 1 => "036" \notin pending'
    BY <2>1, LegacyIsApplied
  <2>4. QED
    BY <2>1, <2>2, <2>3
<1>3. CASE StatusRaises
  BY <1>3, <1>b DEF StatusRaises
<1>4. CASE Execute
  <2>1. sinceBoot' = sinceBoot /\ pending' = pending /\ sinceBoot /= 0 /\ pc \in {"bootstrap", "apply"}
    BY <1>4 DEF Execute
  <2>2. CASE at + 1 \in DOMAIN Files[file] /\ at' = at + 1 /\ UNCHANGED <<pc, file>>
    BY <2>1, <2>2
  <2>3. CASE pc = "bootstrap" /\ pc' = "status" /\ at' = 1 /\ UNCHANGED file
    BY <1>a, <2>1, <2>3
  <2>4. CASE pc = "apply" /\ \E k \in Position(file) : Advance(pending, k)
    BY <2>1, <2>4, AdvanceTo
  <2>5. QED
    BY <1>4, <2>2, <2>3, <2>4 DEF Execute
<1>5. CASE StatementRaises
  BY <1>5, <1>b DEF StatementRaises
<1>6. CASE Probe
  BY <1>6, <1>b DEF Probe
<1>7. CASE Crash
  BY <1>7, <1>b DEF Crash
<1>8. CASE Boot
  <2>1. LegacyIsGone(schema')
    BY <1>8 DEF Boot, LegacyIsGone, Has, Lacks, PatchDrops, PatchAddsToStreams,
                PatchAddsToDestinations, PatchAddsToAssets, Lease, RestartTimes, RetiredIndexes
  <2>2. "user_profiles" \in schema'
    BY <1>8 DEF Boot, Has, PatchNeeds, PatchDrops, Lease, RestartTimes, RetiredIndexes
  <2>3. QED
    BY <1>8, <2>1, <2>2 DEF Boot, Runner
<1>9. CASE UNCHANGED vars
  BY <1>9 DEF vars, LegacyIsGone, Has, Lacks
<1>10. QED
  BY <1>1, <1>2, <1>3, <1>4, <1>5, <1>6, <1>7, <1>8, <1>9 DEF Next, Step

-----------------------------------------------------------------------------
(* Types *)

\* What a statement adds is an object.
LEMMA AddedIsObject ==
    ASSUME NEW n \in DOMAIN Files
    PROVE  Added(n) \subseteq Objects /\ \A i \in DOMAIN Files[n] : Files[n][i].add \subseteq Objects
<1>1. Added(n) \subseteq Objects
  BY DEF Objects
<1>2. \A i \in DOMAIN Files[n] : Files[n][i].add \subseteq Added(n)
  BY DEF Added
<1>3. QED
  BY <1>1, <1>2

\* So is what a start of the backend adds.
LEMMA PatchAddsObjects ==
    PatchAddsToStreams \cup PatchAddsToDestinations \cup PatchAddsToAssets \subseteq Objects
BY DEF Objects

\* What a crash or an error in a concurrent build leaves behind is typed.
LEMMA InterruptTyped ==
    ASSUME Inv, TypeOK, Interrupt
    PROVE  schema' \subseteq Objects /\ invalid' \subseteq PerformanceIndexes
<1>1. CASE UNCHANGED <<schema, invalid>>
  BY <1>1 DEF TypeOK
<1>2. CASE /\ file = "018"
           /\ schema' = schema \cup Current.add
           /\ invalid' = invalid \cup Current.add
  <2>1. file \in DOMAIN Files /\ at \in DOMAIN Files[file]
    BY DEF Inv, Located
  <2>2. Current.add \subseteq Objects /\ Current.add \subseteq PerformanceIndexes
    BY <1>2, <2>1, IndexAssumption, AddedIsObject DEF Current
  <2>3. QED
    BY <1>2, <2>2 DEF TypeOK
<1>3. QED
  BY <1>1, <1>2 DEF Interrupt

\* The two databases a first run may find are typed, and the other variables.
LEMMA InitTyped == Init => TypeOK
<1> SUFFICES ASSUME Init PROVE TypeOK
  OBVIOUS
<1>1. LegacySchema \subseteq Objects
  <2>1. LegacyFiles \subseteq DOMAIN Files
    BY MigrationAssumption DEF LegacyFiles
  <2>2. QED
    BY <2>1, AddedIsObject DEF LegacySchema
<1>2. schema \subseteq Objects
  BY <1>1 DEF Init
<1>3. QED
  BY <1>2, MigrationAssumption DEF Init, TypeOK, Label

\* Every step keeps the types.
LEMMA NextTyped == Inv /\ TypeOK /\ [Next]_vars => TypeOK'
<1> SUFFICES ASSUME Inv, TypeOK, [Next]_vars PROVE TypeOK'
  OBVIOUS
<1>a. Inv'
  BY NextInv
<1>b. file' \in DOMAIN Files /\ at' \in DOMAIN Files[file'] /\ pc' \in Label /\ sinceBoot' \in 0..2
  BY <1>a DEF Inv, Located
<1>c. ASSUME schema' \subseteq Objects, invalid' \subseteq PerformanceIndexes, pending' \subseteq Numbers,
             exit' \in {"none", "success", "stopped", "failed", "killed"}, faults' \in 0..MaxFaults
      PROVE  TypeOK'
  BY <1>b, <1>c DEF TypeOK
<1>1. CASE Begin
  BY <1>1, <1>c DEF Begin, TypeOK
<1>2. CASE ReadStatus
  BY <1>2, <1>c DEF ReadStatus, TypeOK
<1>3. CASE StatusRaises
  BY <1>3, <1>c DEF StatusRaises, End, TypeOK
<1>4. CASE Execute
  <2>1. After(Current) \subseteq Objects
    <3>1. Current.add \subseteq Objects
      BY AddedIsObject DEF Current, TypeOK
    <3>2. QED
      BY <3>1 DEF After, TypeOK
  <2>2. QED
    BY <1>4, <1>c, <2>1 DEF Execute, TypeOK
<1>5. CASE StatementRaises
  <2>1. schema' \subseteq Objects /\ invalid' \subseteq PerformanceIndexes
    BY <1>5, InterruptTyped DEF StatementRaises
  <2>2. faults' \in 0..MaxFaults
    BY <1>5, MigrationAssumption DEF StatementRaises, TypeOK
  <2>3. QED
    BY <1>5, <1>c, <2>1, <2>2 DEF StatementRaises, End
<1>6. CASE Probe
  BY <1>6, <1>c DEF Probe, End, TypeOK
<1>7. CASE Crash
  <2>1. schema' \subseteq Objects /\ invalid' \subseteq PerformanceIndexes
    BY <1>7, InterruptTyped DEF Crash
  <2>2. faults' \in 0..MaxFaults
    BY <1>7, MigrationAssumption DEF Crash, TypeOK
  <2>3. QED
    BY <1>7, <1>c, <2>1, <2>2 DEF Crash, End
<1>8. CASE Boot
  <2>1. schema' \subseteq Objects
    BY <1>8, PatchAddsObjects DEF Boot, TypeOK
  <2>2. QED
    BY <1>8, <1>c, <2>1 DEF Boot, Runner, TypeOK
<1>9. CASE UNCHANGED vars
  BY <1>9, <1>c DEF vars, TypeOK
<1>10. QED
  BY <1>1, <1>2, <1>3, <1>4, <1>5, <1>6, <1>7, <1>8, <1>9 DEF Next, Step

\* The variables keep their types, for any number of interrupted runs: the runner
\* is at a statement of a file it has, and only performance indexes are invalid.
THEOREM TypeCorrect == Spec => []TypeOK
<1>1. Init => Inv /\ TypeOK
  BY InitInv, InitTyped
<1>2. Inv /\ TypeOK /\ [Next]_vars => (Inv /\ TypeOK)'
  BY NextInv, NextTyped
<1>3. QED
  BY <1>1, <1>2, PTL DEF Spec

-----------------------------------------------------------------------------
(* The counter in the first run *)

\* A step that loses the counter is a statement of 036, and no first run has one.
LEMMA StepKeepsCounter ==
    ASSUME Inv, Inv', [Next]_vars
    PROVE  [sinceBoot' <= 1 /\ Counter \in schema => Counter \in schema']_vars
<1> SUFFICES ASSUME Next, sinceBoot' <= 1, Counter \in schema PROVE Counter \in schema'
  OBVIOUS
<1>1. CASE Execute
  <2>1. sinceBoot' = sinceBoot /\ pc \in {"bootstrap", "apply"} /\ schema' = After(Current)
    BY <1>1 DEF Execute
  <2>2. file \in DOMAIN Files \ {"036"} /\ at \in DOMAIN Files[file]
    BY <2>1 DEF Inv, Located, FirstRun
  <2>3. Counter \notin Files[file][at].drop
    BY <2>2, CounterAssumption
  <2>4. QED
    BY <2>1, <2>3 DEF After, Current
<1>2. CASE Boot
  BY <1>2 DEF Boot, PatchDrops, Counter, Lease, RestartTimes, RetiredIndexes
<1>3. CASE StatementRaises \/ Crash
  BY <1>3 DEF StatementRaises, Crash, Interrupt
<1>4. CASE Begin \/ ReadStatus \/ StatusRaises \/ Probe
  BY <1>4 DEF Begin, ReadStatus, StatusRaises, Probe
<1>5. QED
  BY <1>1, <1>2, <1>3, <1>4 DEF Next, Step

\* The first run after a start of the backend never loses the restart counter.
THEOREM CounterSurvives == Spec => CounterSurvivesFirstRun
<1>1. Init => Inv
  BY InitInv
<1>2. Inv /\ [Next]_vars => Inv'
  BY NextInv
<1>3. Inv /\ Inv' /\ [Next]_vars => [sinceBoot' <= 1 /\ Counter \in schema => Counter \in schema']_vars
  BY StepKeepsCounter
<1>4. QED
  BY <1>1, <1>2, <1>3, PTL DEF Spec, CounterSurvivesFirstRun

-----------------------------------------------------------------------------
(* What the checks ask for, and what a statement leaves behind. *)

\* A schema with the objects a migration's verification looks for verifies.
LEMMA NeededSuffices ==
    ASSUME NEW n \in Checked, NEW s, NEW broken, Needed(n) \subseteq s,
           n = "018" => Needed(n) \subseteq s \ broken
    PROVE  n \in Verified(s, broken)
<1> USE DEF Needed, Verified, Has, Number
<1>1. CASE n \in {"004", "005", "008"}
  BY <1>1 DEF VerifyUsers
<1>2. CASE n \in {"010", "011", "012", "013", "014", "015"}
  BY <1>2 DEF VerifyMedia
<1>3. CASE n \in {"016", "017", "018", "019"}
  BY <1>3 DEF VerifyCollections
<1>4. CASE n \in {"020", "021", "022", "023", "024", "025", "026"}
  BY <1>4 DEF VerifySchedule
<1>5. CASE n \in {"028", "029", "032"}
  BY <1>5 DEF VerifyLeases
<1>6. CASE n \in {"033", "034", "035"}
  BY <1>6 DEF VerifyUploads
<1>7. CASE n = "038"
  BY <1>7 DEF VerifyRuntime
<1>8. QED
  BY <1>1, <1>2, <1>3, <1>4, <1>5, <1>6, <1>7 DEF Checked

\* What the status counts as applied has them, but for parts of tables.
LEMMA AppliedHasCore ==
    ASSUME NEW s, NEW broken, NEW n \in Checked \cap Status(s, broken)
    PROVE  Core(n) \subseteq s \cup Base
<1> USE DEF Needed, Core, Parts, Status, Has, Number, StatusOfUsers, StatusOfMedia, StatusOfStreams,
            StatusOfSchedule, VerifyLeases, VerifyUploads, VerifyRuntime
<1>1. CASE n \in {"004", "005", "008"}
  BY <1>1
<1>2. CASE n \in {"010", "011", "012", "013", "014", "015", "016"}
  BY <1>2 DEF Base
<1>3. CASE n \in {"017", "018", "019"}
  BY <1>3
<1>4. CASE n \in {"020", "021", "022", "023", "024", "025", "026"}
  BY <1>4
<1>5. CASE n \in {"028", "029", "032"}
  BY <1>5
<1>6. CASE n \in {"033", "034", "035", "038"}
  BY <1>6
<1>7. QED
  BY <1>1, <1>2, <1>3, <1>4, <1>5, <1>6 DEF Checked

\* ... and so have 027 and 019, the other way round for the latter.
LEMMA OtherChecks ==
    ASSUME NEW s, NEW broken
    PROVE  /\ "027" \in Status(s, broken) => Either \cap s # {}
           /\ Either \cap s # {} => "027" \in Verified(s, broken)
           /\ Core("019") \subseteq s => "019" \in Status(s, broken)
           /\ "project_id" \notin s => "007" \in Verified(s, broken)
<1>1. "027" \in Status(s, broken) => Either \cap s # {}
  BY DEF Status, Number, StatusOfUsers, StatusOfMedia, StatusOfStreams, StatusOfSchedule,
         VerifyLeases, VerifyUploads, VerifyRuntime, Either
<1>2. Either \cap s # {} => "027" \in Verified(s, broken)
  BY DEF Either, Verified, VerifySchedule, Number
<1>3. Core("019") \subseteq s => "019" \in Status(s, broken)
  BY DEF Core, Needed, Parts, Status, StatusOfStreams, Number, Has
<1>4. "project_id" \notin s => "007" \in Verified(s, broken)
  BY DEF Verified, VerifyUsers, Number, Lacks
<1>5. QED
  BY <1>1, <1>2, <1>3, <1>4

\* What a file is still to add, it adds with its next statement or later.
LEMMA AheadNext ==
    ASSUME NEW n \in DOMAIN Files, NEW i \in DOMAIN Files[n], NEW o \in Ahead(n, i)
    PROVE  o \in Sure(Files[n][i]) \/ o \in Ahead(n, i + 1)
<1>1. PICK j \in DOMAIN Files[n] :
        /\ j >= i /\ o \in Sure(Files[n][j])
        /\ \A m \in DOMAIN Files[n] : m > j => o \notin Files[n][m].drop
  BY DEF Ahead
<1>2. i \in Nat /\ j \in Nat
  BY MigrationAssumption
<1>3. CASE j = i
  BY <1>1, <1>3
<1>4. CASE j >= i + 1
  BY <1>1, <1>4 DEF Ahead
<1>5. QED
  BY <1>1, <1>2, <1>3, <1>4

\* At its end there is nothing left to add.
LEMMA AheadEnds ==
    ASSUME NEW n \in DOMAIN Files, NEW i \in DOMAIN Files[n], i + 1 \notin DOMAIN Files[n]
    PROVE  Ahead(n, i + 1) = {}
<1>1. DOMAIN Files[n] = 1..Len(Files[n]) /\ i \in Nat
  BY ListAssumption, MigrationAssumption
<1>2. ASSUME NEW j \in DOMAIN Files[n], j >= i + 1 PROVE FALSE
  BY <1>1, <1>2
<1>3. QED
  BY <1>2 DEF Ahead

\* A statement that commits keeps what it does not drop and adds what is sure.
LEMMA StatementEffect ==
    ASSUME TypeOK, NEW n \in DOMAIN Files, NEW i \in DOMAIN Files[n]
    PROVE  /\ Sure(Files[n][i]) \subseteq After(Files[n][i])
           /\ \A o \in schema : o \notin Files[n][i].drop => o \in After(Files[n][i])
           /\ \A o \in After(Files[n][i]) : \/ o \in schema /\ o \notin Files[n][i].drop
                                            \/ o \in Files[n][i].add
                                            \/ After(Files[n][i]) = schema
<1>1. Nothing \notin schema
  BY StatementAssumption DEF TypeOK
<1>2. Files[n][i].unless = Nothing \/ Files[n][i].unless \in Files[n][i].add
  BY StatementAssumption
<1>3. QED
  BY <1>1, <1>2 DEF Sure, After

\* So what is there or is still to come stays so over a statement, unless it drops
\* it for good.
LEMMA StatementProgress ==
    ASSUME TypeOK, NEW n \in DOMAIN Files, NEW i \in DOMAIN Files[n],
           NEW o \in schema \cup Ahead(n, i),
           o \in Files[n][i].drop => o \in Ahead(n, i + 1)
    PROVE  o \in After(Files[n][i]) \cup Ahead(n, i + 1)
BY AheadNext, StatementEffect

-----------------------------------------------------------------------------
(* A run that reaches its end has made good what earlier runs left undone.  *)
(* Of a migration that the run has passed, or does not count as missing,    *)
(* every object is there or still to come in the file it is at.             *)

\* Migration n is not missing, or the run has reached its file.
Settled(n) ==
    \/ n \notin pending
    \/ \E j, k \in DOMAIN Listed : Listed[j] = n /\ Listed[k] = file /\ j <= k

\* Holds between runs too: parts come with their tables, the tables that make the
\* status readable are the last of the initial schema, and 035's alert type comes
\* after 019.
SchemaInv ==
    /\ \A w \in Parts : w[1] \in schema => w[2] \in schema
    /\ "admin_actions" \in schema => Base \subseteq schema
    /\ Refusal \in schema => Core("019") \subseteq schema

BootstrapInv ==
    /\ pc = "idle" => file = "000" /\ at = 1
    /\ pc = "bootstrap" =>
         /\ file = "000"
         /\ \A i \in DOMAIN Files["000"] : i < at => Sure(Files["000"][i]) \subseteq schema

ApplyInv ==
    pc = "apply" =>
      /\ file \in pending /\ \E k \in DOMAIN Listed : Listed[k] = file
      /\ \A n \in Checked : Settled(n) => Core(n) \subseteq schema \cup Ahead(file, at)
      /\ Settled("027") => Either \cap schema # {} \/ "check_status" \in Ahead(file, at)
      /\ /\ "019" \in pending
         /\ \A j, k \in DOMAIN Listed : Listed[j] = file /\ Listed[k] = "019" => j <= k
         => Refusal \notin schema

RunInv ==
    pc \in {"apply", "probe"} => /\ "admin_actions" \in schema
                                 /\ "019" \in pending => "035" \in pending

ProbeInv ==
    pc = "probe" => (\A n \in Checked : Core(n) \subseteq schema) /\ Either \cap schema # {}

MadeGoodInv == SchemaInv /\ BootstrapInv /\ ApplyInv /\ RunInv /\ ProbeInv

\* The run goes on to the next file, or to its end: what it has settled is there.
LEMMA AdvanceSettles ==
    ASSUME NEW todo, NEW k \in Nat, Advance(todo, k), pending' = todo,
           \A n \in Checked : n \notin todo \/ (\E j \in DOMAIN Listed : j <= k /\ Listed[j] = n)
                                => Core(n) \subseteq schema',
           "027" \notin todo \/ (\E j \in DOMAIN Listed : j <= k /\ Listed[j] = "027")
                => Either \cap schema' # {},
           Base \subseteq schema',
           "019" \in todo /\ (\A j \in DOMAIN Listed : Listed[j] = "019" => k < j) => Refusal \notin schema'
    PROVE  ApplyInv' /\ ProbeInv' /\ pc' \in {"apply", "probe"}
<1> DEFINE ahead == Following(todo, k)
<1>1. /\ \A j \in DOMAIN Listed : j \in Nat
      /\ \A i, j \in DOMAIN Listed : Listed[i] = Listed[j] => i = j
      /\ \A n \in Checked \cup {"007", "027", "030", "031", "036", "037"} :
            \E j \in DOMAIN Listed : Listed[j] = n
  <2>1. DOMAIN Listed = 1..Len(Listed)
    BY ListAssumption
  <2>2. \A j \in DOMAIN Listed : j \in Nat
    BY <2>1
  <2>3. QED
    BY <2>2, ListAssumption
<1>2. \A j \in DOMAIN Listed : j > k => j \in ahead \/ Listed[j] \notin todo
  BY DEF Following
<1>3. CASE ahead = {} /\ pc' = "probe"
  <2>1. \A j \in DOMAIN Listed : Listed[j] \in todo => j <= k
    BY <1>1, <1>2, <1>3
  <2>2. QED
    BY <1>1, <1>3, <2>1 DEF ApplyInv, ProbeInv
<1>4. CASE pc' = "apply" /\ (\E j \in First(ahead) : file' = Listed[j]) /\ at' = 1
  <2>1. PICK j \in First(ahead) : file' = Listed[j]
    BY <1>4
  <2>2. /\ j \in DOMAIN Listed /\ j > k /\ Listed[j] \in todo
        /\ \A i \in ahead : j <= i
    BY <2>1 DEF Following, First
  \* Earlier in the list there is nothing that is not settled.
  <2>3. ASSUME NEW i \in DOMAIN Listed, i < j
        PROVE  Listed[i] \notin todo \/ i <= k
    BY <1>1, <1>2, <2>2, <2>3
  <2>4. ASSUME NEW n, Settled(n)', n # file'
        PROVE  n \notin todo \/ (\E i \in DOMAIN Listed : i <= k /\ Listed[i] = n)
    <3>1. CASE n \notin todo
      BY <3>1
    <3>2. CASE \E i, m \in DOMAIN Listed : Listed[i] = n /\ Listed[m] = file' /\ i <= m
      <4>1. PICK i \in DOMAIN Listed : Listed[i] = n /\ i <= j
        BY <1>1, <2>1, <2>2, <3>2
      <4>2. i < j
        BY <1>1, <2>1, <2>2, <2>4, <4>1
      <4>3. QED
        BY <2>3, <4>1, <4>2
    <3>3. QED
      BY <2>4, <3>1, <3>2 DEF Settled
  <2>5. ASSUME NEW n \in Checked, Settled(n)'
        PROVE  Core(n) \subseteq schema' \cup Ahead(file', 1)
    <3>1. CASE n # file'
      BY <2>4, <2>5, <3>1
    <3>2. CASE n = file'
      <4>1. ASSUME NEW o \in Core(n), o \notin Ahead(n, 1) \cup Base
            PROVE  o \in schema'
        <5>1. PICK i \in DOMAIN Listed : i < j /\ Listed[i] \in Checked /\ o \in Core(Listed[i])
          BY <2>1, <2>2, <3>2, <4>1, RestoredAssumption
        <5>2. Listed[i] \notin todo \/ i <= k
          BY <2>3, <5>1
        <5>3. QED
          BY <5>1, <5>2
      <4>2. QED
        BY <3>2, <4>1
    <3>3. QED
      BY <3>1, <3>2
  <2>6. Settled("027")' => Either \cap schema' # {} \/ "check_status" \in Ahead(file', 1)
    BY <2>4, RestoredAssumption
  <2>7. ASSUME "019" \in todo,
               \A i, m \in DOMAIN Listed : Listed[i] = file' /\ Listed[m] = "019" => i <= m
        PROVE  Refusal \notin schema'
    BY <1>1, <2>1, <2>2, <2>7
  <2>8. QED
    BY <1>4, <2>1, <2>2, <2>5, <2>6, <2>7 DEF ApplyInv, ProbeInv
<1>5. QED
  BY <1>3, <1>4 DEF Advance

\* A statement of a migration keeps what the run has settled.
LEMMA StatementSettles ==
    ASSUME Inv, TypeOK, MadeGoodInv, pc = "apply", schema' = After(Current)
    PROVE  /\ \A n \in Checked : Settled(n) => Core(n) \subseteq schema' \cup Ahead(file, at + 1)
           /\ Settled("027") => Either \cap schema' # {} \/ "check_status" \in Ahead(file, at + 1)
           /\ /\ "019" \in pending
              /\ \A j, k \in DOMAIN Listed : Listed[j] = file /\ Listed[k] = "019" => j <= k
              => Refusal \notin schema'
           /\ "admin_actions" \in schema'
<1> DEFINE statement == Files[file][at]
<1>1. /\ file \in DOMAIN Files /\ at \in DOMAIN Files[file] /\ schema' = After(statement)
      /\ file \in pending /\ "admin_actions" \in schema /\ ("019" \in pending => "035" \in pending)
  BY DEF Inv, Located, MadeGoodInv, ApplyInv, RunInv, Current
<1>2. PICK k \in DOMAIN Listed : Listed[k] = file
  BY DEF MadeGoodInv, ApplyInv
<1>3. /\ \A j \in DOMAIN Listed : j \in Nat
      /\ \A i, j \in DOMAIN Listed : Listed[i] = Listed[j] => i = j
      /\ \A i, j \in DOMAIN Listed : Listed[i] = "019" /\ Listed[j] = "035" => i < j
      /\ \E j \in DOMAIN Listed : Listed[j] = "019"
  <2>1. DOMAIN Listed = 1..Len(Listed)
    BY ListAssumption
  <2>2. \A j \in DOMAIN Listed : j \in Nat
    BY <2>1
  <2>3. "019" \in Checked
    BY DEF Checked
  <2>4. QED
    BY <2>2, <2>3, ListAssumption
<1>4. ASSUME NEW n \in Checked, Settled(n), NEW o \in Core(n)
      PROVE  o \in schema' \cup Ahead(file, at + 1)
  <2>1. o \in schema \cup Ahead(file, at)
    BY <1>4 DEF MadeGoodInv, ApplyInv
  <2>2. ~(file = "019" /\ n = "035")
    BY <1>1, <1>3, <1>4 DEF Settled
  <2>3. o \in statement.drop => o \in Ahead(file, at + 1)
    BY <1>1, <1>4, <2>2, RestoredAssumption
  <2>4. QED
    BY <1>1, <2>1, <2>3, StatementProgress
<1>5. Settled("027") => Either \cap schema' # {} \/ "check_status" \in Ahead(file, at + 1)
  <2> SUFFICES ASSUME Settled("027"), "check_status" \notin Ahead(file, at + 1)
               PROVE  Either \cap schema' # {}
    OBVIOUS
  <2>1. statement.drop \cap Either = {}
    BY <1>1, RestoredAssumption
  <2>2. Either \cap schema # {} \/ "check_status" \in Ahead(file, at)
    BY DEF MadeGoodInv, ApplyInv
  <2>3. CASE Either \cap schema # {}
    BY <1>1, <2>1, <2>3, StatementEffect
  <2>4. CASE "check_status" \in Ahead(file, at)
    <3>1. "check_status" \in schema'
      BY <1>1, <2>4, AheadNext, StatementEffect
    <3>2. QED
      BY <3>1 DEF Either
  <2>5. QED
    BY <2>2, <2>3, <2>4
<1>6. ASSUME "019" \in pending,
             \A j, m \in DOMAIN Listed : Listed[j] = file /\ Listed[m] = "019" => j <= m
      PROVE  Refusal \notin schema'
  <2>1. Refusal \notin schema
    BY <1>6 DEF MadeGoodInv, ApplyInv
  <2>2. file # "035"
    BY <1>2, <1>3, <1>6
  <2>3. Refusal \notin statement.add
    BY <1>1, <2>2, RefusalAssumption
  <2>4. QED
    BY <1>1, <2>1, <2>3 DEF After
<1>7. "admin_actions" \in schema'
  <2>1. "admin_actions" \notin statement.drop
    BY <1>1, TableAssumption
  <2>2. QED
    BY <1>1, <2>1, StatementEffect
<1>8. QED
  BY <1>4, <1>5, <1>6, <1>7

\* A statement, of whichever file, keeps what holds between runs.
LEMMA StatementSchema ==
    ASSUME Inv, TypeOK, MadeGoodInv, pc \in {"bootstrap", "apply"}, schema' = After(Current)
    PROVE  SchemaInv'
<1> DEFINE statement == Files[file][at]
           new == (schema \ statement.drop) \cup statement.add
<1>1. file \in DOMAIN Files /\ at \in DOMAIN Files[file] /\ schema' \in {schema, new} /\ SchemaInv
  BY DEF Inv, Located, MadeGoodInv, Current, After
<1>2. pc = "bootstrap" => file = "000"
  BY DEF MadeGoodInv, BootstrapInv
<1>3. CASE schema' = schema
  BY <1>1, <1>3 DEF SchemaInv
<1>4. CASE schema' = new
  <2>1. ASSUME NEW w \in Parts, w[1] \in schema' PROVE w[2] \in schema'
    BY <1>1, <1>4, <2>1, TableAssumption DEF SchemaInv
  <2>2. ASSUME "admin_actions" \in schema', NEW o \in Base PROVE o \in schema'
    <3>1. o \notin statement.drop
      BY <1>1, <2>2, TableAssumption
    <3>2. CASE "admin_actions" \in schema
      BY <1>1, <1>4, <3>1, <3>2 DEF SchemaInv
    <3>3. CASE "admin_actions" \notin schema
      <4>1. file = "000" /\ pc = "bootstrap" /\ "admin_actions" \in statement.add
        BY <1>2, <1>4, <2>2, <3>3 DEF MadeGoodInv, RunInv
      <4>2. PICK j \in DOMAIN Files["000"] : j < at /\ o \in Sure(Files["000"][j])
        BY <1>1, <4>1, TableAssumption
      <4>3. o \in schema
        BY <4>1, <4>2 DEF MadeGoodInv, BootstrapInv
      <4>4. QED
        BY <1>4, <3>1, <4>3
    <3>4. QED
      BY <3>2, <3>3
  <2>3. ASSUME Refusal \in schema', NEW o \in Core("019") PROVE o \in schema'
    <3>0. "019" \in Checked /\ "035" \in Checked
      BY DEF Checked
    <3>1. CASE Refusal \in statement.add
      <4>1. file = "035" /\ Ahead(file, at + 1) = {}
        BY <1>1, <3>1, RefusalAssumption
      <4>2. pc = "apply"
        BY <1>2, <4>1
      <4>3. \E j, k \in DOMAIN Listed : Listed[j] = "019" /\ Listed[k] = file /\ j <= k
        <5>1. PICK j \in DOMAIN Listed, k \in DOMAIN Listed : Listed[j] = "019" /\ Listed[k] = "035"
          BY <3>0, ListAssumption
        <5>2. j < k /\ DOMAIN Listed = 1..Len(Listed)
          BY <5>1, ListAssumption
        <5>3. j <= k
          BY <5>2
        <5>4. QED
          BY <4>1, <5>1, <5>3
      <4>4. Settled("019")
        BY <4>3 DEF Settled
      <4>5. Core("019") \subseteq schema'
        BY <3>0, <4>1, <4>2, <4>4, StatementSettles
      <4>6. QED
        BY <2>3, <4>5
    <3>2. CASE Refusal \in schema /\ Refusal \notin statement.drop
      <4>1. o \in schema
        BY <1>1, <2>3, <3>2 DEF SchemaInv
      <4>2. o \notin statement.drop
        <5> SUFFICES ASSUME o \in statement.drop PROVE FALSE
          OBVIOUS
        <5>1. file = "019"
          BY <1>1, <2>3, <3>2, RefusalAssumption
        <5>2. pc = "apply" /\ file \in pending
          BY <1>2, <5>1 DEF MadeGoodInv, ApplyInv
        <5>3. \A j, k \in DOMAIN Listed : Listed[j] = file /\ Listed[k] = "019" => j <= k
          <6>1. DOMAIN Listed = 1..Len(Listed)
            BY ListAssumption
          <6>2. \A j, k \in DOMAIN Listed : Listed[j] = Listed[k] => j = k
            BY ListAssumption
          <6>3. QED
            BY <5>1, <6>1, <6>2
        <5>4. QED
          BY <3>2, <5>1, <5>2, <5>3 DEF MadeGoodInv, ApplyInv
      <4>3. QED
        BY <1>4, <4>1, <4>2
    <3>3. QED
      BY <1>4, <2>3, <3>1, <3>2
  <2>4. QED
    BY <2>1, <2>2, <2>3 DEF SchemaInv
<1>5. QED
  BY <1>1, <1>3, <1>4

\* So does an interrupted one.
LEMMA InterruptSchema ==
    ASSUME Inv, TypeOK, SchemaInv, Interrupt
    PROVE  SchemaInv'
<1>1. CASE UNCHANGED <<schema, invalid>>
  BY <1>1 DEF SchemaInv
<1>2. CASE file = "018" /\ schema' = schema \cup Current.add
  <2>1. file \in DOMAIN Files /\ at \in DOMAIN Files[file]
    BY DEF Inv, Located
  <2>2. Current.add \subseteq PerformanceIndexes
    BY <1>2, <2>1, IndexAssumption DEF Current
  <2>3. QED
    BY <1>2, <2>2, TableAssumption, UntouchedAssumption DEF SchemaInv
<1>3. QED
  BY <1>1, <1>2 DEF Interrupt

\* The database of a new installation is empty; one of an older release has it all.
LEMMA InitMadeGood == Init => MadeGoodInv
<1> SUFFICES ASSUME Init PROVE MadeGoodInv
  OBVIOUS
<1>1. CASE schema = {}
  BY <1>1 DEF Init, MadeGoodInv, SchemaInv, BootstrapInv, ApplyInv, RunInv, ProbeInv
<1>2. CASE schema = LegacySchema
  <2>1. LegacyFiles \subseteq DOMAIN Files /\ "000" \in LegacyFiles
    BY MigrationAssumption DEF LegacyFiles
  <2>2. ASSUME NEW w \in Parts, w[1] \in schema PROVE w[2] \in schema
    <3>1. PICK n \in LegacyFiles : w[1] \in Added(n)
      BY <1>2, <2>2 DEF LegacySchema
    <3>2. PICK i \in DOMAIN Files[n] : w[1] \in Files[n][i].add
      BY <3>1 DEF Added
    <3>3. w[2] \in Files[n][i].add
      BY <2>1, <3>2, TableAssumption
    <3>4. w[2] \in Added(n)
      BY <3>3 DEF Added
    <3>5. QED
      BY <1>2, <3>4 DEF LegacySchema
  <2>3. Base \subseteq schema
    BY <1>2, <2>1, TableAssumption DEF LegacySchema
  <2>4. Core("019") \subseteq schema
    BY <1>2, RefusalAssumption
  <2>5. SchemaInv
    BY <2>2, <2>3, <2>4 DEF SchemaInv
  <2>6. QED
    BY <2>5 DEF Init, MadeGoodInv, BootstrapInv, ApplyInv, RunInv, ProbeInv
<1>3. QED
  BY <1>1, <1>2 DEF Init

\* A run that ends leaves only what holds between runs.
LEMMA EndMadeGood ==
    ASSUME NEW outcome, End(outcome), SchemaInv'
    PROVE  MadeGoodInv'
BY DEF End, MadeGoodInv, BootstrapInv, ApplyInv, RunInv, ProbeInv

\* What the status does not list as missing is there, but for parts of tables.
LEMMA ReadStatusMadeGood ==
    ASSUME MadeGoodInv, ReadStatus
    PROVE  MadeGoodInv'
<1> DEFINE todo == Numbers \ Status(schema, invalid)
<1>1. /\ pc = "status" /\ schema' = schema /\ pending' = todo /\ Advance(todo, 0)
      /\ "admin_actions" \in schema /\ SchemaInv /\ Base \subseteq schema
  BY DEF ReadStatus, StatusReadable, Has, MadeGoodInv, SchemaInv
<1>2. /\ DOMAIN Listed = 1..Len(Listed)
      /\ \A n \in Checked \cup {"027"} : n \in Numbers
  BY ListAssumption DEF Numbers
<1>3. \A j \in DOMAIN Listed : ~(j <= 0)
  BY <1>2
<1>4. ASSUME NEW n \in Checked, n \notin todo PROVE Core(n) \subseteq schema
  <2>1. n \in Status(schema, invalid)
    BY <1>2, <1>4
  <2>2. QED
    BY <1>1, <2>1, AppliedHasCore
<1>5. "027" \notin todo => Either \cap schema # {}
  BY <1>2, OtherChecks
<1>6. "019" \in todo => Refusal \notin schema /\ "035" \in todo
  <2> SUFFICES ASSUME "019" \in todo PROVE Refusal \notin schema /\ "035" \in todo
    OBVIOUS
  <2>1. Refusal \notin schema
    BY <1>1, OtherChecks DEF SchemaInv
  <2>2. "035" \in Checked
    BY DEF Checked
  <2>3. "035" \in todo
    BY <1>4, <2>1, <2>2, RefusalAssumption
  <2>4. QED
    BY <2>1, <2>3
<1> HIDE DEF todo
<1>7. ApplyInv' /\ ProbeInv' /\ pc' \in {"apply", "probe"}
  BY <1>1, <1>3, <1>4, <1>5, <1>6, AdvanceSettles
<1>8. SchemaInv' /\ BootstrapInv' /\ RunInv'
  BY <1>1, <1>6, <1>7 DEF SchemaInv, BootstrapInv, RunInv
<1>9. QED
  BY <1>7, <1>8 DEF MadeGoodInv

\* So is, after a statement, what was there or is still to come in the file; at
\* the end of the file there is nothing to come.
LEMMA ExecuteMadeGood ==
    ASSUME Inv, TypeOK, MadeGoodInv, Execute
    PROVE  MadeGoodInv'
<1>1. /\ pc \in {"bootstrap", "apply"} /\ schema' = After(Current) /\ pending' = pending
      /\ file \in DOMAIN Files /\ at \in DOMAIN Files[file] /\ at \in Nat
  BY MigrationAssumption DEF Execute, Inv, Located
<1>2. SchemaInv'
  BY <1>1, StatementSchema
<1>3. CASE pc = "bootstrap" /\ at' = at + 1 /\ UNCHANGED <<pc, file>>
  <2>1. file = "000"
    BY <1>3 DEF MadeGoodInv, BootstrapInv
  <2>2. ASSUME NEW i \in DOMAIN Files["000"], i < at + 1
        PROVE  Sure(Files["000"][i]) \subseteq schema'
    <3>0. i \in Nat
      BY <1>1, <2>1, MigrationAssumption
    <3>1. CASE i = at
      BY <1>1, <2>1, <3>1, StatementEffect DEF Current
    <3>2. CASE i < at
      <4>1. Sure(Files["000"][i]) \subseteq schema
        BY <1>3, <3>2 DEF MadeGoodInv, BootstrapInv
      <4>2. Files["000"][at].drop = {}
        BY <1>1, <2>1, TableAssumption
      <4>3. QED
        BY <1>1, <2>1, <4>1, <4>2, StatementEffect DEF Current
    <3>3. QED
      BY <1>1, <2>2, <3>0, <3>1, <3>2
  <2>3. BootstrapInv' /\ ApplyInv' /\ RunInv' /\ ProbeInv'
    BY <1>3, <2>1, <2>2 DEF BootstrapInv, ApplyInv, RunInv, ProbeInv
  <2>4. QED
    BY <1>2, <2>3 DEF MadeGoodInv
<1>4. CASE pc' = "status"
  BY <1>2, <1>4 DEF MadeGoodInv, BootstrapInv, ApplyInv, RunInv, ProbeInv
<1>5. CASE pc = "apply" /\ at' = at + 1 /\ UNCHANGED <<pc, file>>
  <2>1. /\ \A n \in Checked : Settled(n) => Core(n) \subseteq schema' \cup Ahead(file, at + 1)
        /\ Settled("027") => Either \cap schema' # {} \/ "check_status" \in Ahead(file, at + 1)
        /\ /\ "019" \in pending
           /\ \A j, k \in DOMAIN Listed : Listed[j] = file /\ Listed[k] = "019" => j <= k
           => Refusal \notin schema'
        /\ "admin_actions" \in schema'
    BY <1>1, <1>5, StatementSettles
  <2>2. file' = file /\ at' = at + 1 /\ pc' = "apply"
    BY <1>5
  <2>3. \A n : Settled(n)' <=> Settled(n)
    BY <1>1, <2>2 DEF Settled
  <2>4. file \in pending /\ (\E k \in DOMAIN Listed : Listed[k] = file) /\ ("019" \in pending => "035" \in pending)
    BY <1>5 DEF MadeGoodInv, ApplyInv, RunInv
  <2>5. ApplyInv'
    BY <1>1, <2>1, <2>2, <2>3, <2>4 DEF ApplyInv
  <2>6. BootstrapInv' /\ RunInv' /\ ProbeInv'
    BY <1>1, <2>1, <2>2, <2>4 DEF BootstrapInv, RunInv, ProbeInv
  <2>7. QED
    BY <1>2, <2>5, <2>6 DEF MadeGoodInv
<1>6. CASE pc = "apply" /\ at + 1 \notin DOMAIN Files[file] /\ (\E k \in Position(file) : Advance(pending, k))
  <2>1. PICK k \in DOMAIN Listed : Listed[k] = file /\ Advance(pending, k)
    BY <1>6 DEF Position
  <2>2. Ahead(file, at + 1) = {}
    BY <1>1, <1>6, AheadEnds
  <2>3. /\ \A n \in Checked : Settled(n) => Core(n) \subseteq schema'
        /\ Settled("027") => Either \cap schema' # {}
        /\ /\ "019" \in pending
           /\ \A j, m \in DOMAIN Listed : Listed[j] = file /\ Listed[m] = "019" => j <= m
           => Refusal \notin schema'
        /\ "admin_actions" \in schema'
    BY <1>1, <1>6, <2>2, StatementSettles
  <2>4. DOMAIN Listed = 1..Len(Listed) /\ \A i, j \in DOMAIN Listed : Listed[i] = Listed[j] => i = j
    BY ListAssumption
  <2>5. k \in Nat /\ \A j \in DOMAIN Listed : j \in Nat
    BY <2>4
  <2>6. \A n : n \notin pending \/ (\E j \in DOMAIN Listed : j <= k /\ Listed[j] = n) => Settled(n)
    BY <2>1 DEF Settled
  <2>7. /\ \A n \in Checked : n \notin pending \/ (\E j \in DOMAIN Listed : j <= k /\ Listed[j] = n)
                                => Core(n) \subseteq schema'
        /\ "027" \notin pending \/ (\E j \in DOMAIN Listed : j <= k /\ Listed[j] = "027")
             => Either \cap schema' # {}
    BY <2>3, <2>6
  <2>8. ASSUME "019" \in pending, \A j \in DOMAIN Listed : Listed[j] = "019" => k < j
        PROVE  Refusal \notin schema'
    <3>1. \A j, m \in DOMAIN Listed : Listed[j] = file /\ Listed[m] = "019" => j <= m
      BY <2>1, <2>4, <2>5, <2>8
    <3>2. QED
      BY <2>3, <2>8, <3>1
  <2>9. Base \subseteq schema'
    BY <1>2, <2>3 DEF SchemaInv
  <2>10. ApplyInv' /\ ProbeInv' /\ pc' \in {"apply", "probe"}
    BY <1>1, <2>1, <2>5, <2>7, <2>8, <2>9, AdvanceSettles
  <2>11. BootstrapInv' /\ RunInv'
    BY <1>1, <1>6, <2>3, <2>10 DEF MadeGoodInv, BootstrapInv, RunInv
  <2>12. QED
    BY <1>2, <2>10, <2>11 DEF MadeGoodInv
<1>7. QED
  BY <1>1, <1>3, <1>4, <1>5, <1>6 DEF Execute

\* A start of the backend keeps what holds between runs.
LEMMA BootMadeGood ==
    ASSUME MadeGoodInv, Boot
    PROVE  MadeGoodInv'
<1> DEFINE added == PatchAddsToStreams \cup PatchAddsToDestinations \cup PatchAddsToAssets
<1>1. /\ pc = "idle" /\ pc' = pc /\ file' = file /\ at' = at
      /\ schema' = (schema \ PatchDrops) \cup added
  BY DEF Boot, Runner
<1>2. /\ \A w \in Parts : w[1] \notin added /\ w[2] \notin PatchDrops
      /\ "admin_actions" \notin added /\ Refusal \notin added
      /\ PatchDrops \cap (Base \cup Core("019")) = {}
  BY UntouchedAssumption, TableAssumption
<1> HIDE DEF added
<1>3. SchemaInv'
  BY <1>1, <1>2 DEF MadeGoodInv, SchemaInv
<1>4. BootstrapInv' /\ ApplyInv' /\ RunInv' /\ ProbeInv'
  BY <1>1 DEF MadeGoodInv, BootstrapInv, ApplyInv, RunInv, ProbeInv
<1>5. QED
  BY <1>3, <1>4 DEF MadeGoodInv

\* Every step keeps it.
LEMMA NextMadeGood == Inv /\ TypeOK /\ MadeGoodInv /\ [Next]_vars => MadeGoodInv'
<1> SUFFICES ASSUME Inv, TypeOK, MadeGoodInv, [Next]_vars PROVE MadeGoodInv'
  OBVIOUS
<1>1. CASE Begin
  <2>1. /\ pc = "idle" /\ file' = file /\ at' = at /\ schema' = schema /\ pc' \in {"status", "bootstrap"}
        /\ file = "000" /\ at = 1
    BY <1>1 DEF Begin, MadeGoodInv, BootstrapInv
  <2>2. ASSUME NEW i \in DOMAIN Files["000"] PROVE ~(i < 1)
    <3>1. "000" \in DOMAIN Files
      BY MigrationAssumption
    <3>2. DOMAIN Files["000"] = 1..Len(Files["000"])
      BY <3>1, ListAssumption
    <3>3. QED
      BY <2>2, <3>2
  <2>3. SchemaInv' /\ BootstrapInv' /\ ApplyInv' /\ RunInv' /\ ProbeInv'
    BY <2>1, <2>2 DEF MadeGoodInv, SchemaInv, BootstrapInv, ApplyInv, RunInv, ProbeInv
  <2>4. QED
    BY <2>3 DEF MadeGoodInv
<1>2. CASE ReadStatus
  BY <1>2, ReadStatusMadeGood
<1>3. CASE Execute
  BY <1>3, ExecuteMadeGood
<1>4. CASE StatusRaises \/ Probe
  <2>1. SchemaInv' /\ \E outcome : End(outcome)
    BY <1>4 DEF StatusRaises, Probe, MadeGoodInv, SchemaInv
  <2>2. QED
    BY <2>1, EndMadeGood
<1>5. CASE StatementRaises \/ Crash
  <2>1. Interrupt /\ \E outcome : End(outcome)
    BY <1>5 DEF StatementRaises, Crash
  <2>2. SchemaInv'
    BY <2>1, InterruptSchema DEF MadeGoodInv
  <2>3. QED
    BY <2>1, <2>2, EndMadeGood
<1>6. CASE Boot
  BY <1>6, BootMadeGood
<1>7. CASE UNCHANGED vars
  BY <1>7 DEF vars, MadeGoodInv, SchemaInv, BootstrapInv, ApplyInv, Settled, RunInv, ProbeInv
<1>8. QED
  BY <1>1, <1>2, <1>3, <1>4, <1>5, <1>6, <1>7 DEF Next, Step

\* What the run has settled is what the verification looks for: with a table come
\* the parts that the status does not ask about.
LEMMA SettledVerifies ==
    ASSUME TypeOK, MadeGoodInv
    PROVE  InterruptionIsMadeGood
<1> SUFFICES ASSUME pc = "probe", NEW k \in DOMAIN Listed, Listed[k] \notin Verified(schema, invalid)
             PROVE  Listed[k] \in {"030", "031", "036", "037"} \cup (IF invalid = {} THEN {} ELSE {"018"})
  BY DEF InterruptionIsMadeGood
<1>1. /\ \A n \in Checked : Core(n) \subseteq schema
      /\ Either \cap schema # {} /\ Base \subseteq schema
      /\ \A w \in Parts : w[1] \in schema => w[2] \in schema
  BY DEF MadeGoodInv, ProbeInv, RunInv, SchemaInv
<1>2. ASSUME NEW n \in Checked PROVE Needed(n) \subseteq schema
  <2>1. \A o \in Needed(n) \ Core(n) : \E w \in Parts : w[2] = o /\ w[1] \in schema
    BY <1>1, TableAssumption
  <2>2. QED
    BY <1>1, <2>1
<1>3. ASSUME NEW n \in Checked, n # "018" \/ invalid = {} PROVE n \in Verified(schema, invalid)
  BY <1>2, <1>3, NeededSuffices
<1>4. "027" \in Verified(schema, invalid) /\ "007" \in Verified(schema, invalid)
  BY <1>1, OtherChecks, UntouchedAssumption DEF TypeOK
<1>5. Listed[k] \in Checked \cup {"007", "027", "030", "031", "036", "037"}
  BY ListAssumption
<1>6. QED
  BY <1>3, <1>4, <1>5

\* A run that reaches its end leaves no listed migration unverified, but those
\* about the runtime state and an index that an interrupted build has spoiled,
\* however many earlier runs were interrupted, and wherever.
THEOREM InterruptionsAreMadeGood == Spec => []InterruptionIsMadeGood
<1>1. Init => Inv /\ TypeOK /\ MadeGoodInv
  BY InitInv, InitTyped, InitMadeGood
<1>2. Inv /\ TypeOK /\ MadeGoodInv /\ [Next]_vars => (Inv /\ TypeOK /\ MadeGoodInv)'
  BY NextInv, NextTyped, NextMadeGood
<1>3. TypeOK /\ MadeGoodInv => InterruptionIsMadeGood
  BY SettledVerifies
<1>4. QED
  BY <1>1, <1>2, <1>3, PTL DEF Spec

=============================================================================

---------------------------- MODULE MigrationProofs ----------------------------
(***************************************************************************)
(* What holds of Migration for any sources and any names: of the database  *)
(* through upgrades, refusals, stops, downgrades and inventories in any    *)
(* order.                                                                  *)
(***************************************************************************)
EXTENDS Migration, TLAPS

\* What the script saw when it chose the command that it runs next: nothing else
\* writes between two commands.
PlanHolds ==
  /\ step = "stamp" => version = Null /\ ObjectsOf("v1") \subseteq schema
  /\ step = "upgrade" => version # Null \/ schema = {}

IInv ==
  /\ MigrationTypeOK
  /\ PlanHolds
  /\ VersionTells
  /\ SourcesKept
  /\ OwnerOfItsKind

-------------------------------------------------------------------------------
(* The rows                                                                *)

LEMMA LegacyCollectors ==
  /\ CollectorType = {"ogo", "serenicity"}
  /\ \A sensor : CollectorOf(sensor) \in CollectorType
BY DEF CollectorType, CollectorOf

\* Whether a key has a place depends on the sensor and the key alone.
LEMMA PlaceDepends ==
  ASSUME NEW a \in Row, NEW b \in Row, NEW k, a.sensor = b.sensor
  PROVE  /\ HasPlace([a EXCEPT !.external = k]) <=> HasPlace([b EXCEPT !.external = k])
         /\ a.external = k => (HasPlace([a EXCEPT !.external = k]) <=> HasPlace(a))
<1>1. \A c \in Row : /\ [c EXCEPT !.external = k].external = k
                     /\ [c EXCEPT !.external = k].sensor = c.sensor
  BY DEF Row
<1>. QED
  BY <1>1 DEF HasPlace

\* A row that the V2 migration moves.
LEMMA BackfilledRow ==
  ASSUME NEW row \in Row
  PROVE  /\ Backfilled(row) \in Row
         /\ Backfilled(row).sensor = row.sensor
         /\ Backfilled(row).external = Null
         /\ Backfilled(row).special = IF HasPlace(row) THEN row.external ELSE Null
         /\ Backfilled(row).owner = OwnerOf(row)
         /\ OwnerOf(row) \in {Null} \cup (LegacyConfigs \cap {CollectorOf(row.sensor)})
<1>. DEFINE special == IF HasPlace(row) THEN row.external ELSE Null
<1>1. OwnerOf(row) \in {Null} \cup (LegacyConfigs \cap {CollectorOf(row.sensor)})
  BY DEF OwnerOf
<1>2. OwnerOf(row) \in CollectorType \cup {Null}
  BY <1>1, LegacyCollectors
<1>3. special \in Name \cup {Null}
  BY DEF Row
<1>4. Backfilled(row) = [row EXCEPT !.special = special, !.owner = OwnerOf(row), !.external = Null]
  BY DEF Backfilled
<1>. HIDE DEF special
<1>5. /\ Backfilled(row) \in Row
      /\ Backfilled(row).sensor = row.sensor /\ Backfilled(row).external = Null
      /\ Backfilled(row).special = special /\ Backfilled(row).owner = OwnerOf(row)
  BY <1>2, <1>3, <1>4 DEF Row
<1>. QED
  BY <1>1, <1>5 DEF special

\* A row that the downgrade to V1 moves back.
LEMMA DowngradedRow ==
  ASSUME NEW row \in Row
  PROVE  LET back == [row EXCEPT !.external = DowngradedKey(row), !.special = Null, !.owner = Null]
         IN  /\ back \in Row
             /\ back.sensor = row.sensor /\ back.external = row.special
             /\ back.special = Null /\ back.owner = Null
BY DEF Row, DowngradedKey

\* NoRow is no row.
LEMMA NoRowIsNone == NoRow \notin Row
BY DEF NoRow, Row

-------------------------------------------------------------------------------
(* What the commands do to the rows, one source at a time                  *)

\* What the invariant says of a source.
Kept(s) ==
  /\ Exists(s) => sources[s] \in Row
  /\ Followed /\ Exists(s) =>
       IF IsV2 THEN sources[s].external = Null
               ELSE sources[s].special = Null /\ sources[s].owner = Null
  /\ Followed /\ Exists(s) /\ HasPlace([sources[s] EXCEPT !.external = original[s]]) =>
       KeyOf(s) = original[s]
  /\ Exists(s) =>
       sources[s].owner \in {Null} \cup (configs \cap {CollectorOf(sources[s].sensor)})

\* The rest of the invariant: the version, the schema and the command.
Shape ==
  /\ version \in Revision \cup {Null}
  /\ schema \in SUBSET Object
  /\ configs \in SUBSET CollectorType
  /\ environment \in SUBSET Variable
  /\ step \in {"down", "stamp", "upgrade", "aborted", "done", "overridden"}
  /\ PlanHolds
  /\ VersionTells

\* Domains of the functions.
Maps ==
  /\ sources \in [Source -> Row \cup {NoRow}]
  /\ original \in [Source -> Name \cup {Null}]

LEMMA Parts ==
  ASSUME IInv
  PROVE  Shape /\ Maps /\ \A s \in Source : Kept(s)
<1>1. Shape /\ Maps
  BY DEF IInv, MigrationTypeOK, Shape, Maps
<1>2. \A s \in Source : Kept(s)
  BY DEF IInv, MigrationTypeOK, SourcesKept, OwnerOfItsKind, Kept, Exists
<1>. QED
  BY <1>1, <1>2

LEMMA Whole == Shape /\ Maps /\ (\A s \in Source : Kept(s)) => IInv
<1>. SUFFICES ASSUME Shape, Maps, \A s \in Source : Kept(s)  PROVE IInv
  OBVIOUS
<1>1. MigrationTypeOK
  BY DEF MigrationTypeOK, Shape, Maps, Kept
<1>2. SourcesKept /\ OwnerOfItsKind
  BY DEF SourcesKept, OwnerOfItsKind, Kept
<1>. QED
  BY <1>1, <1>2 DEF IInv, Shape

LEMMA WholeNext ==
  ASSUME Shape', Maps', \A s \in Source : Kept(s)'
  PROVE  IInv'
<1>1. (Shape /\ Maps /\ (\A s \in Source : Kept(s)) => IInv)'
  BY Whole, PTL
<1>. QED
  BY <1>1

-------------------------------------------------------------------------------
(* The invariant is inductive                                              *)

LEMMA InitialInvariant == MigrationInit => IInv
<1>. SUFFICES ASSUME MigrationInit  PROVE IInv
  OBVIOUS
<1>1. V1Row \subseteq Row
  BY DEF V1Row, Row
<1>2. Maps
  <2>1. sources \in [Source -> Row \cup {NoRow}]
    BY <1>1 DEF MigrationInit
  <2>2. ASSUME NEW s \in Source, Exists(s)  PROVE sources[s].external \in Name \cup {Null}
    BY <2>1, <2>2 DEF Exists, Row
  <2>3. original = [s \in Source |-> IF Exists(s) THEN sources[s].external ELSE Null]
    BY DEF MigrationInit
  <2>4. original \in [Source -> Name \cup {Null}]
    BY <2>2, <2>3
  <2>. QED
    BY <2>1, <2>4 DEF Maps
<1>3. version = Null /\ ~ IsV2
  BY RevisionAssumption DEF MigrationInit, IsV2, Revision
<1>4. Shape
  <2>1. schema \in SUBSET Object
    BY DEF MigrationInit
  <2>. QED
    BY <1>3, <2>1, LegacyCollectors DEF MigrationInit, Shape, PlanHolds, VersionTells
<1>5. ASSUME NEW s \in Source  PROVE Kept(s)
  <2>. SUFFICES ASSUME Exists(s)  PROVE Kept(s)
    BY DEF Kept
  <2>1. sources[s] \in V1Row
    BY DEF MigrationInit, Exists
  <2>2. original[s] = sources[s].external
    BY DEF MigrationInit
  <2>3. sources[s].special = Null /\ sources[s].owner = Null
    BY <2>1 DEF V1Row
  <2>. QED
    BY <1>1, <1>3, <2>1, <2>2, <2>3 DEF Kept, KeyOf
<1>. QED
  BY <1>2, <1>4, <1>5, Whole

\* A step that leaves a row, its key and its configuration as they are keeps it, as
\* long as the version stays on its side of V2.
LEMMA KeptUnchanged ==
  ASSUME NEW s \in Source, Kept(s), sources'[s] = sources[s], original'[s] = original[s],
         configs' = configs, Followed' => Followed /\ (IsV2' <=> IsV2)
  PROVE  Kept(s)'
BY DEF Kept, KeyOf, Exists, HasPlace

\* What is not followed is neither migrated nor used.
LEMMA FollowedSteps ==
  /\ SetConfigs \/ Downgrade \/ (\E s \in Source : Inventory(s)) => Followed /\ Followed'
  /\ Stamp \/ Upgrade \/ Inspect => Followed
  /\ SetEnvironment \/ Inspect \/ End \/ UNCHANGED migrationVars => (Followed' => Followed)
BY DEF SetConfigs, Downgrade, Inventory, AtRest, Stamp, Upgrade, Inspect, SetEnvironment, End,
       migrationVars, Followed

LEMMA SetConfigsInvariant ==
  ASSUME IInv, SetConfigs
  PROVE  IInv'
<1>. USE Parts, WholeNext, FollowedSteps
<1>1. Shape'
  BY DEF SetConfigs, Shape, PlanHolds, VersionTells, IsV2
<1>2. version = HeadRevision /\ version' = HeadRevision /\ IsV2 /\ IsV2' /\ original' = original
  BY DEF SetConfigs, IsV2, HeadRevision
<1>3. ASSUME NEW s \in Source
      PROVE  sources'[s] \in Row \cup {NoRow} /\ Kept(s)'
  <2>1. Kept(s)
    OBVIOUS
  <2>2. sources'[s] = IF Exists(s) /\ sources[s].owner \notin configs'
                        THEN [sources[s] EXCEPT !.owner = Null] ELSE sources[s]
    BY DEF SetConfigs
  <2>3. CASE ~ Exists(s)
    BY <2>2, <2>3 DEF Exists, Kept
  <2>4. CASE Exists(s) /\ sources[s].owner \in configs'
    <3>1. sources'[s] = sources[s]
      BY <2>2, <2>4
    <3>. QED
      BY <1>2, <2>1, <2>4, <3>1 DEF Kept, KeyOf, Exists, HasPlace
  <2>5. CASE Exists(s) /\ sources[s].owner \notin configs'
    <3>1. sources[s] \in Row
      BY <2>1, <2>5 DEF Kept
    <3>2. sources'[s] = [sources[s] EXCEPT !.owner = Null]
      BY <2>2, <2>5
    <3>3. /\ sources'[s] \in Row /\ sources'[s].sensor = sources[s].sensor
          /\ sources'[s].external = sources[s].external
          /\ sources'[s].special = sources[s].special /\ sources'[s].owner = Null
      BY <3>1, <3>2 DEF Row
    <3>4. HasPlace([sources'[s] EXCEPT !.external = original[s]])
            <=> HasPlace([sources[s] EXCEPT !.external = original[s]])
      BY <3>1, <3>3, PlaceDepends
    <3>. QED
      BY <1>2, <2>1, <2>5, <3>3, <3>4 DEF Kept, KeyOf, Exists
  <2>. QED
    BY <2>3, <2>4, <2>5
<1>4. Maps'
  <2>1. DOMAIN sources' = Source /\ sources' = [s \in Source |-> sources'[s]]
    BY DEF SetConfigs
  <2>. QED
    BY <1>2, <1>3, <2>1 DEF Maps
<1>. QED
  BY <1>1, <1>3, <1>4

LEMMA InventoryInvariant ==
  ASSUME IInv, NEW s \in Source, Inventory(s)
  PROVE  IInv'
<1>. USE Parts, WholeNext, FollowedSteps
<1>1. PICK sensor \in Sensor, k \in Name \ {Blank} :
        LET row == [sensor |-> sensor, external |-> Null, special |-> k,
                    owner |-> CollectorOf(sensor)] IN
        /\ row.owner \in configs
        /\ IF Exists(s) THEN sources[s].special = k /\ sources[s].sensor = sensor ELSE TRUE
        /\ sources' = [sources EXCEPT ![s] = row]
        /\ original' = [original EXCEPT ![s] = IF Exists(s) THEN @ ELSE k]
  BY DEF Inventory
<1>. DEFINE row == [sensor |-> sensor, external |-> Null, special |-> k,
                    owner |-> CollectorOf(sensor)]
<1>2. /\ row \in Row /\ row.sensor = sensor /\ row.external = Null /\ row.special = k
      /\ row.owner = CollectorOf(sensor)
  BY LegacyCollectors DEF Row
<1>3. /\ row.owner \in configs
      /\ Exists(s) => sources[s].special = k /\ sources[s].sensor = sensor
      /\ sources' = [sources EXCEPT ![s] = row]
      /\ original' = [original EXCEPT ![s] = IF Exists(s) THEN @ ELSE k]
  BY <1>1
<1>. HIDE DEF row
<1>4. UNCHANGED <<version, schema, configs, environment, step>> /\ version = HeadRevision
  BY DEF Inventory
<1>5. Shape'
  BY <1>4 DEF Shape, PlanHolds, VersionTells, IsV2
<1>6. Maps'
  BY <1>2, <1>3 DEF Maps
<1>7. IsV2 /\ IsV2'
  BY <1>4 DEF IsV2, HeadRevision
<1>8. ASSUME NEW t \in Source \ {s}  PROVE Kept(t)'
  <2>1. sources'[t] = sources[t] /\ original'[t] = original[t]
    BY <1>3 DEF Maps
  <2>. QED
    BY <1>4, <1>7, <2>1, KeptUnchanged
<1>9. Kept(s)'
  <2>1. sources'[s] = row
    BY <1>3 DEF Maps
  <2>2. CASE ~ Exists(s)
    <3>1. original'[s] = k
      BY <1>3, <2>2 DEF Maps
    <3>. QED
      BY <1>2, <1>3, <1>4, <1>7, <2>1, <3>1 DEF Kept, KeyOf
  <2>3. CASE Exists(s)
    <3>1. sources[s] \in Row /\ original'[s] = original[s]
      BY <1>3, <2>3 DEF Maps, Kept
    <3>2. HasPlace([row EXCEPT !.external = original[s]])
            <=> HasPlace([sources[s] EXCEPT !.external = original[s]])
      BY <1>2, <1>3, <2>3, <3>1, PlaceDepends
    <3>3. HasPlace([row EXCEPT !.external = original[s]]) => k = original[s]
      BY <1>3, <1>7, <2>3, <3>2 DEF Kept, KeyOf
    <3>. QED
      BY <1>2, <1>3, <1>4, <1>7, <2>1, <3>1, <3>3 DEF Kept, KeyOf
  <2>. QED
    BY <2>2, <2>3
<1>. QED
  BY <1>5, <1>6, <1>8, <1>9

LEMMA DowngradeInvariant ==
  ASSUME IInv, Downgrade
  PROVE  IInv'
<1>. USE Parts, WholeNext, FollowedSteps
<1>1. AtRest /\ UNCHANGED <<environment, step>>
  BY DEF Downgrade
<1>2. CASE /\ version = "ipinfo" /\ version' = "v2"
           /\ schema' = schema \ {"ipinfo"}
           /\ UNCHANGED <<sources, configs, original>>
  <2>1. IsV2 /\ IsV2'
    BY <1>2 DEF IsV2
  <2>2. Shape'
    <3>1. ObjectsOf("ipinfo") \subseteq schema
      BY <1>2, RevisionAssumption DEF Shape, VersionTells, Revision
    <3>. QED
      BY <1>1, <1>2, <2>1, <3>1
      DEF Shape, PlanHolds, VersionTells, AtRest, ObjectsOf, Revision
  <2>. QED
    BY <1>2, <2>1, <2>2, KeptUnchanged DEF Maps
<1>3. CASE /\ version = "v2" /\ version' = "v1"
           /\ schema' = (schema \ {"v2 tables"}) \cup {"v1 columns"}
           /\ sources' = [s \in Source |->
                IF Exists(s)
                  THEN [sources[s] EXCEPT !.external = DowngradedKey(sources[s]),
                                          !.special = Null, !.owner = Null]
                  ELSE NoRow]
           /\ configs' = {}
           /\ UNCHANGED original
  <2>1. IsV2 /\ ~ IsV2'
    BY <1>3 DEF IsV2
  <2>2. Shape'
    <3>1. ObjectsOf("v2") \subseteq schema
      BY <1>3, RevisionAssumption DEF Shape, VersionTells, Revision
    <3>. QED
      BY <1>1, <1>3, <2>1, <3>1
      DEF Shape, PlanHolds, VersionTells, AtRest, ObjectsOf, Revision, Object
  <2>3. ASSUME NEW s \in Source
        PROVE  sources'[s] \in Row \cup {NoRow} /\ Kept(s)'
    <3>1. CASE ~ Exists(s)
      BY <1>3, <3>1 DEF Kept, Exists
    <3>2. CASE Exists(s)
      <4>1. sources[s] \in Row
        BY <3>2 DEF Kept
      <4>2. sources'[s] = [sources[s] EXCEPT !.external = DowngradedKey(sources[s]),
                                             !.special = Null, !.owner = Null]
        BY <1>3, <3>2
      <4>3. /\ sources'[s] \in Row /\ sources'[s].sensor = sources[s].sensor
            /\ sources'[s].external = sources[s].special
            /\ sources'[s].special = Null /\ sources'[s].owner = Null
        BY <4>1, <4>2, DowngradedRow
      <4>4. HasPlace([sources'[s] EXCEPT !.external = original[s]])
              <=> HasPlace([sources[s] EXCEPT !.external = original[s]])
        BY <4>1, <4>3, PlaceDepends
      <4>. QED
        BY <1>3, <2>1, <3>2, <4>3, <4>4 DEF Kept, KeyOf
    <3>. QED
      BY <3>1, <3>2
  <2>4. Maps'
    BY <1>3, <2>3 DEF Maps
  <2>. QED
    BY <2>2, <2>3, <2>4
<1>4. CASE /\ version = "v1" /\ version' = Null
           /\ schema' = schema \ ObjectsOf("v1")
           /\ sources' = [s \in Source |-> NoRow]
           /\ original' = [s \in Source |-> Null]
           /\ UNCHANGED configs
  <2>1. ~ IsV2'
    BY <1>4, RevisionAssumption DEF IsV2, Revision
  <2>2. Shape'
    BY <1>1, <1>4, <2>1 DEF Shape, PlanHolds, VersionTells, AtRest
  <2>3. \A s \in Source : ~ Exists(s)'
    BY <1>4 DEF Exists
  <2>. QED
    BY <1>4, <2>2, <2>3 DEF Maps, Kept
<1>. QED
  BY <1>2, <1>3, <1>4 DEF Downgrade

LEMMA StampInvariant ==
  ASSUME IInv, Stamp
  PROVE  IInv'
<1>. USE Parts, WholeNext, FollowedSteps
<1>1. version = Null /\ ObjectsOf("v1") \subseteq schema
  BY DEF Stamp, Shape, PlanHolds
<1>2. ~ IsV2 /\ (Followed' => version' = "v1" /\ ~ IsV2')
  BY <1>1, RevisionAssumption DEF Stamp, IsV2, Revision, Followed
<1>3. Shape'
  BY <1>1, <1>2, RevisionAssumption DEF Stamp, Shape, PlanHolds, VersionTells, Revision
<1>. QED
  BY <1>2, <1>3, KeptUnchanged DEF Stamp, Maps

LEMMA UpgradeInvariant ==
  ASSUME IInv, Upgrade
  PROVE  IInv'
<1>. USE Parts, WholeNext, FollowedSteps
<1>1. IsV2'
  BY DEF Upgrade, IsV2, HeadRevision
<1>2. ASSUME configs' \in SUBSET CollectorType  PROVE Shape'
  <2>1. version' = HeadRevision /\ schema' = (schema \ {"v1 columns"}) \cup ObjectsOf(HeadRevision)
        /\ step' = "done" /\ environment' = environment
    BY DEF Upgrade
  <2>. QED
    BY <1>2, <2>1 DEF Shape, PlanHolds, VersionTells, ObjectsOf, HeadRevision, Revision, Object
<1>3. CASE IsV2
  <2>1. UNCHANGED <<sources, configs, original>>
    BY <1>3 DEF Upgrade
  <2>. QED
    BY <1>1, <1>2, <1>3, <2>1, KeptUnchanged DEF Maps, Shape
<1>4. CASE ~ IsV2
  <2>1. /\ sources' = [s \in Source |-> IF Exists(s) THEN Backfilled(sources[s]) ELSE NoRow]
        /\ configs' = LegacyConfigs /\ original' = original
    BY <1>4 DEF Upgrade
  <2>2. Shape'
    BY <1>2, <2>1 DEF LegacyConfigs
  <2>3. ASSUME NEW s \in Source
        PROVE  sources'[s] \in Row \cup {NoRow} /\ Kept(s)'
    <3>1. CASE ~ Exists(s)
      BY <2>1, <3>1 DEF Kept, Exists
    <3>2. CASE Exists(s)
      <4>1. sources[s] \in Row /\ sources'[s] = Backfilled(sources[s])
        BY <2>1, <3>2 DEF Kept
      <4>2. /\ sources'[s] \in Row /\ sources'[s].sensor = sources[s].sensor
            /\ sources'[s].external = Null
            /\ sources'[s].special = IF HasPlace(sources[s]) THEN sources[s].external ELSE Null
            /\ sources'[s].owner
                 \in {Null} \cup (LegacyConfigs \cap {CollectorOf(sources[s].sensor)})
        BY <4>1, BackfilledRow
      <4>3. HasPlace([sources'[s] EXCEPT !.external = original[s]])
              <=> HasPlace([sources[s] EXCEPT !.external = original[s]])
        BY <4>1, <4>2, PlaceDepends
      <4>4. HasPlace([sources[s] EXCEPT !.external = original[s]]) =>
              sources[s].external = original[s] /\ HasPlace(sources[s])
        BY <1>4, <3>2, <4>1, PlaceDepends DEF Kept, KeyOf
      <4>. QED
        BY <1>1, <2>1, <4>2, <4>3, <4>4 DEF Kept, KeyOf
    <3>. QED
      BY <3>1, <3>2
  <2>4. Maps'
    BY <2>1, <2>3 DEF Maps
  <2>. QED
    BY <2>2, <2>3, <2>4
<1>. QED
  BY <1>3, <1>4

\* Between two runs, the choice of a plan, and a run that ends, touch no row.
LEMMA OtherInvariant ==
  ASSUME IInv, SetEnvironment \/ Inspect \/ End \/ UNCHANGED migrationVars
  PROVE  IInv'
<1>. USE Parts, WholeNext, FollowedSteps
<1>1. UNCHANGED database
  BY DEF SetEnvironment, Inspect, End, migrationVars, database
<1>2. Shape'
  <2>1. CASE SetEnvironment
    BY <1>1, <2>1 DEF SetEnvironment, database, Shape, PlanHolds, VersionTells, IsV2
  <2>2. CASE End
    BY <1>1, <2>2 DEF End, database, Shape, PlanHolds, VersionTells, IsV2
  <2>3. CASE Inspect
    <3>1. step' \in {"stamp", "aborted", "upgrade"}
      BY <2>3 DEF Inspect, Plan
    <3>2. step' = "stamp" => version = Null /\ ObjectsOf("v1") \subseteq schema
      BY <2>3 DEF Inspect, Plan, DetectedState, MatchesLegacyV1
    <3>3. step' = "upgrade" => version # Null \/ schema = {}
      BY <2>3 DEF Inspect, Plan, DetectedState, MatchesLegacyV1
    <3>4. environment' = environment
      BY <2>3 DEF Inspect
    <3>. QED
      BY <1>1, <2>3, <3>1, <3>2, <3>3, <3>4 DEF database, Shape, PlanHolds, VersionTells, IsV2
  <2>4. CASE UNCHANGED migrationVars
    BY <2>4 DEF migrationVars, Shape, PlanHolds, VersionTells, IsV2
  <2>. QED
    BY <2>1, <2>2, <2>3, <2>4
<1>. QED
  BY <1>1, <1>2, KeptUnchanged DEF database, Maps, IsV2

\* The inductive invariant: the properties below hold together, with what a run of the
\* script saw before the command it is at.
THEOREM Invariance == MigrationSpec => []IInv
<1>1. IInv /\ [MigrationNext]_migrationVars => IInv'
  BY SetConfigsInvariant, InventoryInvariant, DowngradeInvariant, StampInvariant,
     UpgradeInvariant, OtherInvariant
  DEF MigrationNext
<1>. QED
  BY InitialInvariant, <1>1, PTL DEF MigrationSpec

-------------------------------------------------------------------------------
(* The properties                                                          *)

\* The tables keep to their types, and a row has no key of V2 before V2 nor one of V1
\* after it.
THEOREM TypeCorrect == MigrationSpec => []MigrationTypeOK
<1>1. IInv => MigrationTypeOK
  BY DEF IInv
<1>. QED
  BY Invariance, <1>1, PTL

\* At any instant at which the script may stop, what the version says was migrated is
\* there.
THEOREM VersionTellsSchema == MigrationSpec => []VersionTells
<1>1. IInv => VersionTells
  BY DEF IInv
<1>. QED
  BY Invariance, <1>1, PTL

\* A source whose key has a place in V2 keeps the key it was added with.
THEOREM SourcesStayKept == MigrationSpec => []SourcesKept
<1>1. IInv => SourcesKept
  BY DEF IInv
<1>. QED
  BY Invariance, <1>1, PTL

\* A source is attached to an existing configuration of its own collector, or to none.
THEOREM OwnersOfTheirKind == MigrationSpec => []OwnerOfItsKind
<1>1. IInv => OwnerOfItsKind
  BY DEF IInv
<1>. QED
  BY Invariance, <1>1, PTL

\* No step of the script, of the operator or of the application changes a database
\* that is neither empty nor V1 and that alembic does not know.
THEOREM LeavesUnknownAlone == MigrationSpec => UnknownUntouched
<1>1. ASSUME IInv, [MigrationNext]_migrationVars  PROVE LeavesUnknown
  <2>. SUFFICES ASSUME Unknown  PROVE UNCHANGED database
    BY DEF LeavesUnknown
  <2>1. version = Null /\ version # HeadRevision /\ schema # {} /\ ~ (ObjectsOf("v1") \subseteq schema)
    BY RevisionAssumption DEF Unknown, Revision, HeadRevision
  <2>2. ~ Stamp /\ ~ Upgrade
    BY <1>1, <2>1 DEF IInv, PlanHolds, Stamp, Upgrade
  <2>3. ~ SetConfigs /\ ~ Downgrade /\ \A s \in Source : ~ Inventory(s)
    BY <2>1, RevisionAssumption DEF SetConfigs, Downgrade, Inventory, Revision
  <2>4. SetEnvironment \/ Inspect \/ End \/ UNCHANGED migrationVars
    BY <1>1, <2>2, <2>3 DEF MigrationNext
  <2>. QED
    BY <2>4 DEF SetEnvironment, Inspect, End, migrationVars, database
<1>. QED
  BY Invariance, <1>1, PTL DEF MigrationSpec, UnknownUntouched
===============================================================================

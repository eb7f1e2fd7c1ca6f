------------------------------- MODULE Migration -------------------------------
(***************************************************************************)
(* The bootstrap of the database (scripts/db/migrate.py) and the           *)
(* migrations it runs.  A run of the script looks at the database, chooses *)
(* a plan, and carries it out with one or two alembic commands; each       *)
(* command is one transaction, which an error or the end of the container  *)
(* undoes, and between two of them nothing is kept but the database.       *)
(*                                                                         *)
(* The tables are followed as far as the script can tell them apart; of    *)
(* their rows, what identifies a source to its provider, which the V2      *)
(* migration moves to the tables of the collectors.  is_active, which it   *)
(* clears, and the run results, which it splits, are left out.             *)
(***************************************************************************)
CONSTANTS
  Source,   \* identifiers of sources
  Name,     \* values of external_id, domain_name
  Trim,     \* BTRIM, a function of Name
  Blank,    \* the empty string, in Name
  Digits,   \* the trimmed keys that match ^[0-9]+$
  Null      \* NULL; no row; no table alembic_version, or an empty one

ASSUME TrimAssumption ==
  /\ Blank \in Name /\ Null \notin Name
  /\ Trim \in [Name -> Name]
  /\ Trim[Blank] = Blank
  /\ Digits \subseteq {k \in Name \ {Blank} : Trim[k] = k}

Revision == {"v1", "v2", "ipinfo"}
ASSUME RevisionAssumption == Null \notin Revision
HeadRevision == "ipinfo"

\* "v1 columns": those of sources that V2 moves away; "ipinfo": the row of cti_config.
Object == {"v1 tables", "v1 columns", "v2 tables", "ipinfo", "other"}
ObjectsOf(r) ==
  CASE r = "v1" -> {"v1 tables", "v1 columns"}
    [] r = "v2" -> {"v1 tables", "v2 tables"}
    [] r = "ipinfo" -> {"v1 tables", "v2 tables", "ipinfo"}

Sensor == {"waf", "lurio", "detoxio"}
CollectorType == {"ogo", "serenicity"}
CollectorOf(sensor) == IF sensor = "waf" THEN "ogo" ELSE "serenicity"

\* A source: external_id, its domain_name (ogo_sources) or external_id (serenicity_
\* sources), and the type of the configuration it is attached to.
Row == [sensor : Sensor, external : Name \cup {Null}, special : Name \cup {Null},
        owner : CollectorType \cup {Null}]
NoRow == [sensor |-> Null]

Variable == {"OGO_USERNAME", "OGO_API_KEY", "SERENICITY_API_KEY", "SECRET_KEY"}

VARIABLES
  version,      \* alembic_version
  schema,       \* what the schema public consists of
  sources,      \* rows of sources and of the tables of the collectors
  configs,      \* the collectors with a row in attacks_collector_config
  environment,  \* the variables that are set
  step,         \* the command the script runs next, or how it ended
  original      \* history: what identified a source when it was added

migrationVars == <<version, schema, sources, configs, environment, step, original>>
database == <<version, schema, sources, configs, original>>

IsV2 == version \in {"v2", "ipinfo"}

\* No V1 database was stamped at another revision than V1.
Followed == step # "overridden"
Exists(s) == sources[s] # NoRow

MigrationTypeOK ==
  /\ version \in Revision \cup {Null}
  /\ schema \in SUBSET Object
  /\ sources \in [Source -> Row \cup {NoRow}]
  /\ Followed => \A s \in Source : Exists(s) =>
       IF IsV2 THEN sources[s].external = Null
               ELSE sources[s].special = Null /\ sources[s].owner = Null
  /\ configs \in SUBSET CollectorType
  /\ environment \in SUBSET Variable
  /\ step \in {"down", "stamp", "upgrade", "aborted", "done", "overridden"}
  /\ original \in [Source -> Name \cup {Null}]

\* A database that alembic does not know: empty, V1 with its rows, or anything else.
V1Row == [sensor : Sensor, external : Name \cup {Null}, special : {Null}, owner : {Null}]
MigrationInit ==
  /\ version = Null
  /\ schema \in SUBSET (Object \ {"ipinfo"})
  /\ sources \in [Source -> IF ObjectsOf("v1") \subseteq schema THEN V1Row \cup {NoRow}
                                                                ELSE {NoRow}]
  /\ \A s, t \in Source :
       Exists(s) /\ sources[s] = sources[t] => s = t \/ sources[s].external = Null
  /\ configs = {}
  /\ environment \in SUBSET Variable
  /\ step = "down"
  /\ original = [s \in Source |-> IF Exists(s) THEN sources[s].external ELSE Null]

-------------------------------------------------------------------------------
(* Between two runs: the operator and the application                      *)

AtRest == step \in {"down", "aborted", "done"}

SetEnvironment ==
  /\ AtRest \/ ~ Followed
  /\ environment' \in SUBSET Variable
  /\ UNCHANGED <<database, step>>

\* The API creates or deletes configurations (ON DELETE SET NULL).
SetConfigs ==
  /\ AtRest /\ version = HeadRevision
  /\ configs' \in SUBSET CollectorType
  /\ sources' = [s \in Source |->
       IF Exists(s) /\ sources[s].owner \notin configs' THEN [sources[s] EXCEPT !.owner = Null]
       ELSE sources[s]]
  /\ UNCHANGED <<version, schema, environment, step, original>>

\* An inventory adopts the source that bears the key, or adds one.
Inventory(s) ==
  /\ AtRest /\ version = HeadRevision
  /\ \E sensor \in Sensor, k \in Name \ {Blank} :
       LET row == [sensor |-> sensor, external |-> Null, special |-> k,
                   owner |-> CollectorOf(sensor)] IN
       /\ Trim[k] = k
       /\ row.owner \in configs
       /\ \A t \in Source : Exists(t) /\ sources[t].special = k
            /\ CollectorOf(sources[t].sensor) = row.owner => t = s
       /\ IF Exists(s) THEN sources[s].special = k /\ sources[s].sensor = sensor
                       ELSE TRUE
       /\ sources' = [sources EXCEPT ![s] = row]
       /\ original' = [original EXCEPT ![s] = IF Exists(s) THEN @ ELSE k]
  /\ UNCHANGED <<version, schema, configs, environment, step>>

\* Mutant: the sources of OGO are not given back their domain.
DowngradedKeyOfSerenicity(row) == IF row.sensor = "waf" THEN Null ELSE row.special

\* UPDATE sources SET external_id, from the table of its collector.
DowngradedKey(row) == row.special

\* alembic downgrade by hand, one revision.
Downgrade ==
  /\ AtRest
  /\ \/ /\ version = "ipinfo"
        /\ version' = "v2"
        /\ schema' = schema \ {"ipinfo"}
        /\ UNCHANGED <<sources, configs, original>>
     \/ /\ version = "v2"
        /\ version' = "v1"
        /\ schema' = (schema \ {"v2 tables"}) \cup {"v1 columns"}
        /\ sources' = [s \in Source |->
             IF Exists(s)
               THEN [sources[s] EXCEPT !.external = DowngradedKey(sources[s]),
                                       !.special = Null, !.owner = Null]
               ELSE NoRow]
        /\ configs' = {}
        /\ UNCHANGED original
     \/ /\ version = "v1"
        /\ version' = Null
        /\ schema' = schema \ ObjectsOf("v1")
        /\ sources' = [s \in Source |-> NoRow]
        /\ original' = [s \in Source |-> Null]
        /\ UNCHANGED configs
  /\ UNCHANGED <<environment, step>>

-------------------------------------------------------------------------------
(* The script                                                              *)

\* Mutant: the columns are not looked at.
MatchesTablesOnly == "v1 tables" \in schema

\* matches_legacy_v1_schema
MatchesLegacyV1 == ObjectsOf("v1") \subseteq schema

DetectedState ==
  CASE version # Null -> "alembic_versioned"
    [] version = Null /\ schema = {} -> "empty"
    [] version = Null /\ schema # {} /\ MatchesLegacyV1 -> "legacy_v1"
    [] OTHER -> "unknown"

\* resolve_migration_plan
Plan(state) ==
  CASE state = "legacy_v1" -> "stamp"
    [] state = "unknown" -> "aborted"
    [] OTHER -> "upgrade"

Inspect ==
  /\ AtRest
  /\ step' = Plan(DetectedState)
  /\ UNCHANGED <<database, environment>>

\* Mutant: the default is the head.
StampHead ==
  /\ step = "stamp"
  /\ version' = HeadRevision
  /\ step' = "upgrade"
  /\ UNCHANGED <<schema, sources, configs, environment, original>>

\* alembic stamp, with the baseline revision, or with the one that V1_BASELINE_REVISION
\* names in its place, which nothing compares with the schema: what comes after that is
\* not followed.  A blank name, or one of no revision, ends the run (End).
Stamp ==
  /\ step = "stamp"
  /\ version' \in Revision
  /\ step' = IF version' = "v1" THEN "upgrade" ELSE "overridden"
  /\ UNCHANGED <<schema, sources, configs, environment, original>>

\* The sources whose key has a place in the table of their collector.
HasPlace(row) ==
  /\ row.external # Null
  /\ IF row.sensor = "waf" THEN Trim[row.external] # Blank ELSE row.external \in Digits
Twins(a, b) ==
  /\ HasPlace(a) /\ HasPlace(b)
  /\ CollectorOf(a.sensor) = CollectorOf(b.sensor)
  /\ Trim[a.external] = Trim[b.external]

\* _backfill_legacy_collector_configs
CredentialsOf(collector) ==
  IF collector = "ogo" THEN {"OGO_USERNAME", "OGO_API_KEY"} ELSE {"SERENICITY_API_KEY"}
LegacyConfigs == {c \in CollectorType : CredentialsOf(c) \subseteq environment}

\* What the V2 migration refuses.
RefusesV2 ==
  \/ "v2 tables" \in schema
  \/ \E s, t \in Source : s # t /\ Exists(s) /\ Exists(t) /\ Twins(sources[s], sources[t])
  \/ "ogo" \notin LegacyConfigs /\ environment \cap CredentialsOf("ogo") # {}
  \/ LegacyConfigs # {} /\ "SECRET_KEY" \notin environment

\* Mutant: the type of the configuration is not compared.
OwnerOfAny(row) == IF HasPlace(row) /\ LegacyConfigs # {} THEN "ogo" ELSE Null

\* _attach_specialized_sources_to_config
OwnerOf(row) ==
  IF HasPlace(row) /\ CollectorOf(row.sensor) \in LegacyConfigs
    THEN CollectorOf(row.sensor) ELSE Null

\* _backfill_specialized_sources; then the column external_id is dropped.
Backfilled(row) ==
  [row EXCEPT !.special = IF HasPlace(row) THEN row.external ELSE Null,
              !.owner = OwnerOf(row), !.external = Null]

\* alembic upgrade head: the migrations that remain, in one transaction.
Upgrade ==
  /\ step = "upgrade"
  /\ version' = HeadRevision
  /\ schema' = (schema \ {"v1 columns"}) \cup ObjectsOf(HeadRevision)
  /\ IF IsV2 THEN UNCHANGED <<sources, configs>>
     ELSE /\ ~ RefusesV2
          /\ sources' = [s \in Source |-> IF Exists(s) THEN Backfilled(sources[s]) ELSE NoRow]
          /\ configs' = LegacyConfigs
  /\ step' = "done"
  /\ UNCHANGED <<environment, original>>

\* A command fails or is refused, or the container stops: the transaction is undone.
\* When the server has committed, Stamp or Upgrade came first.
End ==
  /\ step # "down" /\ Followed
  /\ step' = "down"
  /\ UNCHANGED <<database, environment>>

MigrationNext ==
  \/ SetEnvironment \/ SetConfigs \/ Downgrade
  \/ \E s \in Source : Inventory(s)
  \/ Inspect \/ Stamp \/ Upgrade \/ End

MigrationSpec == MigrationInit /\ [][MigrationNext]_migrationVars

-------------------------------------------------------------------------------
(* Properties                                                              *)

\* The version tells the schema, at any instant at which the script may stop: what
\* it says was migrated is there, and V2 has no V1 column left.  A database that the
\* operator had stamped at another revision is left out, here and below.
VersionTells ==
  Followed =>
    /\ version # Null => ObjectsOf(version) \subseteq schema
    /\ IsV2 => "v1 columns" \notin schema

\* A schema that is neither empty nor V1, and that alembic does not know, is left as
\* it is ("un schema inconnu provoque un arret de securite").
Unknown == version = Null /\ schema # {} /\ ~ (ObjectsOf("v1") \subseteq schema)
LeavesUnknown == Unknown => UNCHANGED database
UnknownUntouched == [][LeavesUnknown]_migrationVars

\* Whatever the sequence of upgrades, refusals, downgrades and inventories, a source
\* whose key has a place in V2 bears the key it was added with, in the column where
\* the version has it: its provider still recognises it, and its attacks stay its own.
KeyOf(s) == IF IsV2 THEN sources[s].special ELSE sources[s].external
SourcesKept ==
  Followed => \A s \in Source :
    Exists(s) /\ HasPlace([sources[s] EXCEPT !.external = original[s]]) =>
      KeyOf(s) = original[s]

\* A source is attached to a configuration of its own collector, which exists.
OwnerOfItsKind ==
  \A s \in Source : Exists(s) =>
    sources[s].owner \in {Null} \cup (configs \cap {CollectorOf(sources[s].sensor)})
===============================================================================

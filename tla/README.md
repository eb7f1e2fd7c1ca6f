# Formal verification of the cyber-dashboard backend

TLA+ models of the backend, the TLC instances that check them, and TLAPS proofs.
Paths are relative to the root of the repository.

## 1. The system

Four processes share one PostgreSQL database; they exchange nothing else.

| Component | Where | State it keeps | Operations |
|---|---|---|---|
| HTTP API | `apps/cyber_dashboard_api` | none of its own; rows of the configuration tables | create, update, activate, deactivate, delete collectors and CTI configurations; SMTP settings; retention days; source status; read-only dashboards, statistics, alerts; CTI enrichment; tests against outside services |
| Scheduler | `apps/cyber_dashboard_scheduler` | HTTP clients and secrets cached per configuration; rows of `sources`, `attacks`, the run results in `attacks_collector_configs`, `retention_policies` | one cycle = inventory, collection, retention, sleep |
| IP correlator | `apps/cyber_dashboard_common_ip` | the registry of the IPs already seen, in memory; rows of `attacks.correlation_status`, `common_ip_alerts`, `common_ip_alert_sources` | requeue at start, load the registry, claim a batch, process an attack, reset a failed one |
| Migration | `scripts/db/migrate.py` | the Alembic version of the schema | inspect, stamp, upgrade, or refuse |

`packages/cyber_dashboard_database` holds the SQL of all four (one transaction per
repository call unless a connection is passed), `packages/cyber_dashboard_common_tools`
the encryption of the secrets.

How they interact:

* collection inserts attacks as `pending`; the correlator takes them to `processing`
  and `completed`; retention deletes them, whatever their status;
* the API asks for an inventory by a flag of the configuration, the scheduler clears
  it when the inventory succeeded; inventory and the API both write `sources.is_active`;
* the API validates credentials over the network before it stores the outcome; the
  scheduler uses the credentials of the active configurations.

What is hard: a crash between two transactions of one operation; a row read in one
transaction and written in a later one; an acknowledgement lost; the retention
running under the correlator; time windows that overlap, and events that arrive late;
pages that end early; a configuration edited while it is being validated or collected.

What makes each component correct:

* correlator: the registry in memory is the one a restart would rebuild; each
  completed attack counts once, the others not at all; alerts appear with the second
  source; no attack is lost in `processing`;
* collection: no event the provider had before the cursor is missed, none is stored
  twice, a failure never advances the cursor;
* inventory: a source is inactive only if the provider no longer has it; a request is
  never forgotten;
* configurations: what is active was validated as it is now;
* retention: never fails silently, never deletes what is still in the window;
* migration: a schema it does not know is never touched;
* mails and enrichments: nothing is sent or asked with settings that were never
  accepted, a mail never goes out twice, an answer says what the provider's document says;
* screens: a walk over the pages of a list omits no row that stays, what is shown
  together belongs together up to what was written meanwhile.


## 2. The modules

| Module | Models | Composes |
|---|---|---|
| `SeenIpRegistry` | `domain/seen_ip_registry.py`, the aggregation query of `common_ip_state_repository.py`, `upsert_alert`: constant-level operators, no state | |
| `AlertLedger` | abstract: what the correlator promises (a queue of attacks, each alert written whole from the attacks completed at that instant) | `SeenIpRegistry` |
| `Correlator` | the worker loop of the correlator, transaction by transaction, against collection and retention | `SeenIpRegistry`, implements `AlertLedger` |
| `Collection` | one cycle of the three collectors, source by source, page by page, with the table `attacks` and the cursor of `scheduler_state` | |
| `Inventory` | `SourceInventoryService.run_once`, OGO and Serenicity, with the edits of the API and the changes at the provider | |
| `Retention` | `RetentionService.run_once` on the two tables, with the edits of the policies and new rows | |
| `ValidatedConfig` | abstract: what every validated configuration promises (active only with the verdict of its present contents) | |
| `CollectorConfig`, `SmtpConfig`, `CtiConfig` | the three services of the API that validate over the network, in threads; `CollectorConfig` also the credentials a collector caches | implement `ValidatedConfig` |
| `Mail` | `SmtpEmailService` and `AlertEmailService`: the session with the relay, next to the requests that edit and validate its settings | `SmtpConfig` |
| `CtiEnrichment` | `CtiEnrichmentService`, the HTTP client below it, and the mappings of the documents that compute something | `CtiConfig` |
| `Screens` | the read-only requests of more than one transaction: pages of attacks and of alerts, statistics by source and by day, the topology; against the writes of collection, worker and retention | `SeenIpRegistry` |
| `Migration` | `scripts/db/migrate.py` and the three revisions, as they move the sources, their keys and their owner | |
| `Configurations` | the services of the configurations, with mails and enrichments, and the migration, side by side | `Mail`, `Migration`, `CollectorConfig`, `CtiEnrichment` |
| `CorrelatorProofs` | theorems about `Correlator`, and about the operators of `SeenIpRegistry` | |
| `ConfigurationsProofs` | theorems about `Configurations`: `Mail` with `SmtpConfig` below it, `CtiEnrichment` with `CtiConfig`, and the whole | |
| `CollectionProofs`, `InventoryProofs`, `RetentionProofs`, `CollectorConfigProofs`, `ScreensProofs`, `MigrationProofs` | theorems about the module they are named after | |
| `MC*` | values of the constants, nothing else, except `MCCorrelator` and `MCLiveness`, which put independent modules side by side | |

Conventions common to all modules:

* one action is one database transaction, or one step of a process between two
  transactions; `PostgresDatabase.transaction` commits at the end of the `with`
  block, so that a call that raises may have committed or not, and both are actions
  (`CommitUnacknowledged`, `StoreUnacknowledged`, `DeleteUnacknowledged`, ...);
* a process that dies loses its local variables only: `Crash` is possible in every
  state in which the process is alive, `Start` or `Requeue` brings it back;
* `faults` counts the calls that fail without ending the process, up to `MaxFaults`;
  it is the only bound on failures, crashes are not bounded. What goes wrong at a relay or at a CTI
  provider is not counted: such a request ends at once;
* variables marked *history* (`counted`, `since`, `accepted`, `intact`, `asked`,
  `original`, `overtook`, and the fields `owed`, `pushed`, `drift`, `torn` of a request) are read by properties only;
* a definition whose comment starts with *Mutant* is not part of a specification; it
  is a wrong version of the definition that follows it, which the property of a run
  has to reject.

### Correspondence

**Correlator.** `status` is `attacks.correlation_status` (`absent` before the INSERT,
`deleted` after the DELETE), `alerts` the two alert tables, `registry` the
dictionary of `Correlator._registry`. `Requeue`, `LoadRegistry` are the start of
`run_forever`; `ClaimBatch` the query with `FOR UPDATE SKIP LOCKED`; `Commit(a)` the
transaction of `process_attack`, `Register` the assignment after it; `Rollback` and
`ResetToPending` the two halves of the `except`. The DELETE of retention is split
into `OpenPurge` and `CommitPurge`, since the rows it has locked are skipped by a
claim. An instant, an IP and a source are whole; hits, first and last occurrence of a
summary are kept as they are because the alert shows them.

**Collection.** `job` is what `collect_once` holds for one source. `OpenWindow` is
`build_collection_window`, `FetchPage` one request for a page with the provider's
listing as it is at that moment, `Store` the INSERT with its `ON CONFLICT`, `Succeed`
and `MarkFailure` the two updates of `scheduler_state`. Several organisations of one
OGO site are read as one listing: their pages are read one after the other before
anything is stored. `Publish` makes an event visible up to `MaxDelay` after it
occurred, and `Undated`, `Unusable`, `Poison` are the events without a readable date,
the ones normalisation ignores, and the ones whose row PostgreSQL refuses.

**Inventory.** `run` is the `InventoryConfigRunOutcome` with the parts of the provider
still to be read and the sources still to be written; an OGO configuration reads
every part before it writes, a Serenicity one writes the sensors before it reads the
Lurio sources (`Resume`). Each source takes two transactions, `Write` then
`MarkSuccess`, and `MarkFailure` in the `except`. `Allowed` is what the upsert refuses: a row
of another configuration, and at Serenicity a row of the other type under the same `ExternalId`,
which the table holds once. `FindMissing` compares the rows read at the *beginning* of the
inventory with the keys seen.

**Retention.** `BeginPass` reads the policies once; `Delete`, `MarkSuccess`,
`MarkFailure` are the transactions; `LimitOverflows` is `now - timedelta(days=...)`
computed before the `try`.

**Configurations.** `BeginActivation` reads the row; `AcceptActivation`,
`RefuseActivation`, `AbandonActivation` end the call to the provider and write the
outcome to the identifier, whatever the row has become. `SmtpConfig` also has
`ReadRow` for `update_config`, which merges its changes with a row read in an earlier
transaction. `CallProvider`/`EndCall` are a collector at work with cached credentials.

**Mail.** A request that sends a mail holds the row it read (`ReadActiveRow`) until it
is answered: 400 or 404 before anything is opened (`Refused`), 503 if the session does
not open (`NoSession`), the relay fails (`RelayFails`) or takes the message and its
answer is lost (`AcknowledgementLost`), 500 if the message cannot be built, before the session
is opened or its headers encoded (`RecipientRaises`, `MessageRaises`), 200 otherwise. `OddSender`
is the relays whose `smtp_from` is not an address in plain ASCII, which no validation refuses.
`ValidatorLogsIn` and
`SenderLogsIn` are the sessions of the validator and of the sender; they differ in the
certificate, which only the sender verifies. `Configure` is any request of `SmtpConfig`.

**CtiEnrichment.** `Call` holds the key of the row that was read; the call ends in a
document (`Report`, or `MappingRaises` if a field cannot be mapped), in JSON that is no
object, in one of the errors of the HTTP client (`CallFails`), or in an exception that
client does not expect (`ConnectionCut`). `Percentages`, `Contacts` and `Host` are the
mappings of AbuseIPDB, RDAP and Shodan; the other four copy fields (`Copy`).

**Screens.** `stored` is the table of attacks, `listed` the two alert tables, reduced to
what a list is filtered and ordered by. `OpenList`, `Count`, `ListPage` are a page, and the
next page as long as `total_pages` has one; `ReadTotal`, `ReadSeries` the statistics;
`ReadSources`, `ReadAlerts`, `ReadLinks` the topology, whose selection each query computes
again, up to the limit of the request if it has one. `Observe` keeps the history of the request in progress while others write.

**Migration.** `version` is the Alembic revision, `schema` the set of objects the
inspection looks at, `sources` the rows with their key in `sources.external_id`,
`ogo_sources` or `serenicity_sources`. `Inspect` is `inspect_database` and
`resolve_migration_plan`; `Stamp` and `Upgrade` the two commands, between which the
container may stop (`End`). `V1_BASELINE_REVISION` may name another revision, which nothing
compares with the schema: such a stamp is a step of the model, but what comes after it is not
followed (`Followed`), and the properties leave it out. A refusal of the V2 revision leaves nothing
(`run_migrations_online` opens one transaction).

## 3. The runs

A run that must pass explores its instance completely. Distinct states and times are
for two workers on a small machine.

| Run | Instance | Shows |
|---|---|---|
| `correlator` | 5 attacks (4 of one IP, from 3 sources, one twice, out of order and two at one instant), batches of 2, 1 fault; the same attacks and 3 IPs under the screens, pages of 1 row, topologies of 2 alerts, or without a limit, a request without filter and one for a source and a day; 1 410 000 states, 3 min | the registry in memory is the aggregation of the completed attacks, each counted once; no attack forgotten in `processing`; alerts exact once settled; every step is one of `AlertLedger` or a stutter; a walk omits no row that stays; statistics add up; a topology is a graph |
| `liveness` | 4 attacks, 2 sources, batches of 2, 1 fault; or 2 configurations, one of whose providers never answers; or a Serenicity configuration with a sensor and a Lurio of one number; 361 000 states, 2.5 min | every queued attack settles; the other configuration is served, unless it meets a row in the way of one of its sources again and again; the request of the third is kept as long as both are listed |
| `collection` | 4 events of a Lurio source, pages of 1, 3 pages a cycle, 2 faults, late events | no gap behind the cursor; a cut listing makes progress |
| `collection_live` | 3 Lurio events that need several cycles of 2 pages, an OGO source with a refused row | the first source is stored, whatever happens to the other |
| `inventory` | 2 configurations of 2 parts that list the same source, 1 fault | a request is only withdrawn when the table agrees with the provider; a clean inventory deactivates nothing that is listed; the owner of a source stays |
| `inventory_missing` (violation) | 1 configuration, 2 parts | sources of a part that did not answer are deactivated |
| `inventory_request` (violation) | 1 configuration, 1 part | a request made during the inventory is withdrawn |
| `configurations` | a Serenicity configuration, the SMTP row with four relays and a mail, two CTI providers and an enrichment, two threads each; the migration of two sources with keys that differ by a blank; 1 690 000 states, 2 min | the services keep `ValidatedConfig` step by step unless an edit overtook the row they read; mails and calls only use what was accepted (`MailUsesAccepted`, `CtiPromises`), a mail goes out once and a validated relay is usable but for its certificate or an odd sender (`MailAnswersTruly`), a report says what its document says; the migration tells its schema, keeps every key, touches nothing unknown |
| `cti_errors` (violation) | 1 provider | a connection cut during the answer is not normalised |
| `collector_config_race` (violation) | 1 configuration, 2 threads | an activation overtaken by an edit makes active what was not validated |
| `collector_config_stale` (violation) | 1 configuration, 1 thread | a collector goes on with a replaced key |
| `retention` | 2 tables, policies of 1 and 9 days in a calendar of 6 instants, 1 fault besides those of `mark_run_failure` | what a pass reports is so; only what is expired goes, and goes in the end |

`configurations` has one disjunct for each of four systems (a variable `service` says
which one runs): the mails with the SMTP row and the migration, whose modules it extends, the
collectors and the CTI providers, which it instantiates. A behaviour is about one of them, and
the variables of the others are constant; the last two, that never run together, are given
the same four variables for what they have in common. The collector of this run is a
Serenicity one, with a key and an address to keep apart; `collector_config_race` and
`collector_config_stale` have an OGO one. `correlator` (worker or one screen) and `liveness` (worker or inventory) are made the same
way. Each is the sum, not the product, of the state spaces. The screens do not run on the
states of `Correlator` but on tables with writers of their own, that leave what the commits
of the correlator may leave and more (`RefreshAlert`: any set of sources, any instant).

Why the bounds are enough:

* *Correlator.* Two sources make an alert, a third one changes it; the second attack
  of one source changes a summary without a new source; an older attack after a newer
  one exercises both ends of the window. Two in a batch are needed for a failure or
  a death in the middle of one. A second IP shows that nothing leaks between IPs.
* *Collection.* The cursor has to be compared with one event before the safety
  window, one in it, and one that does not fit in the pages left; four events at four
  instants give each of these. `MaxDelay` is twice `Safety`, so that late events occur
  on both sides of it.
* *Inventory.* Two parts are the least for a partial answer, two configurations for
  an ownership conflict. Sources interact through their owner, and at Serenicity through
  their `ExternalId`: the two sources of `liveness` share one, the source of `inventory` has
  one to itself.
* *Configurations.* Two keys are needed to have one that was validated and one that
  was not; two threads for every race of two requests. A third one repeats a race.
* *Mail.* A relay with a certificate that verifies, one with another, one without
  STARTTLS: the three outcomes of the two sessions; one like the first with an odd sender.
  Four relays give edits that matter before, during and after a session; the password is
  always the same, since nothing distinguishes a wrong one from a wrong relay.
* *Enrichment.* Two reports, two services, two roots of which one contains another
  entity: the least with a repetition, an order and a depth. The proofs have no bound.
* *Screens.* Five attacks in pages of one row make up to five pages, with every insertion
  and purge between any two reads; three alerts under a limit of two make a selection that
  a tie decides, and without a limit all are selected; attacks on two days, a request that ends in the first.
* *Retention.* The limits of a calendar and of a policy are apart by one instant on
  both sides.
* *Migration.* Two sources suffice for the duplicates, which are compared in pairs.

Symmetry is declared in safety runs only, on sets whose members no definition tells
apart. Deadlock is checked in all runs.

## 4. Fairness

The repository states no restart policy and the code has no supervisor, so that no
specification is fair to `Start` or `Requeue`: the liveness properties hold *or the
process is down*. The only fairness is weak fairness of the steps a live process
takes (`Worker`): its loop is sequential, a `sleep` ends, and every call ends with an
answer or an exception (the HTTP clients have timeouts, a statement waits for no lock
that another component keeps). Faults are bounded, hence a call
that is repeated is successful in the end. Nothing in the environment is fair: new
attacks, edits, and publications may stop at any time. `Correlator` adds weak fairness of `CommitPurge`: a
DELETE of retention ends.

One exception is known and not modelled: the client of Lurio repeats a request that is
answered 429 for as long as it is (`serenicity_lurio_client.py:163`); a provider that
answers nothing else holds the scheduler, and `EventuallyStored` would not be true.

## 5. What is proved

The theorems hold for every value of the constants that satisfies the named assumptions, all
of which TLC evaluates on the instances: finite sets of attacks or events and of sources,
natural numbers as instants, batches and pages of at least one row (`AttackAssumption`,
`SourceAssumption`, `EventAssumption`, `NumberAssumption`,
`BatchSizeAssumption`); policies of at least one day (`RetentionAssumption`); two IPs with two
addresses, days in the order of their instants, requests with at least one source to report, a
period that does not end before it begins (`ScreensAssumption`, `FilterAssumption`); a relay on one of the ports of `_ALLOWED_PORTS`
(`RelayAssumption`); names that are no placeholders (`NullAssumption`, `RevisionAssumption`); what each configuration
may list (`CatalogAssumption`); CTI providers without a key among the providers
(`KeylessAssumption`); documents made of the lists and numbers that their mapping reads, with
entities in entities down to any depth `Depth` (`DocumentAssumption`).
The number of faults, threads, configurations, providers, senders, requests and sources is any.

In each of the proof modules `Invariance` is the inductive invariant `IInv`, and what follows
says what it adds to the properties and why.

**`CorrelatorProofs`, the registry.** `RegisterIsAggregate`: registering attack `a` in the
aggregation of a set that does not hold `a` gives the aggregation of the set with
`a`. It rests on lemmas on counts, minima and maxima of a finite set with one more
element (`FiniteHasBounds`), and makes the order of arrival irrelevant.

**`CorrelatorProofs`.** `TypeCorrect`, `RegistryCorrect` (`RegistryIsAggregate`),
`ExactlyOnce` (`CountedOnce`), `NoOrphan`, `NoPhantom`, `WindowsCover`. `CountedOnce` is
not inductive: it does not say what the worker holds between two steps. The
strengthening is `WorkerHolds`: the batch in hand consists of rows the worker claimed
(`processing`, or deleted since) and that nobody counted; only the current one may be
completed, between its commit and its registration or its reset. With it a death or a
lost acknowledgement at any point leaves `counted` a set of completed or deleted rows.
`RegistryIsAggregate` then follows step by step from `RegisterIsAggregate`.

`CompletionPublishes` (`CompletionPublishesAlert`) and `SettledIsExact`
(`SettledAlertIsExact`) are about what is shown. An alert may be wrong as long as something of
its IP is still to be processed, so that exactness is not inductive. What is: whatever
happened, an alert covers the completed attacks it was written from and is grounded in
attacks that were collected; hence once all of these are completed it is what one faultless
run over them would have written. The step of `Commit` is the one where the registry and the
attack in hand, or the stored summaries after a restart, make the same alert.

`Implements` (`ImplementsLedger`) is the refinement of `AlertLedger`, in which an attack goes
from the queue into the alert of its IP in one step, and there are no batches, no memory and no
failures. A row in `pending` or `processing` is in the queue of the ledger. A commit, acknowledged or
not, is `Complete`, or `CompleteDeleted` when retention took the row before; the reset of a row that a lost
acknowledgement left completed is `Retry`; inserting and deleting are steps of the ledger too, and
claims, requeues, crashes and restarts are stutters. What makes a commit a step of the ledger is that the
alert it writes is that of *all* the attacks completed so far, although the worker computes it from
what it has in memory: `RegistryIsAggregate`, `CountedOnce` and `WorkerHolds` together.

**`CollectionProofs`.** `TypeCorrect`, `NoGapCorrect` (`NoGap`), `SuccessMovesOn`. The inductive
invariant is `TypeOK`, the order of clock, cursors and windows (`ClockInv`), what the
collection in hand has read (`JobInv`, `ReadInv`), and `Covered`: every cursor ever written is
gap free, not only the one a property looks at. `ReadInv` says that what has been
read so far includes each timely event of the window that sorts before the last one
read, although events published between two pages shift the pages: a timely event
published after the window was opened cannot lie behind the safety window of the
cursor to come. `Covered` is needed because a failure writes back the cursor that was
read before the collection. `SuccessMovesOn` (`SuccessAdvances`) adds `CutAdvances`, on the
cursor that is proposed when the pages of a cycle end before the listing does: the ranks of
a listing are 1, 2, ... (`RankTaken`, a pigeonhole argument), so that the last event of the
last page has as many events before it as the pages hold rows; between the start of the window
and the old cursor a sparse source has fewer.

**`InventoryProofs`.** `TypeCorrect`, `OwnersStay` (`OwnerKept`), `CleanKeeps`
(`CleanInventoryKeeps`), `ServedCompletely` (`ServedIsComplete`), `ConflictsStay`
(`ConflictKeepsRequest`). All but the first compare a
step with what the provider lists at that moment, which the service has read transactions
before. `RunHolds` says what the outcome in hand is at each stage (nothing is left to
write when it looks for what is missing). `KnownWhenClean` says, as long as nothing has failed,
of each source that nobody touched since: it has been seen exactly if a part read so far lists
it; if it was seen, it is queued with the status listed or written so, under a
configuration it could have; if not, it is as it was when the inventory began. `ConflictsStay`
adds that the table holds an external id once (`ApartInvariance`): of two twins that the provider
lists all along, a clean inventory would have written both (`ServedKnows`).

**`RetentionProofs`.** `TypeCorrect`, `DeletionCorrect` (`DeletesExpiredOnly`),
`SuccessCorrect` (`SuccessLeavesNothingExpired`) and `ReportCorrect`
(`PassReportsEveryPolicy`), for any calendar, policies and number of faults. The invariant
says what each stage of the pass knows of tables it does not lock: what was listed of
a policy still holds unless it was edited (`ListingInv`), nothing too old comes back
between the deletion and its record, because the correlator only writes the present
date and the collection does not run then (`DeletedInv`), and each listed policy waits,
is in hand, or has been reported (`ReportInv`).

**`CollectorConfigProofs`.** `StatusAlwaysAgrees` (`StatusAgrees`) and `KeepsPromises`: each
configuration of the service implements `ValidatedConfig`, step by step, as long as no edit
overtakes an activation. What the refinement needs beside the types is `AbsentIsEmpty`: a row that
was deleted, or is not created yet, has no secrets left, so that the activation that ends
after the deletion changes nothing of what is promised. `OneThreadAccepts` states what
the run `collector_config_race` refutes for two threads, `ActiveWasAccepted`, for an API that
serves one request at a time: the race is all that is wrong.

**`ConfigurationsProofs`.** Three parts, then the whole.

*Mails.* `KeepsPromises` (`SmtpPromises`) is the same refinement for the SMTP row, and
`MailConfigures` the one that carries what is proved of `SmtpConfig` over to `Mail`.
`UsesAccepted` (`MailUsesAccepted`) needs `ActiveIsAccepted`: a row that is active, and that no
edit had overtaken when it became so, has the settings the relay accepted; a mail takes its
settings from such a row, and keeps them. `AnswersTruly` (`MailAnswersTruly`) joins two facts.
`SendsOnce` counts what the relay took of the session in hand (`TakenOnce`). `AcceptedCanSend`
compares the session of the validator with that of the sender (ports, STARTTLS, certificate, what is left to go wrong with the sender) by way of
`AcceptedLogsIn`: what was accepted, the validator could log in to.

*CTI providers.* `CtiIInv` says of each provider what `ActiveIsAccepted` says of the relay, and
of each call that the key it holds was accepted when the call began, if no edit had overtaken the
activation; since what was accepted only grows, an edit during the call does not matter.

*Documents.* The mapping of a document is computed by recursion, and the property says of the outcome
what relates it to the document: each list is followed by what has been established of its first
elements (`UpTo` is the induction, on the set of the numbers for which that is so). `FlattenIs` gives each element of a list
of lists one place; `DeduplicateIs` keeps the order of the first mentions (`Ordered`);
`OneMoreLevel` opens the entities one level deeper (`Leveled`) and keeps them in the order of
the document, because an entity is earlier than what is in it, and that earlier than the next one
(`EarlierThanChildren`, `EarlierExtends`); the first of such a list that has a role is the
first of the document (`FirstIsFirst`). With the arithmetic of `SharesAreFaithful` these give
`MappingIsFaithful`, for one document; `AnswersAreFaithful` (`EnrichmentAnswers`) follows because a request
maps the document it answers in the same step.

*The whole.* `ServicesImplement` carries what is proved of `Mail` and `Migration` over to
`Configurations`. The theorems about the collectors are taken from `CollectorConfigProofs` by
INSTANCE, under the same substitution as the specification (`SameCollectors`). Thence
`ServicesTypeCorrect` (`ServicesTypeOK`), `CollectorStatusAlwaysAgrees`
(`CollectorStatusAgrees`), `CollectorsKeepPromises` (`CollectorPromises`) and `CtiKeepsPromises`
(`CtiPromises`).

**`MigrationProofs`.** `VersionTellsSchema` (`VersionTells`), `SourcesStayKept`
(`SourcesKept`), `OwnersOfTheirKind` (`OwnerOfItsKind`), `LeavesUnknownAlone`
(`UnknownUntouched`). The plan is made in one connection and
carried out by commands that look at nothing again; `PlanHolds` says what was seen and still
holds when a command runs. The keys are followed one source at a time through the three
shapes of a row (`BackfilledRow`, `DowngradedRow`).

**`ScreensProofs`.** `WalksOmitNothing` (`WalkOmitsNothing`) and `TopologiesAreGraphs`
(`TopologyIsGraph`), for any size of a page and of a topology. `WalkInv` gives each row that is
still owed a place: it is behind what was read (at or after the offset of the page to come)
and, from the count on, within the total unless something overtook it. A purge cannot pull an
attack forward to a page already read because it takes the oldest (`StaysBehind`). With
`PagesHoldTotal` (the arithmetic of `total_pages`) nothing is left after the last page.
`GraphInv` says that what a topology has read is what it would read again unless the
selection changed; `SelectionBounded` bounds the selection, the order by which it is cut being
total (`AlertOrder`).
`StatisticsAlwaysAddUp` (`StatisticsAddUp`) is about sums over sets. `SumIs` says what such a sum is: if
it went wrong for a set, it would for a smallest one, and taking an element out of that one
leaves a smaller one. `PartsAddUp` follows for any classes of rows, the sources or the days
(`DaysCover`: each row of the period is on one of its days), and `TotalInv` keeps what was
read first comparable with what is read last.

## 6. What is only model-checked

Every safety property and every action property of a run that passes is a theorem. What is left:

* All liveness properties: the proof system has no rule for them here.
* The five properties that a run violates, except `ActiveWasAccepted` for one thread.

## 7. Disagreements with the documentation

Five runs must find a violation; each one checks what a comment or a README says:

1. `collector_config_race`: an edit made while an activation waits for the provider
   does not force a new activation (comment of `attacks_collector_config_service.py:148`).
2. `collector_config_stale`: a running scheduler does not decrypt the secrets at each
   cycle, it keeps them (`apps/cyber_dashboard_scheduler/README.md:9`).
3. `inventory_missing`: sources of a part that could not be read are taken for missing
   (`inventory/common.py:119`).
4. `inventory_request`: a request made during an inventory does not lead to one
   (`attacks_collector_config_service.py:267`).
5. `cti_errors`: a connection cut after the request was sent is answered
   `internal_server_error` (`docs/CTI.md:59` of the API).

Seen while reading, without a run: the docstring of `deactivate_config`
(`cti_config_service.py:134`) says that the validation is kept, and the method resets it.
Keys of V1 sources are compared after `BTRIM` but moved as they are. A downgrade turns
the error of an inventory into one of a collection. Two bootstraps at once could set
the version back after an upgrade; the model has one at a time. The validator takes any
certificate of a relay that the sender will refuse (`MailAnswersTruly` excepts it): such a
configuration is active, validated, and sends nothing. Nor does one whose `smtp_from` is beyond
ASCII: with a display name `formataddr` raises outside the `try`
(`smtp_email_service.py:58`, answered 500), without one a relay that has no SMTPUTF8 refuses it.
A sensor and a Lurio of one number cannot both be in `serenicity_sources`, where `external_id` is
unique although the two are numbered apart: as long as both are listed no request of that
configuration is served (`ConflictKeepsRequest`), and even a row whose source is no longer listed
is enough to refuse its twin, which is why `EventuallyServed` excepts such a configuration. The name
in `V1_BASELINE_REVISION` is not checked: with the head there, a V1 database is taken for migrated
(`migrate.py:113`). A page and its total are read in two
transactions, so that a row which gets ahead of others in between is skipped
(`WalkOmitsNothing` excepts it).

## 8. What is not modelled

* Read-only requests of one query (overview, detail of an alert, statistics by type):
  one statement, one snapshot.
* Schemas and validation of requests: a request refused before its service changes
  anything is a stutter. Of the errors, only the codes of mails and enrichments.
* The texts that the enrichment derives (names of services, hosts, vCards), and that of a
  mail.
* Wire formats, signatures and retries of the HTTP clients: a call answers or raises. Only OGO
  is asked for an order (`ogo_client.py:139`); that Serenicity lists its reports oldest first is
  assumed, as `_extract_last_report_created_at` does, and `NoGap` depends on it.
* What follows the stamp of a V1 database at another revision than V1.
* Encryption: a secret can be decrypted or not.
* Settings, seeds, the script of the lock file.
* A wait without an end: see the exception of section 4.
* Two bootstraps at once on one database.
* Several correlators at once: the requeue of one takes the batch of another, and the
  deployment starts one.
* Isolation anomalies inside a transaction: each one locks or writes the rows it reads,
  or reads once; exceptions are split as said above.

## 9. Plan

| Step | Content | State |
|---|---|---|
| 1 | `SeenIpRegistry`, `Correlator`, proofs of their safety invariants | done |
| 2 | `Collection`, proof of `NoGap` | done |
| 3 | `ValidatedConfig`, the three configurations, proofs of the refinement | done |
| 4 | `Inventory` | done |
| 5 | `Retention`, `Migration` | done |
| 6 | `Mail` on the SMTP row, `CtiEnrichment` on a provider's row, `Screens` on the shared tables, proofs | done |
| 7 | composition of collection, retention and correlator on one table: an attack is counted at most once unless the cursor of its source lags more than the retention | to do |
| 8 | `AlertLedger`, an abstract exactly-once ledger, and the proof that `Correlator` implements it | done |

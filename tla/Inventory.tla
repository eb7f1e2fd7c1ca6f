------------------------------- MODULE Inventory -------------------------------
(***************************************************************************)
(* The inventory of the sources: SourceInventoryService.run_once takes the *)
(* active configurations whose inventory is requested and, for each of     *)
(* them, asks the provider part by part which sources it knows, creates or *)
(* updates them, deactivates those it has not seen, and withdraws the      *)
(* request if nothing went wrong.                                          *)
(*                                                                         *)
(* A part is an OGO organisation, or one of the two lists of Serenicity.   *)
(* OGO reads all the parts before it writes, Serenicity writes after each. *)
(* The sources are those whose item can be used (the others are skipped as *)
(* if they were not listed), the organisations those that have a code.     *)
(* Meanwhile the API edits the configurations and the sources, the         *)
(* provider changes what it lists, and the process may die at any point.   *)
(***************************************************************************)
EXTENDS Naturals

CONSTANTS
  Config,       \* identifiers that table attacks_collector_config gives out
  Source,       \* stable keys of sources: a domain, or the type and external id
  ExternalId,   \* the external_id of a source: at Serenicity those of two types may
                \* have the same; of no meaning for a domain
  Part,         \* organisations, or lists
  Catalog,      \* the sources a configuration's provider may ever list; the keys of
                \* the two types of provider differ, the external ids too
  Unreachable,  \* configurations whose provider never answers
  None,         \* NULL
  MaxFaults     \* bound: calls that fail without killing the process

ASSUME CatalogAssumption == Catalog \in [Config -> SUBSET Source] /\ Unreachable \subseteq Config
ASSUME NullAssumption == None \notin Config \cup Source
ASSUME FaultAssumption == MaxFaults \in Nat

Type == {"ogo", "serenicity"}
State == {"absent", "active", "inactive"}

VARIABLES
  config,    \* the rows of attacks_collector_config
  listing,   \* the parts of a provider that list a source, and the status given
  row,       \* the rows of sources, and their is_active
  owner,     \* attacks_collector_config_id of a source
  marked,    \* scheduler_state.last_inventory_status of a source
  pc,        \* where the scheduler stands in the inventory
  todo,      \* the configurations selected, as they were then
  run,       \* the inventory of one configuration in progress
  intact,    \* history: sources that neither the provider nor the API touched
             \* since the inventory in progress began
  asked,     \* history: the inventory in progress was requested again
  faults     \* calls that failed so far

vars == <<config, listing, row, owner, marked, pc, todo, run, intact, asked, faults>>
sources == <<row, owner, marked>>
scheduler == <<pc, todo, run>>

Configuration == [type : Type, stored : BOOLEAN, active : BOOLEAN, requested : BOOLEAN]
Listing == [parts : SUBSET Part, on : BOOLEAN]
Unlisted == [parts |-> {}, on |-> TRUE]

\* What run_config holds: the configuration, the sources it had, the parts still to
\* read, what is to be written of each source, the keys seen, whether what is
\* written is the absence, whether something failed, and the source in hand.
Run == [config : Config, type : Type, known : [Source -> State], parts : SUBSET Part,
        queue : [Source -> State], seen : SUBSET Source, missing : BOOLEAN,
        failed : BOOLEAN, item : Source \cup {None}]
NoRun == [config |-> None]
Nothing == [s \in Source |-> "absent"]

TypeOK ==
  /\ config \in [Config -> Configuration]
  /\ listing \in [Config -> [Source -> Listing]]
  /\ row \in [Source -> State]
  /\ owner \in [Source -> Config \cup {None}]
  /\ \A s \in Source : owner[s] # None => row[s] # "absent" /\ config[owner[s]].stored
  /\ marked \in [Source -> {"none", "success", "failed"}]
  /\ pc \in {"down", "idle", "select", "fetch", "write", "mark", "report", "missing", "end"}
  /\ todo \subseteq [config : Config, type : Type]
  /\ run \in Run \cup {NoRun}
  /\ intact \subseteq Source
  /\ asked \in BOOLEAN
  /\ faults \in 0 .. MaxFaults

Init ==
  /\ config \in [Config -> {[type |-> t, stored |-> TRUE, active |-> FALSE,
                             requested |-> TRUE] : t \in Type}]
  /\ \A c, d \in Config :
       (\E s \in Catalog[c], t \in Catalog[d] : ExternalId[s] = ExternalId[t]) =>
         config[c].type = config[d].type
  /\ listing = [c \in Config |-> [s \in Source |-> Unlisted]]
  /\ row = Nothing
  /\ owner = [s \in Source |-> None]
  /\ marked = [s \in Source |-> "none"]
  /\ pc = "down"
  /\ todo = {}
  /\ run = NoRun
  /\ intact = {}
  /\ asked = FALSE
  /\ faults = 0

-------------------------------------------------------------------------------
(* The provider and the API                                                *)

\* A provider lists a source in some of its parts, or in none any more; only
\* Serenicity gives it a status.
Relist(c, s) ==
  /\ s \in Catalog[c]
  /\ \E l \in Listing :
       /\ config[c].type = "ogo" \/ l.parts = {} => l.on
       /\ listing' = [listing EXCEPT ![c][s] = l]
  /\ intact' = IF run.config = c THEN intact \ {s} ELSE intact
  /\ UNCHANGED <<config, sources, scheduler, asked, faults>>

\* activate_config, deactivate_config
SetActive(c) ==
  /\ config[c].stored
  /\ config' = [config EXCEPT ![c].active = ~ @]
  /\ UNCHANGED <<listing, sources, scheduler, intact, asked, faults>>

RequestInventory(c) ==
  /\ config[c].stored
  /\ config' = [config EXCEPT ![c].requested = TRUE]
  /\ asked' = (asked \/ run.config = c)
  /\ UNCHANGED <<listing, sources, scheduler, intact, faults>>

\* Mutant: the sources keep the number of the configuration that is no more.
DeleteConfigAlone(c) ==
  /\ config[c].stored
  /\ config' = [config EXCEPT ![c] = [@ EXCEPT !.stored = FALSE, !.active = FALSE]]
  /\ UNCHANGED <<listing, sources, scheduler, intact, asked, faults>>

\* delete_config, and ON DELETE SET NULL of sources.attacks_collector_config_id.
DeleteConfig(c) ==
  /\ config[c].stored
  /\ config' = [config EXCEPT ![c] = [@ EXCEPT !.stored = FALSE, !.active = FALSE]]
  /\ owner' = [s \in Source |-> IF owner[s] = c THEN None ELSE owner[s]]
  /\ intact' = {s \in intact : owner[s] # c}
  /\ UNCHANGED <<listing, row, marked, scheduler, asked, faults>>

UpdateSourceStatus(s) ==
  /\ row[s] # "absent"
  /\ row' = [row EXCEPT ![s] = IF @ = "active" THEN "inactive" ELSE "active"]
  /\ intact' = intact \ {s}
  /\ UNCHANGED <<config, listing, owner, marked, scheduler, asked, faults>>

-------------------------------------------------------------------------------
(* SourceInventoryService.run_once                                         *)

MayFail == faults < MaxFaults /\ faults' = faults + 1

Start ==
  /\ pc = "down"
  /\ pc' = "idle"
  /\ UNCHANGED <<config, listing, sources, todo, run, intact, asked, faults>>

\* Mutant: one configuration is inventoried per cycle, the first of the list.
BeginInventoryFirst ==
  /\ pc = "idle"
  /\ LET requested == {c \in Config : config[c].active /\ config[c].requested} IN
     todo' = IF requested = {} THEN {}
             ELSE LET c == CHOOSE c \in requested : TRUE IN {[config |-> c, type |-> config[c].type]}
  /\ pc' = "select"
  /\ UNCHANGED <<config, listing, sources, run, intact, asked, faults>>

\* list_active_inventory_requested_configs
BeginInventory ==
  /\ pc = "idle"
  /\ todo' = {[config |-> c, type |-> config[c].type] :
                c \in {d \in Config : config[d].active /\ config[d].requested}}
  /\ pc' = "select"
  /\ UNCHANGED <<config, listing, sources, run, intact, asked, faults>>

NewRun(t) ==
  [config |-> t.config, type |-> t.type,
   known |-> [s \in Source |-> IF owner[s] = t.config THEN row[s] ELSE "absent"],
   parts |-> Part, queue |-> Nothing, seen |-> {}, missing |-> FALSE,
   failed |-> FALSE, item |-> None]

\* list_sources_for_inventory
NextConfig ==
  /\ pc = "select"
  /\ \E t \in todo :
       /\ run' = NewRun(t)
       /\ todo' = todo \ {t}
  /\ intact' = Source
  /\ pc' = "fetch"
  /\ UNCHANGED <<config, listing, sources, asked, faults>>

EndInventory ==
  /\ pc = "select"
  /\ todo = {}
  /\ pc' = "idle"
  /\ UNCHANGED <<config, listing, sources, todo, run, intact, asked, faults>>

\* Where an inventory goes on: OGO reads every part before it writes.
Resume(r) ==
  IF r.parts # {} /\ (r.type = "ogo" \/ r.queue = Nothing) THEN "fetch"
  ELSE IF r.queue # Nothing THEN "write"
  ELSE IF ~ r.missing THEN "missing"
  ELSE "end"

Continue(r) == run' = r /\ pc' = Resume(r)

\* A secret cannot be decrypted, or the organisations cannot be read.
ConfigFails ==
  /\ pc = "fetch"
  /\ run.parts = Part
  /\ MayFail
  /\ Continue([run EXCEPT !.parts = {}, !.failed = TRUE])
  /\ UNCHANGED <<config, listing, sources, todo, intact, asked>>

\* The sources of a part, with the is_active they are to get.
Answer(p) ==
  [s \in Source |->
     LET l == listing[run.config][s] IN
     IF p \notin l.parts THEN "absent" ELSE IF l.on THEN "active" ELSE "inactive"]

\* Mutant: each part starts the set of the keys seen again.
RecordForgetsKeys(r, found) ==
  [r EXCEPT !.queue = [s \in Source |-> IF found[s] = "absent" THEN @[s] ELSE found[s]],
            !.seen = {s \in Source : found[s] # "absent"}]

\* seen_source_keys, and the payloads to persist.
Record(r, found) ==
  [r EXCEPT !.queue = [s \in Source |-> IF found[s] = "absent" THEN @[s] ELSE found[s]],
            !.seen = @ \cup {s \in Source : found[s] # "absent"}]

ReadPart(p) ==
  /\ pc = "fetch"
  /\ p \in run.parts
  /\ run.config \notin Unreachable
  /\ Continue(Record([run EXCEPT !.parts = @ \ {p}], Answer(p)))
  /\ UNCHANGED <<config, listing, sources, todo, intact, asked, faults>>

\* Mutant: the failure of a part is logged, but not remembered.
PartFailsUnnoticed(p) ==
  /\ pc = "fetch"
  /\ p \in run.parts
  /\ IF run.config \in Unreachable THEN UNCHANGED faults ELSE MayFail
  /\ Continue([run EXCEPT !.parts = @ \ {p}])
  /\ UNCHANGED <<config, listing, sources, todo, intact, asked>>

\* The part is given up, the others go on.
PartFails(p) ==
  /\ pc = "fetch"
  /\ p \in run.parts
  /\ IF run.config \in Unreachable THEN UNCHANGED faults ELSE MayFail
  /\ Continue([run EXCEPT !.parts = @ \ {p}, !.failed = TRUE])
  /\ UNCHANGED <<config, listing, sources, todo, intact, asked>>

-------------------------------------------------------------------------------
(* The transactions of an inventory                                        *)

\* Mutant: the configuration of the inventory takes the source over.
AllowedToAll(s) == run.missing \/ config[run.config].stored

\* serenicity_sources has one row for an external id, whatever the type.
SameId(c, s) ==
  IF config[c].type = "ogo" THEN {} ELSE {t \in Source \ {s} : ExternalId[t] = ExternalId[s]}

\* Mutant: a second row is inserted for the external id.
AllowedTwice(s) ==
  IF run.missing THEN owner[s] = run.config
  ELSE config[run.config].stored /\ owner[s] \in {None, run.config}

\* _assert_sensor_type_consistency of the row that bears the external id,
\* _assert_config_consistency and the foreign key, or deactivate_source's WHERE.
Allowed(s) ==
  IF run.missing THEN owner[s] = run.config
  ELSE /\ \A t \in SameId(run.config, s) : row[t] = "absent"
       /\ config[run.config].stored /\ owner[s] \in {None, run.config}

\* upsert_ogo_source, upsert_serenicity_source, deactivate_source: they overwrite
\* is_active, whoever set it.
WriteSource(s) ==
  /\ Allowed(s)
  /\ row' = [row EXCEPT ![s] = run.queue[s]]
  /\ owner' = IF run.missing THEN owner ELSE [owner EXCEPT ![s] = run.config]

Take(s) == [run EXCEPT !.queue[s] = "absent", !.item = s]

Write(s) ==
  /\ pc = "write"
  /\ run.queue[s] # "absent"
  /\ WriteSource(s)
  /\ run' = Take(s)
  /\ pc' = "mark"
  /\ UNCHANGED <<config, listing, marked, todo, intact, asked, faults>>

\* The transaction raises: before or after it was committed.
WriteRaises(s) ==
  /\ pc = "write"
  /\ run.queue[s] # "absent"
  /\ \/ MayFail /\ UNCHANGED <<row, owner>>
     \/ MayFail /\ WriteSource(s)
     \/ ~ Allowed(s) /\ UNCHANGED <<row, owner, faults>>
  /\ run' = [Take(s) EXCEPT !.failed = TRUE]
  /\ pc' = "report"
  /\ UNCHANGED <<config, listing, marked, todo, intact, asked>>

\* mark_inventory_success
MarkSuccess ==
  /\ pc = "mark"
  /\ marked' = [marked EXCEPT ![run.item] = "success"]
  /\ Continue([run EXCEPT !.item = None])
  /\ UNCHANGED <<config, listing, row, owner, todo, intact, asked, faults>>

MarkRaises ==
  /\ pc = "mark"
  /\ MayFail
  /\ marked' \in {marked, [marked EXCEPT ![run.item] = "success"]}
  /\ run' = [run EXCEPT !.failed = TRUE]
  /\ pc' = "report"
  /\ UNCHANGED <<config, listing, row, owner, todo, intact, asked>>

\* record_known_source_error, record_scheduler_state_error: the failure is recorded
\* for a source that was known when the inventory began, if it can be.
MarkFailure ==
  /\ pc = "report"
  /\ \/ /\ marked' = IF run.known[run.item] = "absent" THEN marked
                     ELSE [marked EXCEPT ![run.item] = "failed"]
        /\ UNCHANGED faults
     \/ MayFail /\ UNCHANGED marked
  /\ Continue([run EXCEPT !.item = None])
  /\ UNCHANGED <<config, listing, row, owner, todo, intact, asked>>

\* deactivate_missing_sources: also when a part could not be read.
FindMissing ==
  /\ pc = "missing"
  /\ Continue([run EXCEPT
       !.missing = TRUE,
       !.queue = [s \in Source |->
         IF run.known[s] = "active" /\ s \notin run.seen THEN "inactive" ELSE "absent"]])
  /\ UNCHANGED <<config, listing, sources, todo, intact, asked, faults>>

\* clear_inventory_request if nothing failed, whatever was requested meanwhile.
EndConfig ==
  /\ pc = "end"
  /\ config' = IF run.failed \/ ~ config[run.config].stored THEN config
               ELSE [config EXCEPT ![run.config].requested = FALSE]
  /\ run' = NoRun
  /\ intact' = {}
  /\ asked' = FALSE
  /\ pc' = "select"
  /\ UNCHANGED <<listing, sources, todo, faults>>

\* Any other exception, or a signal, ends the process.
Crash ==
  /\ pc # "down"
  /\ pc' = "down"
  /\ todo' = {}
  /\ run' = NoRun
  /\ intact' = {}
  /\ asked' = FALSE
  /\ UNCHANGED <<config, listing, sources, faults>>

-------------------------------------------------------------------------------
World ==
  \/ \E c \in Config : \/ \E s \in Source : Relist(c, s)
                       \/ SetActive(c) \/ RequestInventory(c) \/ DeleteConfig(c)
  \/ \E s \in Source : UpdateSourceStatus(s)

Worker ==
  \/ BeginInventory \/ NextConfig \/ EndInventory
  \/ \E p \in Part : ReadPart(p) \/ PartFails(p)
  \/ \E s \in Source : Write(s) \/ WriteRaises(s)
  \/ MarkSuccess \/ MarkFailure \/ FindMissing \/ EndConfig

Next ==
  \/ World
  \/ Start
  \/ Worker
  \/ ConfigFails \/ MarkRaises
  \/ Crash

\* A live scheduler keeps stepping; nothing restarts a dead one.
Fairness == WF_vars(Worker)

Spec == Init /\ [][Next]_vars /\ Fairness

-------------------------------------------------------------------------------
(* Properties                                                              *)

Listed(c, s) == listing[c][s].parts # {}
ListedActive(c, s) == Listed(c, s) /\ listing[c][s].on

\* The request of a configuration is only withdrawn once its sources are what the
\* provider says: of the sources nobody touched meanwhile, those it lists belong to
\* the configuration, have the status it gives and are marked so, and no other
\* source of the configuration is active.  A failure of any call on the way keeps
\* the request for another inventory.
ServedIsComplete ==
  [][\A c \in Config : config[c].requested /\ ~ config'[c].requested =>
       \A s \in intact :
         /\ ListedActive(c, s) <=> owner[s] = c /\ row[s] = "active"
         /\ Listed(c, s) => owner[s] = c /\ marked[s] = "success"]_vars

\* Two sources of different types that have the same external id cannot both have a row:
\* as long as the provider lists them both, the request stays, and with it the error.
KeepsConflict ==
  \A c \in Config : config[c].requested /\ ~ config'[c].requested =>
    \A s \in intact : Listed(c, s) => \A t \in intact \cap SameId(c, s) : ~ Listed(c, t)
ConflictKeepsRequest == [][KeepsConflict]_vars

\* A source leaves a configuration only with the configuration.
OwnerKept ==
  [][\A s \in Source : owner[s] # None /\ owner'[s] # owner[s] =>
       owner'[s] = None /\ ~ config'[owner[s]].stored]_vars

Deactivates(s) == pc = "write" /\ row[s] = "active" /\ row'[s] = "inactive" /\ s \in intact'

\* An inventory in which nothing failed deactivates no source that the provider
\* lists as active.
CleanInventoryKeeps ==
  [][\A s \in Source : Deactivates(s) /\ ListedActive(run.config, s) => run.failed]_vars

\* An inventory only deactivates sources that the provider does not list (common.py,
\* "Desactive les sources absentes du dernier inventaire").
OnlyMissingDeactivated ==
  [][\A s \in Source : Deactivates(s) => ~ ListedActive(run.config, s)]_vars

\* An inventory does not withdraw a request made after it began ("Demande un
\* inventaire futur").
RequestKept ==
  [][\A c \in Config : config[c].requested /\ ~ config'[c].requested => ~ asked]_vars

\* The provider lists a source for which the tables have no place: another
\* configuration owns it, or a source of another type has its external id.
Conflict(c) ==
  \E s \in Source :
    /\ Listed(c, s)
    /\ owner[s] \notin {None, c} \/ \E t \in SameId(c, s) : row[t] # "absent"

\* The requested inventory of a configuration that stays active and whose provider
\* answers succeeds in the end, whatever happens to the others, unless the scheduler
\* dies or, again and again, the provider lists a source in conflict with another.
EventuallyServed ==
  \A c \in Config \ Unreachable :
    \/ []<>Conflict(c)
    \/ config[c].active /\ config[c].requested
         ~> ~ config[c].requested \/ ~ config[c].active \/ pc = "down"
===============================================================================

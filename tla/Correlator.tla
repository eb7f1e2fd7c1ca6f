------------------------------ MODULE Correlator ------------------------------
(***************************************************************************)
(* The common-IP correlator (apps/cyber_dashboard_common_ip): one worker   *)
(* process that claims pending attacks by batches, folds each one into a   *)
(* registry kept in memory, and writes an alert for every IP seen by at    *)
(* least two sources.  It shares the tables attacks and common_ip_alerts   *)
(* with the scheduler, whose collection inserts attacks and whose          *)
(* retention deletes attacks and alerts while the worker runs.             *)
(*                                                                         *)
(* Each database transaction is one action, except the retention DELETE,   *)
(* which is split in two because the rows it has locked are skipped by     *)
(* FOR UPDATE SKIP LOCKED and block the other statements until it ends.    *)
(* The worker's own steps between two transactions are separate, so that   *)
(* it may die, or the others may act, between any two of them.             *)
(***************************************************************************)
EXTENDS SeenIpRegistry

CONSTANTS
  BatchSize,   \* CORRELATOR_BATCH_SIZE
  MaxFaults    \* bound: transactions that fail without killing the worker

ASSUME BatchSizeAssumption == BatchSize \in Nat \ {0}
ASSUME MaxFaultsAssumption == MaxFaults \in Nat

VARIABLES
  status,    \* attacks.correlation_status; "absent" before INSERT, "deleted" after DELETE
  purge,     \* rows locked by the open retention DELETE on attacks
  alerts,    \* common_ip_alerts and common_ip_alert_sources, by IP
  pc,        \* where the worker process stands
  todo,      \* attacks of the claimed batch that remain to be processed
  current,   \* the attack between its transaction and what follows it
  registry,  \* Correlator._registry, in memory
  counted,   \* history: the attacks the registry has integrated
  faults     \* transactions that failed so far

tables == <<status, purge, alerts>>
memory == <<registry, counted>>
vars == <<status, purge, alerts, pc, todo, current, registry, counted, faults>>

NoAttack == 0

With(st) == {a \in Attack : status[a] = st}
Pending == With("pending")
Processing == With("processing")
Completed == With("completed")
Deleted == With("deleted")
InTable == Pending \cup Processing \cup Completed

TypeOK ==
  /\ status \in [Attack -> {"absent", "pending", "processing", "completed", "deleted"}]
  /\ purge \in SUBSET InTable
  /\ alerts \in [Ip -> Alert]
  /\ pc \in {"down", "loading", "idle", "batch", "committed", "failed"}
  /\ todo \in SUBSET Attack
  /\ current \in Attack \cup {NoAttack}
  /\ registry \in [Ip -> [Source -> Summary]]
  /\ counted \in SUBSET Attack
  /\ faults \in 0 .. MaxFaults

Init ==
  /\ status = [a \in Attack |-> "absent"]
  /\ purge = {}
  /\ alerts = [ip \in Ip |-> NoAlert]
  /\ pc = "down"
  /\ todo = {}
  /\ current = NoAttack
  /\ registry = SeenIps({})
  /\ counted = {}
  /\ faults = 0

-------------------------------------------------------------------------------
(* The scheduler, as far as the worker's tables are concerned.             *)

\* insert_collected_attacks: a new row is pending.
Collect(a) ==
  /\ status[a] = "absent"
  /\ status' = [status EXCEPT ![a] = "pending"]
  /\ UNCHANGED <<purge, alerts, pc, todo, current, memory, faults>>

\* DELETE FROM attacks WHERE occurred_at < date_limit, whatever their status.
OpenPurge(limit) ==
  /\ purge = {}
  /\ purge' = {a \in InTable : OccurredAt[a] < limit}
  /\ purge' # {}
  /\ UNCHANGED <<status, alerts, pc, todo, current, memory, faults>>

CommitPurge ==
  /\ purge # {}
  /\ status' = [a \in Attack |-> IF a \in purge THEN "deleted" ELSE status[a]]
  /\ purge' = {}
  /\ UNCHANGED <<alerts, pc, todo, current, memory, faults>>

RollbackPurge ==
  /\ purge # {}
  /\ faults < MaxFaults
  /\ faults' = faults + 1
  /\ purge' = {}
  /\ UNCHANGED <<status, alerts, pc, todo, current, memory>>

\* DELETE FROM common_ip_alerts WHERE updated_at < date_limit; the rows of
\* common_ip_alert_sources go with their alert (ON DELETE CASCADE).
PurgeAlerts(expired) ==
  /\ expired # {}
  /\ \A ip \in expired : alerts[ip].distinct > 0
  /\ alerts' = [ip \in Ip |-> IF ip \in expired THEN NoAlert ELSE alerts[ip]]
  /\ UNCHANGED <<status, purge, pc, todo, current, memory, faults>>

-------------------------------------------------------------------------------
(* Correlator.run                                                          *)

\* Mutant: nothing is requeued at start.
RequeueNothing ==
  /\ pc = "down"
  /\ pc' = "loading"
  /\ UNCHANGED <<tables, todo, current, memory, faults>>

\* requeue_processing_attacks: at start, every processing row is pending again.
Requeue ==
  /\ pc = "down"
  /\ purge \cap Processing = {}
  /\ status' = [a \in Attack |-> IF status[a] = "processing" THEN "pending" ELSE status[a]]
  /\ pc' = "loading"
  /\ UNCHANGED <<purge, alerts, todo, current, memory, faults>>

\* Mutant: the query forgets its WHERE correlation_status = 'completed'.
LoadEveryRow ==
  /\ pc = "loading"
  /\ registry' = SeenIps(InTable)
  /\ counted' = InTable
  /\ pc' = "idle"
  /\ UNCHANGED <<tables, todo, current, faults>>

\* Mutant: the worker starts from an empty registry.
LoadNothing ==
  /\ pc = "loading"
  /\ pc' = "idle"
  /\ UNCHANGED <<tables, todo, current, memory, faults>>

\* load_registry: the registry is rebuilt from the completed rows.
LoadRegistry ==
  /\ pc = "loading"
  /\ registry' = SeenIps(Completed)
  /\ counted' = Completed
  /\ pc' = "idle"
  /\ UNCHANGED <<tables, todo, current, faults>>

\* claim_pending_batch: the first BatchSize pending rows that are not locked.
ClaimBatch(batch) ==
  LET free == Pending \ purge IN
  /\ pc = "idle"
  /\ batch # {}
  /\ batch \subseteq free
  /\ Cardinality(batch) =< BatchSize
  /\ batch = free \/ Cardinality(batch) = BatchSize
  /\ \A a \in batch, b \in free \ batch : Earlier(a, b)
  /\ status' = [a \in Attack |-> IF a \in batch THEN "processing" ELSE status[a]]
  /\ todo' = batch
  /\ pc' = "batch"
  /\ UNCHANGED <<purge, alerts, current, memory, faults>>

\* The transaction of process_attack: the alert from the projected summaries,
\* then mark_processed, an UPDATE that finds no row if retention deleted it.
Correlate(a) ==
  /\ pc = "batch"
  /\ a \in todo \ purge
  /\ alerts' = [alerts EXCEPT ![IpOf[a]] = UpdateAlert(@, Preview(registry[IpOf[a]], a))]
  /\ status' = [status EXCEPT ![a] = IF a \in InTable THEN "completed" ELSE @]
  /\ current' = a
  /\ UNCHANGED <<purge, todo, memory>>

Commit(a) ==
  /\ Correlate(a)
  /\ pc' = "committed"
  /\ UNCHANGED faults

\* Mutant: the registry is updated inside the transaction, before its outcome is
\* known, so an attack whose commit raises is integrated twice.
CommitUnacknowledgedRegisters(a) ==
  /\ faults < MaxFaults
  /\ pc = "batch"
  /\ a \in todo \ purge
  /\ alerts' = [alerts EXCEPT ![IpOf[a]] = UpdateAlert(@, Preview(registry[IpOf[a]], a))]
  /\ status' = [status EXCEPT ![a] = IF a \in InTable THEN "completed" ELSE @]
  /\ registry' = [registry EXCEPT ![IpOf[a]] = Preview(@, a)]
  /\ current' = a
  /\ pc' = "failed"
  /\ faults' = faults + 1
  /\ UNCHANGED <<purge, todo, counted>>

\* The server commits but the acknowledgement is lost: commit() raises.
CommitUnacknowledged(a) ==
  /\ faults < MaxFaults
  /\ Correlate(a)
  /\ pc' = "failed"
  /\ faults' = faults + 1

\* The transaction is rolled back and process_attack raises.
Rollback(a) ==
  /\ pc = "batch"
  /\ a \in todo
  /\ faults < MaxFaults
  /\ faults' = faults + 1
  /\ current' = a
  /\ pc' = "failed"
  /\ UNCHANGED <<tables, todo, memory>>

NextInBatch ==
  /\ todo' = todo \ {current}
  /\ current' = NoAttack
  /\ pc' = IF todo' = {} THEN "idle" ELSE "batch"

\* register_source, once the transaction is over.
Register ==
  /\ pc = "committed"
  /\ registry' = [registry EXCEPT ![IpOf[current]] = Preview(@, current)]
  /\ counted' = counted \cup {current}
  /\ NextInBatch
  /\ UNCHANGED <<tables, faults>>

\* Mutant: a failed attack stays in processing.
ResetNothing ==
  /\ pc = "failed"
  /\ current \notin purge
  /\ NextInBatch
  /\ UNCHANGED <<tables, memory, faults>>

\* reset_to_pending, whatever became of the row.
ResetToPending ==
  /\ pc = "failed"
  /\ current \notin purge
  /\ status' = [status EXCEPT ![current] = IF current \in InTable THEN "pending" ELSE @]
  /\ NextInBatch
  /\ UNCHANGED <<purge, alerts, memory, faults>>

\* wait_next_cycle: nothing to claim.
WaitNextCycle ==
  /\ pc = "idle"
  /\ Pending \subseteq purge
  /\ UNCHANGED vars

\* The process ends: it is killed, or an exception leaves run() (a claim or a
\* reset that fails, or whose acknowledgement is lost).  Its memory is gone.
Crash ==
  /\ pc # "down"
  /\ pc' = "down"
  /\ todo' = {}
  /\ current' = NoAttack
  /\ registry' = SeenIps({})
  /\ counted' = {}
  /\ UNCHANGED <<tables, faults>>

-------------------------------------------------------------------------------
Cutoffs == {t + 1 : t \in Instants}

Process == \E a \in Attack : Commit(a) \/ CommitUnacknowledged(a) \/ Rollback(a)

Worker ==
  \/ LoadRegistry
  \/ \E batch \in SUBSET Attack : ClaimBatch(batch)
  \/ Process
  \/ Register
  \/ ResetToPending

Next ==
  \/ \E a \in Attack : Collect(a)
  \/ \E limit \in Cutoffs : OpenPurge(limit)
  \/ CommitPurge
  \/ RollbackPurge
  \/ \E expired \in SUBSET Ip : PurgeAlerts(expired)
  \/ Requeue
  \/ Worker
  \/ WaitNextCycle
  \/ Crash

\* A live worker keeps stepping, and a DELETE ends one way or the other.
\* Nothing restarts a dead worker, collects or expires on its own.
Fairness == WF_vars(Worker) /\ WF_vars(CommitPurge)

Spec == Init /\ [][Next]_vars /\ Fairness

-------------------------------------------------------------------------------
(* Properties                                                              *)

\* The registry updated attack by attack (Correlator.process_attack) is what the
\* aggregation query of load_registry would give on the attacks counted so far,
\* across out-of-order arrivals, failures, deletions and restarts.
RegistryIsAggregate == registry = SeenIps(counted)

\* Leaving aside the rows retention has deleted, the registry of a running worker
\* counts each completed attack exactly once and no other: neither an attack that
\* is to be processed again, nor the one that is between its commit and its
\* registration.
CountedOnce ==
  pc \notin {"down", "loading"} =>
    counted \ Deleted = Completed \ {current}

\* The inductive invariant of CountedOnce: what the worker holds at each point of
\* its loop.  The attacks of the batch are rows it claimed and nobody counted yet;
\* only the current one can already be completed, and retention may delete any.
WorkerHolds ==
  /\ pc \in {"down", "loading"} => todo = {} /\ counted = {}
  /\ pc = "idle" => todo = {}
  /\ pc \in {"committed", "failed"} => current \in todo
  /\ pc \notin {"committed", "failed"} => current = NoAttack
  /\ pc = "committed" => status[current] \in {"completed", "deleted"}
  /\ pc = "failed" => status[current] \in {"processing", "completed", "deleted"}
  /\ \A a \in todo \ {current} : status[a] \in {"processing", "deleted"}
  /\ todo \cap counted = {}
  /\ \A a \in counted : status[a] \in {"completed", "deleted"}

\* No attack is left in processing behind a live worker: what the batch in hand
\* does not hold was requeued when the worker started.
NoOrphanInProcessing ==
  pc # "down" => Processing \subseteq todo

\* An alert never reports more hits for a source than attacks of that IP were ever
\* collected from it, however often an attack was processed again.
NoPhantomHits ==
  \A ip \in Ip, s \in Source :
    alerts[ip].sources[s].hits =<
      Cardinality(Group({a \in Attack : status[a] # "absent"}, ip, s))

\* The window of an alert (first_seen_at, last_seen_at, widened by LEAST and
\* GREATEST) covers the windows of all its sources, those it no longer updates
\* included, and its count never exceeds them.
AlertCoversItsSources ==
  \A ip \in Ip : LET alert == alerts[ip] IN
    /\ \A s \in SourcesIn(alert.sources) :
         /\ alert.first =< alert.sources[s].first
         /\ alert.sources[s].last =< alert.last
    /\ alert.distinct =< Cardinality(SourcesIn(alert.sources))

\* An IP none of whose attacks was deleted or waits to be processed has, if it
\* has an alert, exactly the alert its completed attacks call for: nothing that a
\* failure, a lost acknowledgement or a restart did on the way is left in it.
Settled(ip) ==
  \A a \in Attack : IpOf[a] = ip => status[a] \in {"absent", "completed"}

SettledAlertIsExact ==
  \A ip \in Ip :
    Settled(ip) /\ alerts[ip].distinct > 0 =>
      alerts[ip] = UpsertAlert(NoAlert, SeenIps(Completed)[ip])

\* The step that completes an attack leaves an alert that names every source with
\* a completed attack of the same IP, when they are two or more.
CompletionPublishesAlert ==
  [][\A a \in Attack :
       status[a] # "completed" /\ status'[a] = "completed" =>
         LET seen == {SourceOf[b] : b \in {c \in Completed' : IpOf[c] = IpOf[a]}} IN
           Cardinality(seen) > 1 =>
             /\ alerts'[IpOf[a]].distinct >= Cardinality(seen)
             /\ seen \subseteq SourcesIn(alerts'[IpOf[a]].sources)]_vars

\* The worker, with its batches and its memory, its failures and its restarts, next to
\* collection and retention, implements AlertLedger: no commit writes an alert from an
\* attack that is still to be processed, twice from one, or without one that is completed.
Ledger == INSTANCE AlertLedger WITH
  queued <- Pending \cup Processing, completed <- Completed, deleted <- Deleted
ImplementsLedger == Ledger!LedgerSpec

\* An attack in the queue ends up completed, or deleted by retention, unless the
\* worker dies: a failed attack is retried, a skipped one is claimed later.
EveryAttackSettles ==
  \A a \in Attack :
    status[a] \in {"pending", "processing"} ~>
      status[a] \in {"completed", "deleted"} \/ pc = "down"
===============================================================================

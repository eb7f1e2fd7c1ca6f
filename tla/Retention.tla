------------------------------- MODULE Retention -------------------------------
(***************************************************************************)
(* The scheduler's cycle as the retention sees it: RetentionService.run_   *)
(* once lists the active policies, then for each of them deletes what is   *)
(* too old and records how it went, three kinds of transactions that       *)
(* nothing ties together.  Meanwhile the API edits the policies and the    *)
(* correlator refreshes alerts; the attacks come from the collection,      *)
(* which the same process runs between two passes.  Time is in days.       *)
(***************************************************************************)
EXTENDS Integers

CONSTANTS
  Event,       \* attacks a provider may list
  OccurredAt,  \* attacks.occurred_at
  Ip,          \* addresses that may have an alert
  Days,        \* values of retention_days
  Calendar,    \* days between datetime.min and day 0
  MaxTime,     \* bound of the clock
  MaxFaults    \* bound: deletions and recorded successes that fail

ASSUME RetentionAssumption ==
  /\ OccurredAt \in [Event -> Nat]
  /\ Days \subseteq Nat \ {0}
  /\ Calendar \in Nat /\ MaxTime \in Nat /\ MaxFaults \in Nat

Table == {"attacks", "common_ip_alerts"}
Policy == [days : Days, active : BOOLEAN]
Time == 0 .. MaxTime
Never == -1

VARIABLES
  now,      \* the clock
  policy,   \* retention_days and is_active of a table
  report,   \* its last_run_at, and whether last_error is NULL
  attacks,  \* rows of attacks
  alerts,   \* updated_at of the alert of an IP, or Never
  pc,       \* where the scheduler stands
  start,    \* run_timestamp of the pass
  listed,   \* retention_days of the policies the pass listed; 0 for the others
  todo,     \* those that remain to be applied
  table,    \* the one in hand
  edited,   \* history: policies edited since the pass listed them
  faults    \* deletions and recorded successes that failed so far

vars == <<now, policy, report, attacks, alerts, pc, start, listed, todo, table, edited, faults>>
world == <<now, policy, attacks, alerts>>
pass == <<start, listed, todo, table, edited>>

Report == [at : Time \cup {Never}, failed : BOOLEAN]

TypeOK ==
  /\ now \in Time
  /\ policy \in [Table -> Policy]
  /\ report \in [Table -> Report]
  /\ attacks \subseteq Event
  /\ alerts \in [Ip -> Time \cup {Never}]
  /\ pc \in {"down", "cycle", "policy", "delete", "success", "failure"}
  /\ start \in Time
  /\ listed \in [Table -> Days \cup {0}]
  /\ todo \in SUBSET Table
  /\ table \in Table
  /\ edited \in SUBSET Table
  /\ faults \in 0 .. MaxFaults

Init ==
  /\ now = 0
  /\ policy \in [Table -> {p \in Policy : p.active}]
  /\ report = [t \in Table |-> [at |-> Never, failed |-> FALSE]]
  /\ attacks = {}
  /\ alerts = [ip \in Ip |-> Never]
  /\ pc = "down"
  /\ start = 0
  /\ listed = [t \in Table |-> 0]
  /\ todo = {}
  /\ table = "attacks"
  /\ edited = {}
  /\ faults = 0

-------------------------------------------------------------------------------
(* What happens around the pass                                            *)

Tick ==
  /\ now < MaxTime
  /\ now' = now + 1
  /\ UNCHANGED <<policy, report, attacks, alerts, pc, pass, faults>>

\* Mutant: the number of days is not validated.
UpdatePolicyAnyDays(t) ==
  /\ \E d \in Days \cup {0}, on \in BOOLEAN :
       policy' = [policy EXCEPT ![t] = [days |-> d, active |-> on]]
  /\ edited' = IF pc \in {"down", "cycle"} THEN {} ELSE edited \cup {t}
  /\ UNCHANGED <<now, report, attacks, alerts, pc, start, listed, todo, table, faults>>

\* RetentionPolicyService.update_policy
UpdatePolicy(t) ==
  /\ \E p \in Policy : policy' = [policy EXCEPT ![t] = p]
  /\ edited' = IF pc \in {"down", "cycle"} THEN {} ELSE edited \cup {t}
  /\ UNCHANGED <<now, report, attacks, alerts, pc, start, listed, todo, table, faults>>

\* upsert_alert, by the correlator: updated_at = NOW().
UpsertAlert(ip) ==
  /\ alerts' = [alerts EXCEPT ![ip] = now]
  /\ UNCHANGED <<now, policy, report, attacks, pc, pass, faults>>

\* insert_collected_attacks, however far back the window of the collection goes.
Collect(e) ==
  /\ pc = "cycle"
  /\ OccurredAt[e] =< now
  /\ attacks' = attacks \cup {e}
  /\ UNCHANGED <<now, policy, report, alerts, pc, pass, faults>>

-------------------------------------------------------------------------------
(* RetentionService.run_once                                               *)

\* The scheduler starts: check_connection, then the first cycle.
Start ==
  /\ pc = "down"
  /\ pc' = "cycle"
  /\ UNCHANGED <<world, report, pass, faults>>

\* Mutant: a policy whose last run failed is not listed.
BeginPassUnfailed ==
  /\ pc = "cycle"
  /\ start' = now
  /\ listed' = [t \in Table |-> IF policy[t].active /\ ~ report[t].failed THEN policy[t].days ELSE 0]
  /\ todo' = {t \in Table : listed'[t] # 0}
  /\ pc' = "policy"
  /\ UNCHANGED <<world, report, table, edited, faults>>

\* run_timestamp, then list_active_policies.
BeginPass ==
  /\ pc = "cycle"
  /\ start' = now
  /\ listed' = [t \in Table |-> IF policy[t].active THEN policy[t].days ELSE 0]
  /\ todo' = {t \in Table : policy[t].active}
  /\ pc' = "policy"
  /\ UNCHANGED <<world, report, table, edited, faults>>

\* ORDER BY target_table: the attacks come first.
First(t) == t \in todo /\ (t = "attacks" \/ "attacks" \notin todo)

\* The date limit; one before the first day of the calendar raises OverflowError.
Limit == start - listed[table]
OutOfCalendar(t) == start - listed[t] < - Calendar

TakePolicy(t) ==
  /\ pc = "policy"
  /\ First(t)
  /\ ~ OutOfCalendar(t)
  /\ todo' = todo \ {t}
  /\ table' = t
  /\ pc' = "delete"
  /\ UNCHANGED <<world, report, start, listed, edited, faults>>

\* What run_once knew is forgotten when it returns or raises.
Leave ==
  /\ start' = 0
  /\ listed' = [t \in Table |-> 0]
  /\ todo' = {}
  /\ table' = "attacks"
  /\ edited' = {}

\* An exception that leaves run_once leaves run_forever and main: the process ends.
Stop == pc' = "down" /\ Leave

\* The limit is computed outside the try.
LimitOverflows ==
  /\ pc = "policy"
  /\ \E t \in todo : First(t) /\ OutOfCalendar(t)
  /\ Stop
  /\ UNCHANGED <<world, report, faults>>

\* Mutant: rows of the very limit go as well.
DeleteUpToLimit ==
  /\ pc = "delete"
  /\ IF table = "attacks"
       THEN /\ attacks' = {e \in attacks : OccurredAt[e] > Limit}
            /\ UNCHANGED alerts
       ELSE /\ alerts' = [ip \in Ip |-> IF alerts[ip] > Limit THEN alerts[ip] ELSE Never]
            /\ UNCHANGED attacks

\* delete_attacks_before, delete_alerts_before
Delete ==
  /\ pc = "delete"
  /\ IF table = "attacks"
       THEN /\ attacks' = {e \in attacks : OccurredAt[e] >= Limit}
            /\ UNCHANGED alerts
       ELSE /\ alerts' = [ip \in Ip |-> IF alerts[ip] >= Limit THEN alerts[ip] ELSE Never]
            /\ UNCHANGED attacks

DeleteExpired ==
  /\ Delete
  /\ pc' = "success"
  /\ UNCHANGED <<now, policy, report, pass, faults>>

Fault == faults < MaxFaults /\ faults' = faults + 1

\* The rows are gone but commit() raises.
DeleteUnacknowledged ==
  /\ Delete
  /\ Fault
  /\ pc' = "failure"
  /\ UNCHANGED <<now, policy, report, pass>>

\* Mutant: a deletion that fails counts as one of no row.
DeleteRaisesUnnoticed ==
  /\ pc = "delete"
  /\ Fault
  /\ pc' = "success"
  /\ UNCHANGED <<world, report, pass>>

\* target_table_exists or the deletion raises.
DeleteRaises ==
  /\ pc = "delete"
  /\ Fault
  /\ pc' = "failure"
  /\ UNCHANGED <<world, report, pass>>

Record(failed) == report' = [report EXCEPT ![table] = [at |-> start, failed |-> failed]]
NextPolicy ==
  /\ pc' = "policy"
  /\ table' = "attacks"
  /\ UNCHANGED <<start, listed, todo, edited>>

\* mark_run_success
MarkSuccess ==
  /\ pc = "success"
  /\ Record(FALSE)
  /\ NextPolicy
  /\ UNCHANGED <<world, faults>>

\* It raises, its UPDATE committed or not.
MarkSuccessRaises ==
  /\ pc = "success"
  /\ Fault
  /\ Record(FALSE) \/ UNCHANGED report
  /\ pc' = "failure"
  /\ UNCHANGED <<world, pass>>

\* mark_run_failure
MarkFailure ==
  /\ pc = "failure"
  /\ Record(TRUE)
  /\ NextPolicy
  /\ UNCHANGED <<world, faults>>

\* Mutant: a failure that cannot be recorded is logged, and the pass goes on.
MarkFailureRaisesUnnoticed ==
  /\ pc = "failure"
  /\ Record(TRUE) \/ UNCHANGED report
  /\ NextPolicy
  /\ UNCHANGED <<world, faults>>

\* mark_run_failure is in no try either; it may fail after any other fault.
MarkFailureRaises ==
  /\ pc = "failure"
  /\ Record(TRUE) \/ UNCHANGED report
  /\ Stop
  /\ UNCHANGED <<world, faults>>

EndPass ==
  /\ pc = "policy"
  /\ todo = {}
  /\ pc' = "cycle"
  /\ Leave
  /\ UNCHANGED <<world, report, faults>>

\* Killed, or an exception of the rest of the cycle, or of list_active_policies.
Crash ==
  /\ pc # "down"
  /\ Stop
  /\ UNCHANGED <<world, report, faults>>

-------------------------------------------------------------------------------
Worker ==
  \/ BeginPass
  \/ \E t \in Table : TakePolicy(t)
  \/ LimitOverflows
  \/ DeleteExpired
  \/ MarkSuccess
  \/ MarkFailure
  \/ EndPass

Next ==
  \/ Tick
  \/ \E t \in Table : UpdatePolicy(t)
  \/ \E ip \in Ip : UpsertAlert(ip)
  \/ \E e \in Event : Collect(e)
  \/ Start
  \/ Worker
  \/ DeleteUnacknowledged \/ DeleteRaises \/ MarkSuccessRaises \/ MarkFailureRaises
  \/ Crash

\* A live scheduler keeps stepping: the collection and the sleep end, and database
\* calls return or raise.  Nothing restarts a dead one.
Spec == Init /\ [][Next]_vars /\ WF_vars(Worker)

-------------------------------------------------------------------------------
(* Properties                                                              *)

\* The rows of a table with the date the retention looks at.
Rows(t) == IF t = "attacks"
             THEN {<<e, OccurredAt[e]>> : e \in attacks}
             ELSE {<<ip, alerts[ip]>> : ip \in {i \in Ip : alerts[i] # Never}}

\* A run recorded without error left no row older than the limit it had computed,
\* whatever the correlator and the API did since the deletion.
SuccessLeavesNothingExpired ==
  [][\A t \in Table :
       report'[t] # report[t] /\ ~ report'[t].failed =>
         \A row \in Rows(t)' : row[2] >= start - listed[t]]_vars

\* Unless the policy was edited during the pass, what is deleted is too old by the
\* policy in force: an inactive policy deletes nothing, a fresh row stays.  An alert
\* refreshed by the correlator is no longer the row that was too old.
DeletesExpiredOnly ==
  [][\A t \in Table \ edited :
       \A row \in Rows(t) \ Rows(t)' :
         \/ row[2] < now - policy[t].days /\ policy[t].active
         \/ t = "common_ip_alerts" /\ alerts'[row[1]] = now]_vars

\* A pass that comes to its end has recorded a run for each policy it listed: a
\* policy that fails neither hides its failure nor prevents the next one.
PassReportsEveryPolicy ==
  [][pc = "policy" /\ pc' = "cycle" =>
       \A t \in Table : listed[t] # 0 => report[t].at = start]_vars

\* Whatever is too old by an active policy goes, unless the policy is changed or
\* the scheduler dies, even when earlier passes failed.
Expired(t, row) ==
  /\ policy[t].active
  /\ row \in Rows(t)
  /\ row[2] < now - policy[t].days
ExpiredGoes ==
  /\ \A e \in Event : LET row == <<e, OccurredAt[e]>> IN
       Expired("attacks", row) ~> ~ Expired("attacks", row) \/ pc = "down"
  /\ \A ip \in Ip, d \in Time : LET row == <<ip, d>> IN
       Expired("common_ip_alerts", row) ~> ~ Expired("common_ip_alerts", row) \/ pc = "down"
===============================================================================

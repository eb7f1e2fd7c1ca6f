---------------------------- MODULE RetentionProofs ----------------------------
(***************************************************************************)
(* Safety of the retention for any attacks, addresses, values of           *)
(* retention_days, calendar, clock bound and number of faults.             *)
(***************************************************************************)
EXTENDS Retention, TLAPS

InPass == pc \in {"policy", "delete", "success", "failure"}

\* The pass reads the past, and what it listed of an unedited policy still holds.
ListingInv ==
  /\ start =< now
  /\ InPass => /\ \A t \in Table \ edited :
                    listed[t] = IF policy[t].active THEN policy[t].days ELSE 0
               /\ \A t \in todo : listed[t] # 0
  /\ pc = "delete" => listed[table] # 0

\* Between the deletion and its record nothing too old comes back.
DeletedInv ==
  pc = "success" =>
    /\ table = "attacks" => \A e \in attacks : OccurredAt[e] >= Limit
    /\ table = "common_ip_alerts" =>
         \A ip \in Ip : alerts[ip] # Never => alerts[ip] >= Limit

\* A listed policy waits, is in hand, or has been reported.
ReportInv ==
  InPass => \A t \in Table :
    \/ listed[t] = 0 \/ t \in todo \/ report[t].at = start
    \/ t = table /\ pc # "policy"

IInv == TypeOK /\ ListingInv /\ DeletedInv /\ ReportInv

-------------------------------------------------------------------------------
(* Type correctness.                                                       *)

LEMMA InitTypeOK == Init => TypeOK
<1>1. 0 \in Time
  BY RetentionAssumption DEF Time
<1>2. ASSUME policy \in [Table -> {p \in Policy : p.active}]
      PROVE  policy \in [Table -> Policy]
  BY <1>2
<1>. QED  BY <1>1, <1>2, RetentionAssumption DEF Init, TypeOK, Report, Table, Never

LEMMA LeaveType ==
  ASSUME Leave
  PROVE  /\ start' \in Time /\ listed' \in [Table -> Days \cup {0}]
         /\ todo' \in SUBSET Table /\ table' \in Table /\ edited' \in SUBSET Table
BY RetentionAssumption DEF Leave, Time, Table

LEMMA RecordType ==
  ASSUME TypeOK, NEW failed \in BOOLEAN, Record(failed)
  PROVE  report' \in [Table -> Report]
BY DEF TypeOK, Record, Report

LEMMA DeleteType ==
  ASSUME TypeOK, Delete
  PROVE  attacks' \subseteq Event /\ alerts' \in [Ip -> Time \cup {Never}]
<1>1. CASE table = "attacks"
  BY <1>1 DEF TypeOK, Delete
<1>2. CASE table # "attacks"
  BY <1>2 DEF TypeOK, Delete
<1>. QED  BY <1>1, <1>2

LEMMA NextTypeOK == TypeOK /\ [Next]_vars => TypeOK'
<1>. SUFFICES ASSUME TypeOK, [Next]_vars PROVE TypeOK'
  OBVIOUS
<1>1. CASE Tick
  <2>1. now' \in Time
    BY <1>1, RetentionAssumption DEF Tick, TypeOK, Time
  <2>. QED  BY <1>1, <2>1 DEF Tick, TypeOK, pass
<1>2. ASSUME NEW t \in Table, UpdatePolicy(t) PROVE TypeOK'
  <2>1. policy' \in [Table -> Policy] /\ edited' \in SUBSET Table
    BY <1>2 DEF UpdatePolicy, TypeOK
  <2>. QED  BY <1>2, <2>1 DEF UpdatePolicy, TypeOK
<1>3. ASSUME NEW ip \in Ip, UpsertAlert(ip) PROVE TypeOK'
  BY <1>3 DEF UpsertAlert, TypeOK, pass
<1>4. ASSUME NEW e \in Event, Collect(e) PROVE TypeOK'
  BY <1>4 DEF Collect, TypeOK, pass
<1>5. CASE Start
  BY <1>5 DEF Start, TypeOK, world, pass
<1>6. CASE BeginPass
  <2>1. listed' \in [Table -> Days \cup {0}]
    BY <1>6 DEF BeginPass, TypeOK, Policy
  <2>2. todo' \in SUBSET Table /\ start' \in Time
    BY <1>6 DEF BeginPass, TypeOK
  <2>. QED  BY <1>6, <2>1, <2>2 DEF BeginPass, TypeOK, world
<1>7. ASSUME NEW t \in Table, TakePolicy(t) PROVE TypeOK'
  BY <1>7 DEF TakePolicy, TypeOK, world
<1>8. CASE LimitOverflows
  BY <1>8, LeaveType DEF LimitOverflows, Stop, TypeOK, world
<1>9. CASE DeleteExpired
  BY <1>9, DeleteType DEF DeleteExpired, TypeOK, pass
<1>10. CASE MarkSuccess
  BY <1>10, RecordType DEF MarkSuccess, NextPolicy, TypeOK, world, Table
<1>11. CASE MarkFailure
  BY <1>11, RecordType DEF MarkFailure, NextPolicy, TypeOK, world, Table
<1>12. CASE EndPass
  BY <1>12, LeaveType DEF EndPass, TypeOK, world
<1>13. CASE DeleteUnacknowledged
  <2>1. faults' \in 0 .. MaxFaults
    BY <1>13, RetentionAssumption DEF DeleteUnacknowledged, Fault, TypeOK
  <2>. QED  BY <1>13, <2>1, DeleteType DEF DeleteUnacknowledged, TypeOK, pass
<1>14. CASE DeleteRaises
  <2>1. faults' \in 0 .. MaxFaults
    BY <1>14, RetentionAssumption DEF DeleteRaises, Fault, TypeOK
  <2>. QED  BY <1>14, <2>1 DEF DeleteRaises, TypeOK, world, pass
<1>15. CASE MarkSuccessRaises
  <2>1. faults' \in 0 .. MaxFaults
    BY <1>15, RetentionAssumption DEF MarkSuccessRaises, Fault, TypeOK
  <2>2. report' \in [Table -> Report]
    BY <1>15, RecordType DEF MarkSuccessRaises, TypeOK
  <2>. QED  BY <1>15, <2>1, <2>2 DEF MarkSuccessRaises, TypeOK, world, pass
<1>16. CASE MarkFailureRaises
  <2>1. report' \in [Table -> Report]
    BY <1>16, RecordType DEF MarkFailureRaises, TypeOK
  <2>. QED  BY <1>16, <2>1, LeaveType DEF MarkFailureRaises, Stop, TypeOK, world
<1>17. CASE Crash
  BY <1>17, LeaveType DEF Crash, Stop, TypeOK, world
<1>18. CASE UNCHANGED vars
  BY <1>18 DEF vars, TypeOK
<1>. QED
  BY <1>1, <1>2, <1>3, <1>4, <1>5, <1>6, <1>7, <1>8, <1>9, <1>10, <1>11, <1>12, <1>13,
     <1>14, <1>15, <1>16, <1>17, <1>18 DEF Next, Worker

\* The types hold in every reachable state: the clock, the policies and their reports,
\* the rows of both tables and what run_once remembers of its pass.
THEOREM TypeCorrect == Spec => []TypeOK
BY InitTypeOK, NextTypeOK, PTL DEF Spec

-------------------------------------------------------------------------------
(* The inductive invariant.                                                *)

LEMMA InitIInv == Init => IInv
<1>1. Init => ListingInv /\ DeletedInv /\ ReportInv
  BY DEF Init, ListingInv, DeletedInv, ReportInv, InPass
<1>. QED  BY <1>1, InitTypeOK DEF IInv

\* Out of a pass there is nothing to say but that 0 is in the past.
LEMMA LeaveKeeps ==
  ASSUME IInv, Leave, pc' \in {"down", "cycle"}, now' = now
  PROVE  ListingInv' /\ DeletedInv' /\ ReportInv'
<1>1. ~ InPass' /\ pc' # "delete" /\ pc' # "success"
  BY DEF InPass
<1>2. start' =< now'
  BY DEF IInv, TypeOK, Time, Leave
<1>. QED  BY <1>1, <1>2 DEF ListingInv, DeletedInv, ReportInv

LEMMA RecordKeeps ==
  ASSUME IInv, pc \in {"success", "failure"}, NEW failed \in BOOLEAN, Record(failed),
         NextPolicy, UNCHANGED world
  PROVE  ListingInv' /\ DeletedInv' /\ ReportInv'
<1>. USE DEF NextPolicy, world
<1>1. ListingInv'
  BY DEF IInv, ListingInv, InPass
<1>2. DeletedInv'
  BY DEF DeletedInv
<1>3. ReportInv'
  <2>1. /\ table \in Table /\ report'[table].at = start
        /\ \A t \in Table : t # table => report'[t] = report[t]
    BY DEF IInv, TypeOK, Record
  <2>. QED  BY <2>1 DEF IInv, ReportInv, InPass
<1>. QED  BY <1>1, <1>2, <1>3

LEMMA UpdatePolicyKeeps ==
  ASSUME IInv, NEW t \in Table, UpdatePolicy(t)
  PROVE  ListingInv' /\ DeletedInv' /\ ReportInv'
<1>1. ListingInv'
  <2>1. CASE InPass
    <3>1. \A u \in Table \ edited' : u \notin edited /\ policy'[u] = policy[u]
      BY <2>1 DEF UpdatePolicy, InPass, IInv, TypeOK
    <3>. QED  BY <2>1, <3>1 DEF UpdatePolicy, IInv, ListingInv, InPass
  <2>2. CASE ~ InPass
    BY <2>2 DEF UpdatePolicy, IInv, ListingInv, InPass
  <2>. QED  BY <2>1, <2>2
<1>2. DeletedInv' /\ ReportInv'
  BY DEF UpdatePolicy, IInv, DeletedInv, ReportInv, InPass, Limit
<1>. QED  BY <1>1, <1>2

LEMMA ListedType ==
  ASSUME TypeOK
  PROVE  table \in Table /\ \A t \in Table : listed[t] \in Nat
<1>1. Days \cup {0} \subseteq Nat
  BY RetentionAssumption
<1>. QED  BY <1>1 DEF TypeOK

LEMMA UpsertAlertKeeps ==
  ASSUME IInv, NEW ip \in Ip, UpsertAlert(ip)
  PROVE  ListingInv' /\ DeletedInv' /\ ReportInv'
<1>1. ListingInv' /\ ReportInv'
  BY DEF UpsertAlert, pass, IInv, ListingInv, ReportInv, InPass
<1>2. ASSUME pc = "success", table = "common_ip_alerts", NEW i \in Ip, alerts'[i] # Never
      PROVE  alerts'[i] >= Limit
  <2>1. CASE i = ip
    <3>1. alerts'[i] = now
      BY <2>1 DEF UpsertAlert, IInv, TypeOK
    <3>2. now \in Nat /\ start \in Nat /\ start =< now
      BY RetentionAssumption DEF IInv, TypeOK, Time, ListingInv
    <3>3. listed[table] \in Nat
      BY ListedType DEF IInv
    <3>. QED  BY <3>1, <3>2, <3>3 DEF Limit
  <2>2. CASE i # ip
    BY <1>2, <2>2 DEF UpsertAlert, IInv, TypeOK, DeletedInv
  <2>. QED  BY <2>1, <2>2
<1>3. DeletedInv'
  BY <1>2 DEF UpsertAlert, pass, IInv, DeletedInv, Limit
<1>. QED  BY <1>1, <1>3

LEMMA BeginPassKeeps ==
  ASSUME IInv, BeginPass
  PROVE  ListingInv' /\ DeletedInv' /\ ReportInv'
<1>1. now \in Nat /\ start' = now /\ now' = now
  BY DEF BeginPass, world, IInv, TypeOK, Time
<1>2. \A t \in Table : policy[t].active => policy[t].days # 0
  BY RetentionAssumption DEF IInv, TypeOK, Policy
<1>3. /\ \A t \in Table : listed'[t] = IF policy'[t].active THEN policy'[t].days ELSE 0
      /\ \A t \in todo' : t \in Table /\ listed'[t] # 0
      /\ \A t \in Table : listed'[t] = 0 \/ t \in todo'
  BY <1>2 DEF BeginPass, world
<1>4. pc' = "policy"
  BY DEF BeginPass
<1>. QED  BY <1>1, <1>3, <1>4 DEF ListingInv, DeletedInv, ReportInv

LEMMA TakePolicyKeeps ==
  ASSUME IInv, NEW t \in Table, TakePolicy(t)
  PROVE  ListingInv' /\ DeletedInv' /\ ReportInv'
<1>1. ListingInv'
  BY DEF TakePolicy, First, world, IInv, ListingInv, InPass
<1>2. DeletedInv'
  BY DEF TakePolicy, DeletedInv
<1>3. ReportInv'
  BY DEF TakePolicy, IInv, ReportInv, InPass
<1>. QED  BY <1>1, <1>2, <1>3

\* What the deletion leaves, whether or not it is acknowledged.
LEMMA DeleteKeeps ==
  ASSUME IInv, Delete, pc' \in {"success", "failure"},
         UNCHANGED <<now, policy, report, pass>>
  PROVE  ListingInv' /\ DeletedInv' /\ ReportInv'
<1>. USE DEF pass
<1>1. ListingInv' /\ ReportInv'
  BY DEF Delete, IInv, ListingInv, ReportInv, InPass
<1>2. CASE table = "attacks"
  BY <1>1, <1>2 DEF Delete, DeletedInv, Limit
<1>3. CASE table # "attacks"
  <2>1. \A ip \in Ip : alerts'[ip] # Never => alerts'[ip] >= Limit
    BY <1>3 DEF Delete
  <2>. QED  BY <1>1, <1>3, <2>1 DEF DeletedInv, Limit
<1>. QED  BY <1>1, <1>2, <1>3 DEF DeletedInv

LEMMA NextIInv == IInv /\ [Next]_vars => IInv'
<1>. SUFFICES ASSUME IInv, [Next]_vars PROVE ListingInv' /\ DeletedInv' /\ ReportInv'
  BY NextTypeOK DEF IInv
<1>1. CASE Tick
  <2>1. now \in Nat /\ start \in Nat /\ now' = now + 1
    BY <1>1 DEF Tick, IInv, TypeOK, Time
  <2>. QED  BY <1>1, <2>1 DEF Tick, pass, IInv, ListingInv, DeletedInv, ReportInv, InPass, Limit
<1>2. ASSUME NEW t \in Table, UpdatePolicy(t) PROVE ListingInv' /\ DeletedInv' /\ ReportInv'
  BY <1>2, UpdatePolicyKeeps
<1>3. ASSUME NEW ip \in Ip, UpsertAlert(ip) PROVE ListingInv' /\ DeletedInv' /\ ReportInv'
  BY <1>3, UpsertAlertKeeps
<1>4. ASSUME NEW e \in Event, Collect(e) PROVE ListingInv' /\ DeletedInv' /\ ReportInv'
  BY <1>4 DEF Collect, pass, IInv, ListingInv, DeletedInv, ReportInv, InPass
<1>5. CASE Start
  BY <1>5 DEF Start, world, pass, IInv, ListingInv, DeletedInv, ReportInv, InPass
<1>6. CASE BeginPass
  BY <1>6, BeginPassKeeps
<1>7. ASSUME NEW t \in Table, TakePolicy(t) PROVE ListingInv' /\ DeletedInv' /\ ReportInv'
  BY <1>7, TakePolicyKeeps
<1>8. CASE LimitOverflows
  BY <1>8, LeaveKeeps DEF LimitOverflows, Stop, world
<1>9. CASE DeleteExpired
  BY <1>9, DeleteKeeps DEF DeleteExpired
<1>10. CASE MarkSuccess
  BY <1>10, RecordKeeps DEF MarkSuccess
<1>11. CASE MarkFailure
  BY <1>11, RecordKeeps DEF MarkFailure
<1>12. CASE EndPass
  BY <1>12, LeaveKeeps DEF EndPass, world
<1>13. CASE DeleteUnacknowledged
  BY <1>13, DeleteKeeps DEF DeleteUnacknowledged
<1>14. CASE DeleteRaises
  BY <1>14 DEF DeleteRaises, world, pass, IInv, ListingInv, DeletedInv, ReportInv, InPass
<1>15. CASE MarkSuccessRaises
  <2>1. ListingInv' /\ DeletedInv'
    BY <1>15 DEF MarkSuccessRaises, world, pass, IInv, ListingInv, DeletedInv, InPass
  <2>2. \A t \in Table : t # table => report'[t] = report[t]
    BY <1>15 DEF MarkSuccessRaises, Record, IInv, TypeOK
  <2>3. ReportInv'
    BY <1>15, <2>2 DEF MarkSuccessRaises, pass, IInv, ReportInv, InPass
  <2>. QED  BY <2>1, <2>3
<1>16. CASE MarkFailureRaises
  BY <1>16, LeaveKeeps DEF MarkFailureRaises, Stop, world
<1>17. CASE Crash
  BY <1>17, LeaveKeeps DEF Crash, Stop, world
<1>18. CASE UNCHANGED vars
  BY <1>18 DEF vars, IInv, ListingInv, DeletedInv, ReportInv, InPass, Limit
<1>. QED
  BY <1>1, <1>2, <1>3, <1>4, <1>5, <1>6, <1>7, <1>8, <1>9, <1>10, <1>11, <1>12, <1>13,
     <1>14, <1>15, <1>16, <1>17, <1>18 DEF Next, Worker

LEMMA Invariance == Spec => []IInv
BY InitIInv, NextIInv, PTL DEF Spec

-------------------------------------------------------------------------------
(* The properties.                                                         *)

\* mark_run_success is only reached with rows that are young enough: a run recorded
\* without error left no row older than the limit it had computed, whatever the
\* correlator and the API did since the deletion.
THEOREM SuccessCorrect == Spec => SuccessLeavesNothingExpired
<1>. DEFINE Claim ==
       \A t \in Table :
         report'[t] # report[t] /\ ~ report'[t].failed =>
           \A row \in Rows(t)' : row[2] >= start - listed[t]
<1>1. IInv /\ [Next]_vars => [Claim]_vars
  <2>. SUFFICES ASSUME IInv, Next, NEW t \in Table,
                       report'[t] # report[t], ~ report'[t].failed
                PROVE  \A row \in Rows(t)' : row[2] >= start - listed[t]
    OBVIOUS
  <2>1. report' # report
    OBVIOUS
  <2>2. MarkSuccess \/ MarkSuccessRaises \/ MarkFailure \/ MarkFailureRaises
    BY <2>1 DEF Next, Worker, Tick, UpdatePolicy, UpsertAlert, Collect, Start, BeginPass,
       TakePolicy, LimitOverflows, DeleteExpired, EndPass, DeleteUnacknowledged,
       DeleteRaises, Crash
  <2>3. /\ pc \in {"success", "failure"} /\ UNCHANGED world
        /\ \/ Record(FALSE) /\ pc = "success"
           \/ Record(TRUE)
    BY <2>1, <2>2 DEF MarkSuccess, MarkSuccessRaises, MarkFailure, MarkFailureRaises
  <2>4. pc = "success" /\ t = table
    <3>1. \A failed \in BOOLEAN : Record(failed) => t = table /\ report'[t].failed = failed
      BY DEF Record, IInv, TypeOK
    <3>. QED  BY <2>3, <3>1
  <2>5. CASE t = "attacks"
    <3>1. \A e \in attacks : OccurredAt[e] >= start - listed[t]
      BY <2>4, <2>5 DEF IInv, DeletedInv, Limit
    <3>2. Rows(t)' = {<<e, OccurredAt[e]>> : e \in attacks}
      BY <2>3, <2>5 DEF Rows, world
    <3>. QED  BY <3>1, <3>2
  <2>6. CASE t = "common_ip_alerts"
    <3>1. \A ip \in Ip : alerts[ip] # Never => alerts[ip] >= start - listed[t]
      BY <2>4, <2>6 DEF IInv, DeletedInv, Limit
    <3>2. Rows(t)' = {<<ip, alerts[ip]>> : ip \in {i \in Ip : alerts[i] # Never}}
      BY <2>3, <2>6 DEF Rows, world
    <3>. QED  BY <3>1, <3>2
  <2>. QED  BY <2>5, <2>6 DEF Table
<1>. QED  BY <1>1, Invariance, PTL DEF Spec, SuccessLeavesNothingExpired

\* A row that leaves a table whose policy was not edited during the pass is too old by
\* the active policy in force, or is an alert the correlator has just refreshed.
THEOREM DeletionCorrect == Spec => DeletesExpiredOnly
<1>. DEFINE Claim ==
       \A t \in Table \ edited :
         \A row \in Rows(t) \ Rows(t)' :
           \/ row[2] < now - policy[t].days /\ policy[t].active
           \/ t = "common_ip_alerts" /\ alerts'[row[1]] = now
<1>1. IInv /\ [Next]_vars => [Claim]_vars
  <2>. SUFFICES ASSUME IInv, Next, NEW t \in Table \ edited, NEW row \in Rows(t) \ Rows(t)'
                PROVE  \/ row[2] < now - policy[t].days /\ policy[t].active
                       \/ t = "common_ip_alerts" /\ alerts'[row[1]] = now
    OBVIOUS
  <2>1. \/ DeleteExpired \/ DeleteUnacknowledged
        \/ \E ip \in Ip : UpsertAlert(ip)
        \/ \E e \in Event : Collect(e)
        \/ UNCHANGED <<attacks, alerts>>
    BY DEF Next, Worker, Tick, UpdatePolicy, Start, BeginPass, TakePolicy, LimitOverflows,
       MarkSuccess, MarkFailure, EndPass, DeleteRaises, MarkSuccessRaises,
       MarkFailureRaises, Crash, world
  <2>2. CASE UNCHANGED <<attacks, alerts>>
    BY <2>2 DEF Rows
  <2>3. ASSUME NEW e \in Event, Collect(e) PROVE FALSE
    <3>1. attacks \subseteq attacks' /\ alerts' = alerts
      BY <2>3 DEF Collect
    <3>. QED  BY <3>1 DEF Rows
  <2>4. ASSUME NEW ip \in Ip, UpsertAlert(ip)
        PROVE  t = "common_ip_alerts" /\ alerts'[row[1]] = now
    <3>1. t = "common_ip_alerts"
      BY <2>4 DEF UpsertAlert, Rows, Table
    <3>2. PICK i \in Ip : alerts[i] # Never /\ row = <<i, alerts[i]>>
      BY <3>1 DEF Rows
    <3>3. i = ip
      <4>1. CASE i # ip
        <5>1. alerts'[i] = alerts[i]
          BY <2>4, <4>1 DEF UpsertAlert, IInv, TypeOK
        <5>. QED  BY <3>1, <3>2, <5>1 DEF Rows
      <4>. QED  BY <4>1
    <3>4. alerts'[i] = now
      BY <2>4, <3>3 DEF UpsertAlert, IInv, TypeOK
    <3>. QED  BY <3>1, <3>2, <3>4
  <2>5. CASE Delete
    <3>1. pc = "delete"
      BY <2>5 DEF Delete
    <3>2. t = table /\ row[2] \in Nat /\ ~ row[2] >= Limit
      <4>1. CASE table = "attacks"
        <5>1. attacks' = {e \in attacks : OccurredAt[e] >= Limit} /\ alerts' = alerts
          BY <2>5, <4>1 DEF Delete
        <5>2. t = "attacks"
          BY <5>1 DEF Rows, Table
        <5>3. PICK e \in attacks : row = <<e, OccurredAt[e]>>
          BY <5>2 DEF Rows
        <5>4. ~ OccurredAt[e] >= Limit
          BY <5>1, <5>2, <5>3 DEF Rows
        <5>5. OccurredAt[e] \in Nat
          BY RetentionAssumption DEF IInv, TypeOK
        <5>. QED  BY <4>1, <5>2, <5>3, <5>4, <5>5
      <4>2. CASE table # "attacks"
        <5>1. /\ alerts' = [ip \in Ip |-> IF alerts[ip] >= Limit THEN alerts[ip] ELSE Never]
              /\ attacks' = attacks
          BY <2>5, <4>2 DEF Delete
        <5>2. t = "common_ip_alerts" /\ table = "common_ip_alerts"
          BY <4>2, <5>1 DEF Rows, Table, IInv, TypeOK
        <5>3. PICK i \in Ip : alerts[i] # Never /\ row = <<i, alerts[i]>>
          BY <5>2 DEF Rows
        <5>4. ~ alerts[i] >= Limit
          <6>1. CASE alerts[i] >= Limit
            <7>1. alerts'[i] = alerts[i]
              BY <5>1, <6>1
            <7>. QED  BY <5>2, <5>3, <7>1 DEF Rows
          <6>. QED  BY <6>1
        <5>5. alerts[i] \in Nat
          BY <5>3 DEF IInv, TypeOK, Time
        <5>. QED  BY <5>2, <5>3, <5>4, <5>5
      <4>. QED  BY <4>1, <4>2
    <3>3. policy[t].active /\ listed[t] = policy[t].days
      BY <3>1, <3>2 DEF IInv, ListingInv, InPass
    <3>4. listed[t] \in Nat
      BY ListedType DEF IInv
    <3>5. start \in Nat /\ now \in Nat /\ start =< now
      BY DEF IInv, TypeOK, Time, ListingInv
    <3>. QED  BY <3>2, <3>3, <3>4, <3>5 DEF Limit
  <2>. QED
    BY <2>1, <2>2, <2>3, <2>4, <2>5 DEF DeleteExpired, DeleteUnacknowledged
<1>. QED  BY <1>1, Invariance, PTL DEF Spec, DeletesExpiredOnly

\* When run_once returns, each policy it listed carries a run of this pass: a policy
\* that fails neither hides its failure nor prevents the next one.
THEOREM ReportCorrect == Spec => PassReportsEveryPolicy
<1>. DEFINE Claim ==
       pc = "policy" /\ pc' = "cycle" =>
         \A t \in Table : listed[t] # 0 => report[t].at = start
<1>1. IInv /\ [Next]_vars => [Claim]_vars
  <2>. SUFFICES ASSUME IInv, Next, pc = "policy", pc' = "cycle"
                PROVE  \A t \in Table : listed[t] # 0 => report[t].at = start
    OBVIOUS
  <2>1. todo = {}
    BY DEF Next, Worker, Tick, UpdatePolicy, UpsertAlert, Collect, Start, BeginPass,
       TakePolicy, LimitOverflows, Stop, DeleteExpired, Delete, MarkSuccess, MarkFailure,
       EndPass, DeleteUnacknowledged, DeleteRaises, MarkSuccessRaises,
       MarkFailureRaises, Crash
  <2>. QED  BY <2>1 DEF IInv, ReportInv, InPass
<1>. QED  BY <1>1, Invariance, PTL DEF Spec, PassReportsEveryPolicy
===============================================================================

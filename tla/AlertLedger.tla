------------------------------ MODULE AlertLedger ------------------------------
(***************************************************************************)
(* What the IP correlator promises: a queue of attacks, and an alert for   *)
(* an IP that is only ever written, whole, from the attacks completed at   *)
(* that instant, as one aggregation query would give them.  There are no   *)
(* batches, no registry in memory, no crash and no restart.                *)
(*                                                                         *)
(* The one thing it leaves open is what retention deletes: a deleted       *)
(* attack may still count, or not.                                         *)
(***************************************************************************)
EXTENDS SeenIpRegistry

VARIABLES
  queued,      \* attacks to be correlated
  completed,   \* attacks correlated
  deleted,     \* attacks that retention deleted, of either
  alerts       \* common_ip_alerts and common_ip_alert_sources, by IP

ledger == <<queued, completed, deleted, alerts>>

LedgerInit ==
  /\ queued = {} /\ completed = {} /\ deleted = {}
  /\ alerts = [ip \in Ip |-> NoAlert]

\* A collector inserts an attack.
Enqueue(a) ==
  /\ a \notin queued \cup completed \cup deleted
  /\ queued' = queued \cup {a}
  /\ UNCHANGED <<completed, deleted, alerts>>

\* The alert of an IP is written from the completed attacks, and some deleted ones.
Publish(ip, late) ==
  alerts' = [alerts EXCEPT ![ip] = UpdateAlert(@, SeenIps(completed' \cup late)[ip])]

\* An attack is correlated: from then on it counts, once.
Complete(a) ==
  /\ a \in queued
  /\ queued' = queued \ {a}
  /\ completed' = completed \cup {a}
  /\ UNCHANGED deleted
  /\ \E late \in SUBSET deleted : Publish(IpOf[a], late)

\* An attack is deleted before it is correlated, and is counted this once all the same.
CompleteDeleted(a) ==
  /\ a \in deleted
  /\ UNCHANGED <<queued, completed, deleted>>
  /\ \E late \in SUBSET deleted : a \in late /\ Publish(IpOf[a], late)

\* The outcome of a transaction is unknown: the attack is to be correlated again.
Retry(a) ==
  /\ a \in completed
  /\ completed' = completed \ {a}
  /\ queued' = queued \cup {a}
  /\ UNCHANGED <<deleted, alerts>>

\* Retention deletes attacks, and alerts with their sources.
DeleteAttacks ==
  /\ deleted \subseteq deleted' /\ deleted' \subseteq queued \cup completed \cup deleted
  /\ queued' = queued \ deleted'
  /\ completed' = completed \ deleted'
  /\ UNCHANGED alerts

DeleteAlerts(expired) ==
  /\ UNCHANGED <<queued, completed, deleted>>
  /\ alerts' = [ip \in Ip |-> IF ip \in expired THEN NoAlert ELSE alerts[ip]]

LedgerNext ==
  \/ DeleteAttacks
  \/ \E expired \in SUBSET Ip : DeleteAlerts(expired)
  \/ \E a \in Attack : Enqueue(a) \/ Complete(a) \/ CompleteDeleted(a) \/ Retry(a)

LedgerSpec == LedgerInit /\ [][LedgerNext]_ledger
===============================================================================

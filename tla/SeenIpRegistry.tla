---------------------------- MODULE SeenIpRegistry ----------------------------
(***************************************************************************)
(* The data the IP correlator reasons about: the rows of table attacks and *)
(* the summaries the correlator keeps of them, one per (IP, source).       *)
(* Everything here is a constant-level operator; module Correlator gives   *)
(* the registry and the tables their life.                                 *)
(*                                                                         *)
(* An attack is named by its primary key attacks.id; what the row says is  *)
(* fixed when it is inserted, hence the constant functions IpOf, SourceOf  *)
(* and OccurredAt.  IPs are already normalised (IpAddress.normalize).      *)
(***************************************************************************)
EXTENDS Naturals, FiniteSets, FiniteSetsExt

CONSTANTS
  Attack,      \* ids of the attacks that may ever be collected
  Ip,          \* attacker addresses
  Source,      \* ids of the sources (sensors) that report attacks
  IpOf,        \* attacks.attacker_ip
  SourceOf,    \* attacks.source_id
  OccurredAt   \* attacks.occurred_at

Instants == {OccurredAt[a] : a \in Attack}

ASSUME AttackAssumption ==
  /\ Attack \subseteq Nat \ {0}
  /\ IsFiniteSet(Attack)
  /\ IpOf \in [Attack -> Ip]
  /\ SourceOf \in [Attack -> Source]
  /\ OccurredAt \in [Attack -> Nat]

ASSUME SourceAssumption == IsFiniteSet(Source)

(***************************************************************************)
(* CommonIpAlertSource: first and last sighting and number of hits.  The   *)
(* summary with no hit stands for a source that has no entry in the dict   *)
(* (or no row in common_ip_alert_sources).                                 *)
(***************************************************************************)
NoHit == [first |-> 0, last |-> 0, hits |-> 0]
Sighting == [first : Instants, last : Instants, hits : Nat \ {0}]
Summary == Sighting \cup {NoHit}

SourcesIn(summaries) == {s \in Source : summaries[s].hits > 0}

Lesser(x, y) == IF x =< y THEN x ELSE y
Greater(x, y) == IF x =< y THEN y ELSE x

\* Mutant: the last sighting is the latest to arrive, not the latest to occur.
IntegrateInArrivalOrder(summary, t) ==
  IF summary.hits = 0
    THEN [first |-> t, last |-> t, hits |-> 1]
    ELSE [first |-> summary.first, last |-> t, hits |-> summary.hits + 1]

\* Mutant: the first hit of a source does not set first_seen_at.
IntegrateForgetsFirst(summary, t) ==
  IF summary.hits = 0
    THEN [first |-> 0, last |-> t, hits |-> 1]
    ELSE [first |-> Lesser(summary.first, t),
          last  |-> Greater(summary.last, t),
          hits  |-> summary.hits + 1]

\* One more attack in a summary (register_source, preview_source_summaries).
Integrate(summary, t) ==
  IF summary.hits = 0
    THEN [first |-> t, last |-> t, hits |-> 1]
    ELSE [first |-> Lesser(summary.first, t),
          last  |-> Greater(summary.last, t),
          hits  |-> summary.hits + 1]

\* The summaries of one IP once attack a is integrated.
Preview(summaries, a) ==
  [summaries EXCEPT ![SourceOf[a]] = Integrate(@, OccurredAt[a])]

\* The rows of a set A of attacks that fall in the group (ip, s).
Group(A, ip, s) == {a \in A : IpOf[a] = ip /\ SourceOf[a] = s}

InstantsOf(A) == {OccurredAt[a] : a \in A}

\* MIN(occurred_at), MAX(occurred_at), COUNT(*) over a set of rows.
Aggregate(A) ==
  IF A = {}
    THEN NoHit
    ELSE [first |-> Min(InstantsOf(A)),
          last  |-> Max(InstantsOf(A)),
          hits  |-> Cardinality(A)]

\* The registry seeded from the aggregation of the rows A by IP and source.
SeenIps(A) == [ip \in Ip |-> [s \in Source |-> Aggregate(Group(A, ip, s))]]

\* ORDER BY occurred_at, id
Earlier(a, b) ==
  \/ OccurredAt[a] < OccurredAt[b]
  \/ OccurredAt[a] = OccurredAt[b] /\ a < b

(***************************************************************************)
(* A row of common_ip_alerts with its rows of common_ip_alert_sources.     *)
(* distinct = 0 stands for an IP that has no alert.                        *)
(***************************************************************************)
Alert == [first : Nat, last : Nat, distinct : Nat, sources : [Source -> Summary]]
NoAlert == [first |-> 0, last |-> 0, distinct |-> 0,
            sources |-> [s \in Source |-> NoHit]]

FirstSeen(summaries) == Min({summaries[s].first : s \in SourcesIn(summaries)})
LastSeen(summaries) == Max({summaries[s].last : s \in SourcesIn(summaries)})

\* Mutant: the hits are added to the row instead of replacing it.
UpsertSourcesAdds(rows, summaries) ==
  [s \in Source |->
     IF summaries[s].hits > 0
       THEN [summaries[s] EXCEPT !.hits = @ + rows[s].hits]
       ELSE rows[s]]

\* upsert_alert_source, once per projected summary: the association takes the
\* projected values, an association the projection does not name keeps its own.
UpsertSources(rows, summaries) ==
  [s \in Source |-> IF summaries[s].hits > 0 THEN summaries[s] ELSE rows[s]]

\* Mutant: the window is replaced instead of widened.
UpsertAlertReplaces(alert, summaries) ==
  [first |-> FirstSeen(summaries),
   last  |-> LastSeen(summaries),
   distinct |-> Cardinality(SourcesIn(summaries)),
   sources  |-> UpsertSources(alert.sources, summaries)]

\* upsert_alert: insert, or widen the window and replace the count.
UpsertAlert(alert, summaries) ==
  [first |-> IF alert.distinct = 0 THEN FirstSeen(summaries)
             ELSE Lesser(alert.first, FirstSeen(summaries)),
   last  |-> IF alert.distinct = 0 THEN LastSeen(summaries)
             ELSE Greater(alert.last, LastSeen(summaries)),
   distinct |-> Cardinality(SourcesIn(summaries)),
   sources  |-> UpsertSources(alert.sources, summaries)]

\* update_alerts: only an IP seen by two sources or more is worth an alert.
UpdateAlert(alert, summaries) ==
  IF Cardinality(SourcesIn(summaries)) > 1
    THEN UpsertAlert(alert, summaries)
    ELSE alert
===============================================================================

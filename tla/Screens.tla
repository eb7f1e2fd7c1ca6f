-------------------------------- MODULE Screens --------------------------------
(***************************************************************************)
(* The read-only requests of the dashboard: the lists of attacks and of    *)
(* alerts, page by page, the statistics, and the topology.  Each of them   *)
(* takes several transactions (fetch_one and fetch_all open one each),     *)
(* with the writes of the collection, of the correlator and of the         *)
(* retention in between.                                                   *)
(*                                                                         *)
(* A behaviour is about one screen, and a write to the table that it does  *)
(* not read is left out.  The sources stay as they are, so that a filter   *)
(* on a type of sensor or of attack is one on the sources.                 *)
(***************************************************************************)
EXTENDS SeenIpRegistry, Integers

CONSTANTS
  AddressOf,   \* the rank of an IP in the order of the addresses
  DayOf,       \* the day of an instant in Paris
  SeenBy,      \* bound: the sets of sources that the correlator may know an IP by
  SeenAt,      \* bound: the instants it may have been last seen at
  PageSize,    \* page_size, limit
  NoLimit,     \* a request without alert_limit
  Filter       \* sources, from, to, min_distinct_source_count and alert_limit of a request

ASSUME ScreensAssumption ==
  /\ AddressOf \in [Ip -> Nat] /\ \A i, j \in Ip : AddressOf[i] = AddressOf[j] => i = j
  /\ DayOf \in [Instants -> Nat] /\ \A t, u \in Instants : t =< u => DayOf[t] =< DayOf[u]
  /\ SeenAt \subseteq Instants
  /\ \A seen \in SeenBy : seen \subseteq Source /\ Cardinality(seen) > 1
  /\ PageSize \in 1 .. 100

ASSUME FilterAssumption ==
  /\ NoLimit \notin 1 .. 500
  /\ \A f \in Filter : /\ f.sources \subseteq Source /\ f.least \in Nat \ {0}
                       /\ f.from \in Instants /\ f.to \in Instants /\ f.from =< f.to
                       /\ f.limit \in 1 .. 500 \cup {NoLimit}

VARIABLES
  screen,    \* what is looked at: "attacks", "alerts", "statistics" or "topology"
  stored,    \* table attacks, by id: "absent", "stored" or "deleted"
  listed,    \* common_ip_alerts with the sources of each, by IP
  request    \* the request in progress, by its next step, or the last one ("shown")

screens == <<screen, stored, listed, request>>

Absent == [distinct |-> 0, last |-> 0, sources |-> {}]
NoRequest == [at |-> "shown"]

Present == {a \in Attack : stored[a] = "stored"}

ScreensInit ==
  /\ screen \in {"attacks", "alerts", "statistics", "topology"}
  /\ stored = [a \in Attack |-> "absent"]
  /\ listed = [ip \in Ip |-> Absent]
  /\ request = NoRequest

-------------------------------------------------------------------------------
(* The lists                                                               *)

\* The attacks of a period.
Between(f) == {a \in Present : OccurredAt[a] \in f.from .. f.to}

\* WHERE of list_attacks and of count_attacks.
MatchingAttacks(f) == {a \in Between(f) : SourceOf[a] \in f.sources}

\* WHERE of list_common_ip_alerts and of count_common_ip_alerts.
MatchingAlerts(f) ==
  {ip \in Ip : /\ listed[ip].distinct >= f.least
               /\ listed[ip].sources \cap f.sources # {}
               /\ listed[ip].last \in f.from .. f.to}

Rows(f) == IF screen = "attacks" THEN MatchingAttacks(f) ELSE MatchingAlerts(f)

\* Mutant: the oldest attack first.
OldestAttackFirst(a, b) ==
  \/ OccurredAt[a] < OccurredAt[b]
  \/ OccurredAt[a] = OccurredAt[b] /\ a < b

\* ORDER BY a.occurred_at DESC, a.id DESC
AttackBefore(a, b) ==
  \/ OccurredAt[a] > OccurredAt[b]
  \/ OccurredAt[a] = OccurredAt[b] /\ a > b

\* ORDER BY a.distinct_source_count DESC, a.last_seen_at DESC, a.attacker_ip ASC
AlertBefore(i, j) ==
  \/ listed[i].distinct > listed[j].distinct
  \/ /\ listed[i].distinct = listed[j].distinct
     /\ listed[i].last > listed[j].last \/ (listed[i].last = listed[j].last /\ AddressOf[i] < AddressOf[j])

Before(q, r) == IF screen = "attacks" THEN AttackBefore(q, r) ELSE AlertBefore(q, r)

\* The rows of a list ahead of row r.
Ahead(f, r) == {q \in Rows(f) : Before(q, r)}

\* Pagination
Offset(page) == (page - 1) * PageSize
TotalPages(total) == (total + PageSize - 1) \div PageSize

\* LIMIT page_size OFFSET (page - 1) * page_size
Page(f, page) ==
  {r \in Rows(f) : Cardinality(Ahead(f, r))
                     \in Offset(page) .. (Offset(page) + PageSize - 1)}

-------------------------------------------------------------------------------
(* The topology                                                            *)

\* selected_alerts of get_topology, which each of its queries computes again.
Candidates(f) == {ip \in Ip : listed[ip].distinct >= f.least /\ listed[ip].sources # {}}
Selected(f) ==
  IF f.limit = NoLimit THEN Candidates(f)
  ELSE {i \in Candidates(f) :
          Cardinality({j \in Candidates(f) : AlertBefore(j, i)}) < f.limit}

LinksOf(alerts) == {link \in alerts \X Source : link[2] \in listed[link[1]].sources}
Links(f) == LinksOf(Selected(f))

CountsOf(links) ==
  [s \in {link[2] : link \in links} |-> Cardinality({link \in links : link[2] = s})]

\* Mutant: the alerts beyond the limit count too.
AlertCountsOfAll(f) == CountsOf(LinksOf(Candidates(f)))

\* source_alert_counts, the sources without a selected alert being left out.
AlertCounts(f) == CountsOf(Links(f))

-------------------------------------------------------------------------------
(* The writers                                                             *)

\* A row that is in the list all along and, as far as alerts go, behind no row that left
\* it or fell behind.
StaysOwed(f, row) ==
  /\ row \in Rows(f)'
  /\ screen = "attacks" \/ Ahead(f, row) \subseteq Ahead(f, row)'

\* The history of a request as others write: what a list owes, and whether a row got
\* ahead of one that it owes since the count of the page; by how much the rows of the
\* statistics changed since their total; whether the selection of a topology changed.
\* What was shown is forgotten.
Observe ==
  \/ request.at = "shown" /\ request' = NoRequest
  \/ /\ request.at \in {"count", "list"}
     /\ \E f \in {request.filter} : request' =
          [request EXCEPT
            !.owed = {row \in @ : StaysOwed(f, row)},
            !.pushed = @ \/ \E row \in request.owed :
                              StaysOwed(f, row) /\ ~ Ahead(f, row)' \subseteq Ahead(f, row)]
  \/ /\ request.at = "rows"
     /\ \E f \in {request.filter} : request' =
          [request EXCEPT !.drift = @ + Cardinality(Between(f)') - Cardinality(Between(f))]
  \/ /\ request.at \in {"alerts", "links"}
     /\ \E f \in {request.filter} : request' =
          [request EXCEPT !.torn = @ \/ Links(f)' # Links(f)]

\* insert_collected_attacks: ids are given in the order of the insertions.
Insert(batch) ==
  /\ screen \in {"attacks", "statistics"}
  /\ batch # {}
  /\ \A a \in batch : \A b \in Attack : b >= a => stored[b] = "absent"
  /\ stored' = [a \in Attack |-> IF a \in batch THEN "stored" ELSE stored[a]]
  /\ UNCHANGED <<screen, listed>>
  /\ Observe

\* delete_attacks_before
DeleteAttacks(limit) ==
  /\ \E a \in Present : OccurredAt[a] < limit
  /\ stored' = [a \in Attack |-> IF a \in Present /\ OccurredAt[a] < limit THEN "deleted" ELSE stored[a]]
  /\ UNCHANGED <<screen, listed>>
  /\ Observe

\* Correlator.update_alerts: the sources that the registry knows of for the IP replace the
\* count, join those of the alert, and only widen its window.
RefreshAlert(ip, seen, at) ==
  /\ screen \in {"alerts", "topology"}
  /\ listed' = [listed EXCEPT ![ip] = [distinct |-> Cardinality(seen), last |-> IF @.last > at THEN @.last ELSE at,
                                       sources |-> @.sources \cup seen]]
  /\ UNCHANGED <<screen, stored>>
  /\ Observe

\* delete_alerts_before, by updated_at.
DeleteAlerts(expired) ==
  /\ expired # {}
  /\ \A ip \in expired : listed[ip] # Absent
  /\ listed' = [ip \in Ip |-> IF ip \in expired THEN Absent ELSE listed[ip]]
  /\ UNCHANGED <<screen, stored>>
  /\ Observe

-------------------------------------------------------------------------------
(* The requests                                                            *)

OnlyRequest == UNCHANGED <<screen, stored, listed>>

\* The first page of a list is asked for, ...
OpenList(f) ==
  /\ screen \in {"attacks", "alerts"} /\ request.at = "shown"
  /\ request' = [at |-> "count", filter |-> f, page |-> 1, total |-> 0, served |-> {},
                 owed |-> Rows(f), pushed |-> FALSE]
  /\ OnlyRequest

\* ... count_attacks, count_common_ip_alerts: the total is counted, ...
Count ==
  /\ request.at = "count"
  /\ request' = [request EXCEPT !.at = "list", !.total = Cardinality(Rows(request.filter)),
                                !.pushed = FALSE]
  /\ OnlyRequest

\* ... list_attacks, list_common_ip_alerts: the page is read; the next one is asked for as
\* long as total_pages says that there is one.
ListPage ==
  /\ request.at = "list"
  /\ request' = [request EXCEPT
       !.served = @ \cup Page(request.filter, request.page),
       !.at = IF request.page < TotalPages(request.total) THEN "count" ELSE "shown",
       !.page = @ + (IF request.page < TotalPages(request.total) THEN 1 ELSE 0)]
  /\ OnlyRequest

\* get_attack_total_between
ReadTotal(f) ==
  /\ screen = "statistics" /\ request.at = "shown"
  /\ request' = [at |-> "rows", filter |-> f, drift |-> 0, total |-> Cardinality(Between(f))]
  /\ OnlyRequest

\* Mutant: without the day that is not over.
WholeDays(f) == DayOf[f.from] .. (DayOf[f.to] - 1)

\* _build_daily_bucket_starts
Days(f) == DayOf[f.from] .. DayOf[f.to]

\* get_attack_timeseries_by_source, and get_attack_distribution_by_source that has no days:
\* for each source with an attack, how many; and in which of the days of the request.
ReadSeries ==
  /\ request.at = "rows"
  /\ \E rows \in {Between(request.filter)}, days \in {Days(request.filter)} :
       LET From(s) == {a \in rows : SourceOf[a] = s} IN
       request' = [at |-> "shown", total |-> request.total, drift |-> request.drift,
         series |-> [s \in {SourceOf[a] : a \in rows} |->
           [count |-> Cardinality(From(s)),
            data |-> [d \in days |-> Cardinality({a \in From(s) : DayOf[OccurredAt[a]] = d})]]]]
  /\ OnlyRequest

\* get_topology, after the query of the collectors: the sources with their alert_count, ...
ReadSources(f) ==
  /\ screen = "topology" /\ request.at = "shown"
  /\ request' = [at |-> "alerts", filter |-> f, torn |-> FALSE, counts |-> AlertCounts(f)]
  /\ OnlyRequest

\* ... the alerts, ...
ReadAlerts ==
  /\ request.at = "alerts"
  /\ request' = [at |-> "links", filter |-> request.filter, torn |-> request.torn,
                 counts |-> request.counts, alerts |-> Selected(request.filter)]
  /\ OnlyRequest

\* ... and the links.
ReadLinks ==
  /\ request.at = "links"
  /\ request' = [at |-> "shown", filter |-> request.filter, torn |-> request.torn,
                 counts |-> request.counts, alerts |-> request.alerts, links |-> Links(request.filter)]
  /\ OnlyRequest

ScreensNext ==
  \/ \E batch \in SUBSET Attack : Insert(batch)
  \/ \E limit \in Instants : DeleteAttacks(limit)
  \/ \E ip \in Ip, seen \in SeenBy, at \in SeenAt : RefreshAlert(ip, seen, at)
  \/ \E expired \in SUBSET Ip : DeleteAlerts(expired)
  \/ \E f \in Filter : OpenList(f) \/ ReadTotal(f) \/ ReadSources(f)
  \/ Count \/ ListPage \/ ReadSeries \/ ReadAlerts \/ ReadLinks

ScreensSpec == ScreensInit /\ [][ScreensNext]_screens

-------------------------------------------------------------------------------
(* Properties                                                              *)

\* A walk over all pages shows every attack that is in the list all along, whatever is
\* inserted or purged meanwhile, and every alert that no row ahead of it leaves behind;
\* unless a row gets ahead of it between the count and the list of the last page.
WalkOmitsNothing ==
  request.at = "shown" /\ "owed" \in DOMAIN request /\ ~ request.pushed =>
    request.owed \subseteq request.served

\* The total of the statistics and the sum of their parts differ by what came and went
\* between the two reads, and every attack of a series is in one of its days.
StatisticsAddUp ==
  request.at = "shown" /\ "series" \in DOMAIN request =>
    LET series == request.series IN
    /\ SumFunction([s \in DOMAIN series |-> series[s].count]) = request.total + request.drift
    /\ \A s \in DOMAIN series : SumFunction(series[s].data) = series[s].count

\* A topology is a graph: its links join its sources and its alerts, no alert is without
\* one, a source has as many as it counts; unless the selection changed meanwhile.  It
\* never has more alerts than asked for.
TopologyIsGraph ==
  request.at = "shown" /\ "links" \in DOMAIN request =>
    /\ request.filter.limit # NoLimit => Cardinality(request.alerts) =< request.filter.limit
    /\ ~ request.torn =>
         /\ {link[1] : link \in request.links} = request.alerts
         /\ {link[2] : link \in request.links} = DOMAIN request.counts
         /\ \A s \in DOMAIN request.counts :
              request.counts[s] = Cardinality({link \in request.links : link[2] = s})
===============================================================================

----------------------------- MODULE ScreensProofs -----------------------------
(***************************************************************************)
(* What holds of Screens for any finite set of attacks, any number of IPs, *)
(* and any sizes of a page and of a topology: the walk over the pages of a *)
(* list, the graph, and the sums of the statistics.                        *)
(***************************************************************************)
EXTENDS Screens, FiniteSetTheorems, TLAPS

\* The alerts that a list may show: finitely many, since each was refreshed.
Listed == {ip \in Ip : listed[ip] # Absent}
Alerts == [distinct : Nat, last : Nat, sources : SUBSET Source]

TablesOK ==
  /\ screen \in {"attacks", "alerts", "statistics", "topology"}
  /\ stored \in [Attack -> {"absent", "stored", "deleted"}]
  /\ listed \in [Ip -> Alerts]
  /\ IsFiniteSet(Listed)

\* The fields of a request at each of its steps.
RequestOK ==
  /\ request.at \in {"count", "list"} =>
       /\ request = [at |-> request.at, filter |-> request.filter, page |-> request.page,
                     total |-> request.total, served |-> request.served,
                     owed |-> request.owed, pushed |-> request.pushed]
       /\ screen \in {"attacks", "alerts"}
       /\ request.page \in Nat \ {0} /\ request.total \in Nat /\ request.pushed \in BOOLEAN
  /\ request.at = "rows" =>
       request = [at |-> "rows", filter |-> request.filter, drift |-> request.drift,
                  total |-> request.total]
  /\ request.at = "alerts" =>
       request = [at |-> "alerts", filter |-> request.filter, torn |-> request.torn,
                  counts |-> request.counts]
  /\ request.at = "links" =>
       request = [at |-> "links", filter |-> request.filter, torn |-> request.torn,
                  counts |-> request.counts, alerts |-> request.alerts]
  /\ request.at \in {"alerts", "links"} => request.torn \in BOOLEAN
  /\ request.at \in {"count", "list", "rows", "alerts", "links"} => request.filter \in Filter
  /\ request.at \in {"shown", "count", "list", "rows", "alerts", "links"}

Rank(f, row) == Cardinality(Ahead(f, row))

\* What a walk has still to serve lies at or behind the page at hand; and before the
\* last page is read it lies within the total, unless a row got ahead of it.
WalkInv ==
  request.at \in {"count", "list"} =>
    /\ request.owed \subseteq Rows(request.filter)
    /\ \A row \in request.owed \ request.served :
         Offset(request.page) =< Rank(request.filter, row)
    /\ request.at = "list" /\ ~ request.pushed =>
         \A row \in request.owed : Rank(request.filter, row) < request.total

\* LIMIT alert_limit, if there is one.
Bounded(f, alerts) == f.limit # NoLimit => Cardinality(alerts) =< f.limit

\* What a topology has read is what it would read now, unless the selection changed.
GraphInv ==
  /\ request.at \in {"alerts", "links"} /\ ~ request.torn =>
       request.counts = AlertCounts(request.filter)
  /\ request.at = "links" => Bounded(request.filter, request.alerts)
  /\ request.at = "links" /\ ~ request.torn =>
       request.alerts = {link[1] : link \in Links(request.filter)}

IInv ==
  /\ TablesOK
  /\ RequestOK
  /\ WalkInv
  /\ GraphInv
  /\ WalkOmitsNothing
  /\ TopologyIsGraph

-------------------------------------------------------------------------------
(* Ranks and pages                                                         *)

LEMMA FilterType ==
  ASSUME NEW f \in Filter
  PROVE  f.least \in Nat \ {0}
BY FilterAssumption

LEMMA RowsFinite ==
  ASSUME TablesOK, NEW f \in Filter
  PROVE  IsFiniteSet(Rows(f)) /\ Cardinality(Rows(f)) \in Nat
<1>1. IsFiniteSet(MatchingAttacks(f))
  BY AttackAssumption, FS_Subset DEF MatchingAttacks, Between, Present
<1>2. MatchingAlerts(f) \subseteq Listed
  BY FilterType DEF MatchingAlerts, Listed, Absent
<1>3. IsFiniteSet(MatchingAlerts(f))
  BY <1>2, FS_Subset DEF TablesOK
<1>. QED
  BY <1>1, <1>3, FS_CardinalityType DEF Rows

LEMMA RankType ==
  ASSUME TablesOK, NEW f \in Filter, NEW row
  PROVE  IsFiniteSet(Ahead(f, row)) /\ Rank(f, row) \in Nat
<1>1. IsFiniteSet(Ahead(f, row))
  BY RowsFinite, FS_Subset DEF Ahead
<1>. QED
  BY <1>1, FS_CardinalityType DEF Rank

AheadIsFinite == \A f \in Filter : \A row : IsFiniteSet(Ahead(f, row))

LEMMA AheadFinite == TablesOK => AheadIsFinite
BY RankType DEF AheadIsFinite

LEMMA AheadFiniteNext == TablesOK' => AheadIsFinite'
BY AheadFinite, PTL

\* No row is ahead of itself.
LEMMA NotAheadOfItself ==
  ASSUME TablesOK, NEW f \in Filter, NEW row \in Rows(f)
  PROVE  row \notin Ahead(f, row)
<1>1. CASE screen = "attacks"
  <2>1. row \in Attack
    BY <1>1 DEF Rows, MatchingAttacks, Between, Present
  <2>. QED
    BY <1>1, <2>1, AttackAssumption DEF Ahead, Before, AttackBefore
<1>2. CASE screen # "attacks"
  <2>1. row \in Ip
    BY <1>2 DEF Rows, MatchingAlerts
  <2>2. listed[row].distinct \in Nat /\ listed[row].last \in Nat /\ AddressOf[row] \in Nat
    BY <2>1, ScreensAssumption DEF TablesOK, Alerts
  <2>. QED
    BY <1>2, <2>2 DEF Ahead, Before, AlertBefore
<1>. QED
  BY <1>1, <1>2

\* A row of a list comes before the total.
LEMMA RankBelowTotal ==
  ASSUME TablesOK, NEW f \in Filter, NEW row \in Rows(f)
  PROVE  Rank(f, row) < Cardinality(Rows(f))
<1>1. Ahead(f, row) \subseteq Rows(f) /\ Ahead(f, row) # Rows(f)
  BY NotAheadOfItself DEF Ahead
<1>2. Cardinality(Ahead(f, row)) =< Cardinality(Rows(f))
      /\ Cardinality(Ahead(f, row)) # Cardinality(Rows(f))
  BY <1>1, RowsFinite, FS_Subset
<1>. QED
  BY <1>2, RankType, RowsFinite DEF Rank

\* The next page begins where the last one ends.
LEMMA NextOffset ==
  ASSUME NEW page \in Nat \ {0}
  PROVE  /\ Offset(page) \in Nat /\ Offset(page + 1) = Offset(page) + PageSize
         /\ PageSize \in Nat \ {0} /\ Offset(1) = 0
<1>1. PageSize \in Nat \ {0}
  BY ScreensAssumption
<1>2. \A n \in Nat : n * PageSize \in Nat /\ (n + 1) * PageSize = n * PageSize + PageSize
  BY <1>1
<1>3. page - 1 \in Nat /\ (page + 1) - 1 = (page - 1) + 1
  OBVIOUS
<1>4. (1 - 1) * PageSize = 0
  BY <1>1
<1>. QED
  BY <1>1, <1>2, <1>3, <1>4 DEF Offset

\* The pages that total_pages counts hold the whole total.
LEMMA PagesHoldTotal ==
  ASSUME NEW total \in Nat, NEW page \in Nat \ {0}, ~ (page < TotalPages(total))
  PROVE  total =< Offset(page) + PageSize
<1>1. PageSize \in Nat \ {0}
  BY ScreensAssumption
<1>. DEFINE q == (total + PageSize - 1) \div PageSize
<1>2. q \in Nat /\ total + PageSize - 1 < q * PageSize + PageSize
  BY <1>1
<1>3. q =< page
  BY <1>2 DEF TotalPages
<1>4. \A m, n \in Nat : m =< n => m * PageSize =< n * PageSize
  BY <1>1
<1>5. q * PageSize =< page * PageSize
  BY <1>2, <1>3, <1>4
<1>6. page * PageSize = Offset(page) + PageSize /\ page * PageSize \in Nat
  <2>1. page * PageSize = (page - 1) * PageSize + PageSize
    BY <1>1
  <2>. QED
    BY <1>1, <2>1 DEF Offset
<1>. QED
  BY <1>1, <1>2, <1>5, <1>6

-------------------------------------------------------------------------------
(* The writers                                                             *)

Write ==
  \/ \E batch \in SUBSET Attack : Insert(batch)
  \/ \E limit \in Instants : DeleteAttacks(limit)
  \/ \E ip \in Ip, seen \in SeenBy, at \in SeenAt : RefreshAlert(ip, seen, at)
  \/ \E expired \in SUBSET Ip : DeleteAlerts(expired)

\* Of the attacks, a row that stays keeps those ahead of it: a purge takes the oldest,
\* and an insertion takes none away.
StaysBehind ==
  screen = "attacks" =>
    \A f \in Filter : \A row \in Rows(f) :
      row \in Rows(f)' => Ahead(f, row) \subseteq Ahead(f, row)'

LEMMA RefreshTables ==
  ASSUME TablesOK, NEW ip \in Ip, NEW seen \in SeenBy, NEW at \in SeenAt, RefreshAlert(ip, seen, at)
  PROVE  listed' \in [Ip -> Alerts] /\ IsFiniteSet(Listed')
<1>. DEFINE alert == [distinct |-> Cardinality(seen),
                      last |-> IF listed[ip].last > at THEN listed[ip].last ELSE at,
                      sources |-> listed[ip].sources \cup seen]
<1>1. seen \subseteq Source /\ Cardinality(seen) \in Nat
  BY ScreensAssumption, SourceAssumption, FS_Subset, FS_CardinalityType
<1>2. at \in Nat
  BY ScreensAssumption, AttackAssumption DEF Instants
<1>3. alert \in Alerts
  BY <1>1, <1>2 DEF TablesOK, Alerts
<1>4. listed' = [listed EXCEPT ![ip] = alert]
  BY DEF RefreshAlert
<1>. HIDE DEF alert
<1>5. listed' \in [Ip -> Alerts] /\ Listed' \subseteq Listed \cup {ip}
  BY <1>3, <1>4 DEF TablesOK, Listed
<1>6. IsFiniteSet(Listed \cup {ip})
  BY FS_AddElement DEF TablesOK
<1>. QED
  BY <1>5, <1>6, FS_Subset

LEMMA WriteTables ==
  ASSUME TablesOK, Write
  PROVE  TablesOK' /\ screen' = screen /\ Observe /\ StaysBehind
<1>2. ASSUME NEW batch \in SUBSET Attack, Insert(batch)
      PROVE  TablesOK' /\ screen' = screen /\ Observe /\ StaysBehind
  <2>1. /\ stored' = [a \in Attack |-> IF a \in batch THEN "stored" ELSE stored[a]]
        /\ UNCHANGED <<screen, listed>> /\ Observe
    BY <1>2 DEF Insert
  <2>2. TablesOK'
    BY <2>1 DEF TablesOK, Listed
  <2>3. Present \subseteq Present'
    BY <2>1 DEF Present
  <2>4. StaysBehind
    BY <2>1, <2>3 DEF StaysBehind, Rows, MatchingAttacks, Between, Ahead, Before, AttackBefore
  <2>. QED
    BY <2>1, <2>2, <2>4
<1>3. ASSUME NEW limit \in Instants, DeleteAttacks(limit)
      PROVE  TablesOK' /\ screen' = screen /\ Observe /\ StaysBehind
  <2>1. /\ stored' = [a \in Attack |-> IF a \in Present /\ OccurredAt[a] < limit
                                          THEN "deleted" ELSE stored[a]]
        /\ UNCHANGED <<screen, listed>> /\ Observe
    BY <1>3 DEF DeleteAttacks
  <2>2. TablesOK'
    BY <2>1 DEF TablesOK, Listed
  <2>3. Present' = {a \in Present : ~ (OccurredAt[a] < limit)}
    BY <2>1 DEF Present
  <2>4. StaysBehind
    <3>. SUFFICES ASSUME screen = "attacks", NEW f \in Filter, NEW row \in Rows(f),
                         row \in Rows(f)', NEW q \in Ahead(f, row)
                  PROVE  q \in Ahead(f, row)'
      BY DEF StaysBehind
    <3>1. /\ q \in MatchingAttacks(f) /\ AttackBefore(q, row) /\ row \in MatchingAttacks(f)'
          /\ q \in Attack /\ row \in Attack
      BY <2>1 DEF Ahead, Rows, Before, MatchingAttacks, Between, Present
    <3>2. OccurredAt[q] \in Nat /\ OccurredAt[row] \in Nat /\ limit \in Nat
          /\ OccurredAt[q] >= OccurredAt[row] /\ ~ (OccurredAt[row] < limit)
      BY <2>3, <3>1, AttackAssumption DEF AttackBefore, MatchingAttacks, Between, Instants
    <3>3. q \in Present'
      BY <2>3, <3>1, <3>2 DEF MatchingAttacks, Between
    <3>4. q \in MatchingAttacks(f)'
      BY <3>1, <3>3 DEF MatchingAttacks, Between
    <3>. QED
      BY <2>1, <3>1, <3>4 DEF Ahead, Rows, Before, AttackBefore
  <2>. QED
    BY <2>1, <2>2, <2>4
<1>4. ASSUME NEW ip \in Ip, NEW seen \in SeenBy, NEW at \in SeenAt, RefreshAlert(ip, seen, at)
      PROVE  TablesOK' /\ screen' = screen /\ Observe /\ StaysBehind
  <2>1. UNCHANGED <<screen, stored>> /\ Observe /\ screen # "attacks"
    BY <1>4 DEF RefreshAlert
  <2>2. TablesOK'
    BY <1>4, <2>1, RefreshTables DEF TablesOK
  <2>. QED
    BY <2>1, <2>2 DEF StaysBehind
<1>5. ASSUME NEW expired \in SUBSET Ip, DeleteAlerts(expired)
      PROVE  TablesOK' /\ screen' = screen /\ Observe /\ StaysBehind
  <2>1. UNCHANGED <<screen, stored>> /\ Observe
        /\ listed' = [ip \in Ip |-> IF ip \in expired THEN Absent ELSE listed[ip]]
    BY <1>5 DEF DeleteAlerts
  <2>2. Absent \in Alerts
    BY DEF Absent, Alerts
  <2>3. listed' \in [Ip -> Alerts] /\ Listed' \subseteq Listed
    BY <2>1, <2>2 DEF TablesOK, Listed
  <2>4. TablesOK'
    BY <2>1, <2>3, FS_Subset DEF TablesOK
  <2>5. StaysBehind
    BY <2>1 DEF StaysBehind, Rows, MatchingAttacks, Between, Present, Ahead, Before, AttackBefore
  <2>. QED
    BY <2>1, <2>4, <2>5
<1>. QED
  BY <1>2, <1>3, <1>4, <1>5 DEF Write

\* A request in progress while others write.
LEMMA ObserveKeepsWalk ==
  ASSUME TablesOK, TablesOK', RequestOK, WalkInv, screen' = screen, StaysBehind, Observe,
         request.at \in {"count", "list"}
  PROVE  RequestOK' /\ WalkInv' /\ request'.at = request.at
<1>1. PICK at, f, page, total, served, owed, pushed :
        /\ request.at = at /\ request.filter = f /\ request.page = page /\ request.total = total
        /\ request.served = served /\ request.owed = owed /\ request.pushed = pushed
  OBVIOUS
<1>2. /\ request = [at |-> at, filter |-> f, page |-> page, total |-> total, served |-> served,
                    owed |-> owed, pushed |-> pushed]
      /\ at \in {"count", "list"} /\ f \in Filter /\ page \in Nat \ {0} /\ total \in Nat
      /\ pushed \in BOOLEAN
  BY <1>1 DEF RequestOK
<1>. DEFINE left == {row \in owed : StaysOwed(f, row)}
            gained == \E row \in owed :
                        StaysOwed(f, row) /\ ~ Ahead(f, row)' \subseteq Ahead(f, row)
<1>3. screen \in {"attacks", "alerts"}
  BY DEF RequestOK
<1>4. request' = [at |-> at, filter |-> f, page |-> page, total |-> total, served |-> served,
                  owed |-> left, pushed |-> pushed \/ gained]
  <2>1. \E g \in {request.filter} : request' =
          [request EXCEPT
            !.owed = {row \in @ : StaysOwed(g, row)},
            !.pushed = @ \/ \E row \in request.owed :
                              StaysOwed(g, row) /\ ~ Ahead(g, row)' \subseteq Ahead(g, row)]
    BY DEF Observe
  <2>2. request' =
          [request EXCEPT
            !.owed = {row \in @ : StaysOwed(f, row)},
            !.pushed = @ \/ \E row \in request.owed :
                              StaysOwed(f, row) /\ ~ Ahead(f, row)' \subseteq Ahead(f, row)]
    BY <1>1, <1>2, <2>1
  <2>3. request' = [request EXCEPT !.owed = left, !.pushed = pushed \/ gained]
    BY <1>1, <1>2, <2>2
  <2>. HIDE DEF left, gained
  <2>. QED
    BY <1>2, <2>3
<1>5. ASSUME NEW row \in left
      PROVE  /\ row \in Rows(f)' /\ row \in owed
             /\ Rank(f, row) =< Rank(f, row)'
             /\ Rank(f, row) \in Nat /\ Rank(f, row)' \in Nat
             /\ ~ gained => Rank(f, row)' = Rank(f, row)
  <2>1. row \in Rows(f) /\ row \in Rows(f)' /\ row \in owed
    BY <1>1, <1>2 DEF WalkInv, StaysOwed
  <2>2. Ahead(f, row) \subseteq Ahead(f, row)'
    <3>1. CASE screen = "attacks"
      BY <1>2, <2>1, <3>1 DEF StaysBehind
    <3>2. CASE screen # "attacks"
      BY <3>2 DEF StaysOwed
    <3>. QED
      BY <3>1, <3>2
  <2>3. IsFiniteSet(Ahead(f, row)')
    BY <1>2, AheadFiniteNext DEF AheadIsFinite
  <2>4. Rank(f, row) =< Rank(f, row)' /\ Rank(f, row)' \in Nat /\ Rank(f, row) \in Nat
    BY <2>2, <2>3, FS_Subset, FS_CardinalityType, RankType DEF Rank
  <2>5. ASSUME ~ gained  PROVE Rank(f, row)' = Rank(f, row)
    <3>1. Ahead(f, row)' \subseteq Ahead(f, row)
      BY <2>1, <2>5
    <3>2. Ahead(f, row)' = Ahead(f, row)
      BY <2>2, <3>1
    <3>. QED
      BY <3>2 DEF Rank
  <2>. QED
    BY <2>1, <2>4, <2>5
<1>6. gained \in BOOLEAN /\ (pushed \/ gained) \in BOOLEAN
  OBVIOUS
<1>. HIDE DEF left, gained
<1>7. /\ request'.at = at /\ request'.filter = f /\ request'.page = page /\ request'.total = total
      /\ request'.served = served /\ request'.owed = left
      /\ request'.pushed = (pushed \/ gained)
  BY <1>4
<1>8. RequestOK'
  BY <1>2, <1>3, <1>4, <1>6, <1>7 DEF RequestOK
<1>9. ASSUME NEW row \in left \ served
      PROVE  Offset(page) =< Rank(f, row)'
  <2>1. Offset(page) =< Rank(f, row)
    BY <1>1, <1>2, <1>5 DEF WalkInv
  <2>. QED
    BY <1>2, <1>5, <2>1, NextOffset
<1>10. ASSUME at = "list", ~ pushed, ~ gained, NEW row \in left
       PROVE  Rank(f, row)' < total
  <2>1. Rank(f, row) < total
    BY <1>1, <1>2, <1>5, <1>10 DEF WalkInv
  <2>. QED
    BY <1>5, <1>10, <2>1
<1>11. WalkInv'
  <2>1. WalkInv' <=>
          (at \in {"count", "list"} =>
             /\ left \subseteq Rows(f)'
             /\ \A row \in left \ served : Offset(page) =< Rank(f, row)'
             /\ at = "list" /\ ~ (pushed \/ gained) => \A row \in left : Rank(f, row)' < total)
    BY <1>7 DEF WalkInv
  <2>. QED
    BY <1>5, <1>9, <1>10, <2>1
<1>. QED
  BY <1>1, <1>2, <1>7, <1>8, <1>11

\* The counts of a topology are those of its links.
LEMMA CountsFollowLinks ==
  ASSUME NEW f, Links(f)' = Links(f)
  PROVE  AlertCounts(f)' = AlertCounts(f)
BY DEF AlertCounts, CountsOf

LEMMA ObserveKeepsGraph ==
  ASSUME RequestOK, GraphInv, Observe, request.at \in {"alerts", "links"}
  PROVE  RequestOK' /\ GraphInv' /\ request'.at = request.at
<1>1. PICK f : request.filter = f
  OBVIOUS
<1>. DEFINE changed == Links(f)' # Links(f)
<1>2. f \in Filter /\ request.torn \in BOOLEAN
  BY <1>1 DEF RequestOK
<1>3. request' = [request EXCEPT !.torn = request.torn \/ changed]
  <2>1. \E g \in {request.filter} : request' =
          [request EXCEPT !.torn = @ \/ Links(g)' # Links(g)]
    BY DEF Observe
  <2>. QED
    BY <1>1, <2>1
<1>4. changed \in BOOLEAN /\ (request.torn \/ changed) \in BOOLEAN
  OBVIOUS
<1>5. ~ changed => AlertCounts(f)' = AlertCounts(f)
                   /\ {link[1] : link \in Links(f)}' = {link[1] : link \in Links(f)}
  BY CountsFollowLinks
<1>. HIDE DEF changed
<1>6. CASE request.at = "alerts"
  <2>1. request = [at |-> "alerts", filter |-> f, torn |-> request.torn, counts |-> request.counts]
    BY <1>1, <1>6 DEF RequestOK
  <2>2. request' = [at |-> "alerts", filter |-> f, torn |-> request.torn \/ changed,
                    counts |-> request.counts]
    BY <1>3, <2>1
  <2>3. /\ request'.at = "alerts" /\ request'.filter = f
        /\ request'.torn = (request.torn \/ changed) /\ request'.counts = request.counts
    BY <2>2
  <2>4. RequestOK'
    BY <1>2, <1>4, <2>2, <2>3 DEF RequestOK
  <2>5. GraphInv'
    BY <1>1, <1>5, <1>6, <2>3 DEF GraphInv
  <2>. QED
    BY <1>6, <2>3, <2>4, <2>5
<1>7. CASE request.at = "links"
  <2>1. request = [at |-> "links", filter |-> f, torn |-> request.torn, counts |-> request.counts,
                   alerts |-> request.alerts]
    BY <1>1, <1>7 DEF RequestOK
  <2>2. request' = [at |-> "links", filter |-> f, torn |-> request.torn \/ changed,
                    counts |-> request.counts, alerts |-> request.alerts]
    BY <1>3, <2>1
  <2>3. /\ request'.at = "links" /\ request'.filter = f
        /\ request'.torn = (request.torn \/ changed) /\ request'.counts = request.counts
        /\ request'.alerts = request.alerts
    BY <2>2
  <2>4. RequestOK'
    BY <1>2, <1>4, <2>2, <2>3 DEF RequestOK
  <2>5. GraphInv'
    BY <1>1, <1>5, <1>7, <2>3 DEF GraphInv
  <2>. QED
    BY <1>7, <2>3, <2>4, <2>5
<1>. QED
  BY <1>6, <1>7

\* Whatever the others write, and whatever is asked for.
LEMMA WriteKeepsInv ==
  ASSUME IInv, Write
  PROVE  IInv'
<1>1. TablesOK' /\ screen' = screen /\ Observe /\ StaysBehind
  BY WriteTables DEF IInv
<1>2. CASE request.at = "shown"
  <2>1. request' = [at |-> "shown"]
    BY <1>1, <1>2 DEF Observe, NoRequest
  <2>2. request'.at = "shown" /\ DOMAIN request' = {"at"}
    BY <2>1
  <2>. QED
    BY <1>1, <2>2 DEF IInv, RequestOK, WalkInv, GraphInv, WalkOmitsNothing, TopologyIsGraph
<1>3. CASE request.at \in {"count", "list"}
  <2>1. RequestOK' /\ WalkInv' /\ request'.at = request.at
    BY <1>1, <1>3, ObserveKeepsWalk DEF IInv
  <2>. QED
    BY <1>1, <1>3, <2>1 DEF IInv, GraphInv, WalkOmitsNothing, TopologyIsGraph
<1>4. CASE request.at = "rows"
  <2>1. PICK f : request.filter = f
    OBVIOUS
  <2>. DEFINE d == request.drift + Cardinality(Between(f)') - Cardinality(Between(f))
  <2>2. request = [at |-> "rows", filter |-> f, drift |-> request.drift, total |-> request.total]
        /\ f \in Filter
    BY <1>4, <2>1 DEF IInv, RequestOK
  <2>3. request' = [request EXCEPT !.drift = d]
    <3>1. \E g \in {request.filter} : request' =
            [request EXCEPT !.drift = @ + Cardinality(Between(g)') - Cardinality(Between(g))]
      BY <1>1, <1>4 DEF Observe
    <3>. QED
      BY <2>1, <3>1
  <2>. HIDE DEF d
  <2>4. request' = [at |-> "rows", filter |-> f, drift |-> d, total |-> request.total]
    BY <2>2, <2>3
  <2>5. request'.at = "rows" /\ request'.filter = f /\ request'.drift = d
        /\ request'.total = request.total
    BY <2>4
  <2>6. RequestOK'
    BY <2>2, <2>4, <2>5 DEF RequestOK
  <2>. QED
    BY <1>1, <2>5, <2>6 DEF IInv, WalkInv, GraphInv, WalkOmitsNothing, TopologyIsGraph
<1>5. CASE request.at \in {"alerts", "links"}
  <2>1. RequestOK' /\ GraphInv' /\ request'.at = request.at
    BY <1>1, <1>5, ObserveKeepsGraph DEF IInv
  <2>. QED
    BY <1>1, <1>5, <2>1 DEF IInv, WalkInv, WalkOmitsNothing, TopologyIsGraph
<1>. QED
  BY <1>2, <1>3, <1>4, <1>5 DEF IInv, RequestOK

-------------------------------------------------------------------------------
(* The walk over the pages                                                 *)

LEMMA OpenListKeepsInv ==
  ASSUME IInv, NEW f \in Filter, OpenList(f)
  PROVE  IInv'
<1>1. UNCHANGED <<screen, stored, listed>> /\ TablesOK' /\ screen \in {"attacks", "alerts"}
  BY DEF IInv, OpenList, OnlyRequest, TablesOK, Listed
<1>2. request' = [at |-> "count", filter |-> f, page |-> 1, total |-> 0, served |-> {},
                  owed |-> Rows(f), pushed |-> FALSE]
  BY DEF OpenList
<1>3. /\ request'.at = "count" /\ request'.filter = f /\ request'.page = 1 /\ request'.total = 0
      /\ request'.served = {} /\ request'.owed = Rows(f) /\ request'.pushed = FALSE
  BY <1>2
<1>4. RequestOK'
  BY <1>1, <1>2, <1>3 DEF RequestOK
<1>5. Rows(f)' = Rows(f)
  BY <1>1 DEF Rows, MatchingAttacks, MatchingAlerts, Between, Present
<1>6. \A row \in Rows(f) : Offset(1) =< Rank(f, row)'
  <2>1. TablesOK' => \A row : Rank(f, row)' \in Nat
    BY AheadFiniteNext, FS_CardinalityType DEF AheadIsFinite, Rank
  <2>. QED
    BY <1>1, <2>1, NextOffset
<1>7. WalkInv'
  BY <1>3, <1>5, <1>6 DEF WalkInv
<1>. QED
  BY <1>1, <1>3, <1>4, <1>7 DEF IInv, GraphInv, WalkOmitsNothing, TopologyIsGraph

LEMMA CountKeepsInv ==
  ASSUME IInv, Count
  PROVE  IInv'
<1>1. PICK f, page, counted, served, owed, pushed :
        /\ request.filter = f /\ request.page = page /\ request.total = counted
        /\ request.served = served /\ request.owed = owed /\ request.pushed = pushed
  OBVIOUS
<1>2. UNCHANGED <<screen, stored, listed>> /\ TablesOK' /\ TablesOK /\ request.at = "count"
  BY DEF IInv, Count, OnlyRequest, TablesOK, Listed
<1>3. /\ request = [at |-> "count", filter |-> f, page |-> page, total |-> counted,
                    served |-> served, owed |-> owed, pushed |-> pushed]
      /\ f \in Filter /\ page \in Nat \ {0} /\ screen \in {"attacks", "alerts"}
  BY <1>1, <1>2 DEF IInv, RequestOK
<1>. DEFINE total == Cardinality(Rows(f))
<1>4. request' = [request EXCEPT !.at = "list", !.total = total, !.pushed = FALSE]
  BY <1>1 DEF Count
<1>5. total \in Nat
  BY <1>2, <1>3, RowsFinite
<1>6. \A row \in owed : row \in Rows(f) /\ Rank(f, row) < total
  BY <1>1, <1>2, <1>3, RankBelowTotal DEF IInv, WalkInv
<1>. HIDE DEF total
<1>7. request' = [at |-> "list", filter |-> f, page |-> page, total |-> total,
                  served |-> served, owed |-> owed, pushed |-> FALSE]
  BY <1>3, <1>4
<1>8. /\ request'.at = "list" /\ request'.filter = f /\ request'.page = page
      /\ request'.total = total /\ request'.served = served /\ request'.owed = owed
      /\ request'.pushed = FALSE
  BY <1>7
<1>9. RequestOK'
  BY <1>2, <1>3, <1>5, <1>7, <1>8 DEF RequestOK
<1>10. Rows(f)' = Rows(f) /\ \A row : Rank(f, row)' = Rank(f, row)
  BY <1>2 DEF Rank, Ahead, Rows, MatchingAttacks, MatchingAlerts, Between, Present,
              Before, AttackBefore, AlertBefore
<1>11. \A row \in owed \ served : Offset(page) =< Rank(f, row)
  BY <1>1, <1>2 DEF IInv, WalkInv
<1>12. WalkInv'
  BY <1>6, <1>8, <1>10, <1>11 DEF WalkInv
<1>. QED
  BY <1>2, <1>8, <1>9, <1>12 DEF IInv, GraphInv, WalkOmitsNothing, TopologyIsGraph

LEMMA ListPageKeepsInv ==
  ASSUME IInv, ListPage
  PROVE  IInv'
<1>1. PICK f, page, total, served, owed, pushed :
        /\ request.filter = f /\ request.page = page /\ request.total = total
        /\ request.served = served /\ request.owed = owed /\ request.pushed = pushed
  OBVIOUS
<1>2. UNCHANGED <<screen, stored, listed>> /\ TablesOK' /\ TablesOK /\ request.at = "list"
  BY DEF IInv, ListPage, OnlyRequest, TablesOK, Listed
<1>3. /\ request = [at |-> "list", filter |-> f, page |-> page, total |-> total,
                    served |-> served, owed |-> owed, pushed |-> pushed]
      /\ f \in Filter /\ page \in Nat \ {0} /\ total \in Nat /\ pushed \in BOOLEAN
      /\ screen \in {"attacks", "alerts"}
  BY <1>1, <1>2 DEF IInv, RequestOK
<1>. DEFINE read == served \cup Page(f, page)
            more == page < TotalPages(total)
<1>4. request' = [request EXCEPT !.served = read,
                                 !.at = IF more THEN "count" ELSE "shown",
                                 !.page = page + (IF more THEN 1 ELSE 0)]
  BY <1>1 DEF ListPage
\* What is owed is read with this page, or lies behind it.
<1>5. ASSUME NEW row \in owed \ read
      PROVE  Offset(page) + PageSize =< Rank(f, row)
  <2>1. row \in Rows(f) /\ Offset(page) =< Rank(f, row)
    BY <1>1, <1>2 DEF IInv, WalkInv
  <2>2. ~ (Rank(f, row) \in Offset(page) .. (Offset(page) + PageSize - 1))
    BY <2>1 DEF Page, Rank
  <2>. QED
    BY <1>2, <1>3, <2>1, <2>2, RankType, NextOffset
<1>6. owed \subseteq Rows(f)
  BY <1>1, <1>2 DEF IInv, WalkInv
<1>7. ~ more => total =< Offset(page) + PageSize
  BY <1>3, PagesHoldTotal
<1>8. ASSUME ~ more, ~ pushed  PROVE owed \subseteq read
  <2>. SUFFICES ASSUME NEW row \in owed \ read  PROVE FALSE
    OBVIOUS
  <2>1. Rank(f, row) < total
    BY <1>1, <1>2, <1>8 DEF IInv, WalkInv
  <2>2. Rank(f, row) \in Nat /\ Offset(page) \in Nat /\ PageSize \in Nat
    BY <1>2, <1>3, RankType, NextOffset
  <2>. QED
    BY <1>3, <1>5, <1>7, <1>8, <2>1, <2>2
<1>9. Rows(f)' = Rows(f) /\ \A row : Rank(f, row)' = Rank(f, row)
  BY <1>2 DEF Rank, Ahead, Rows, MatchingAttacks, MatchingAlerts, Between, Present,
              Before, AttackBefore, AlertBefore
<1>. HIDE DEF read, more
<1>10. CASE more
  <2>1. request' = [at |-> "count", filter |-> f, page |-> page + 1, total |-> total,
                    served |-> read, owed |-> owed, pushed |-> pushed]
    BY <1>3, <1>4, <1>10
  <2>2. /\ request'.at = "count" /\ request'.filter = f /\ request'.page = page + 1
        /\ request'.total = total /\ request'.served = read /\ request'.owed = owed
        /\ request'.pushed = pushed
    BY <2>1
  <2>3. page + 1 \in Nat \ {0} /\ Offset(page + 1) = Offset(page) + PageSize
    BY <1>3, NextOffset
  <2>4. RequestOK'
    BY <1>2, <1>3, <2>1, <2>2, <2>3 DEF RequestOK
  <2>5. WalkInv'
    BY <1>5, <1>6, <1>9, <2>2, <2>3 DEF WalkInv
  <2>. QED
    BY <1>2, <2>2, <2>4, <2>5 DEF IInv, GraphInv, WalkOmitsNothing, TopologyIsGraph
<1>11. CASE ~ more
  <2>1. request' = [at |-> "shown", filter |-> f, page |-> page + 0, total |-> total,
                    served |-> read, owed |-> owed, pushed |-> pushed]
    BY <1>3, <1>4, <1>11
  <2>2. /\ request'.at = "shown" /\ request'.served = read /\ request'.owed = owed
        /\ request'.pushed = pushed /\ "links" \notin DOMAIN request'
    BY <2>1
  <2>3. RequestOK' /\ WalkInv' /\ GraphInv' /\ TopologyIsGraph'
    BY <2>2 DEF RequestOK, WalkInv, GraphInv, TopologyIsGraph
  <2>4. WalkOmitsNothing'
    BY <1>8, <1>11, <2>2 DEF WalkOmitsNothing
  <2>. QED
    BY <1>2, <2>3, <2>4 DEF IInv
<1>. QED
  BY <1>10, <1>11

-------------------------------------------------------------------------------
(* The statistics and the topology                                         *)

\* A read of the statistics touches neither a walk nor a topology.
LEMMA StatisticsKeepInv ==
  ASSUME IInv, (\E f \in Filter : ReadTotal(f)) \/ ReadSeries
  PROVE  IInv'
<1>1. UNCHANGED <<screen, stored, listed>> /\ TablesOK'
  BY DEF IInv, ReadTotal, ReadSeries, OnlyRequest, TablesOK, Listed
<1>2. ASSUME NEW f \in Filter, ReadTotal(f)  PROVE IInv'
  <2>1. PICK total : request' = [at |-> "rows", filter |-> f, drift |-> 0, total |-> total]
    BY <1>2 DEF ReadTotal
  <2>2. request'.at = "rows" /\ request'.filter = f /\ request'.drift = 0 /\ request'.total = total
    BY <2>1
  <2>. QED
    BY <1>1, <2>1, <2>2 DEF IInv, RequestOK, WalkInv, GraphInv, WalkOmitsNothing, TopologyIsGraph
<1>3. ASSUME ReadSeries  PROVE IInv'
  <2>1. PICK total, drift, series :
          request' = [at |-> "shown", total |-> total, drift |-> drift, series |-> series]
    BY <1>3 DEF ReadSeries
  <2>2. request'.at = "shown" /\ DOMAIN request' = {"at", "total", "drift", "series"}
    BY <2>1
  <2>. QED
    BY <1>1, <2>2 DEF IInv, RequestOK, WalkInv, GraphInv, WalkOmitsNothing, TopologyIsGraph
<1>. QED
  BY <1>2, <1>3

\* The order of the alerts is total, as no two have an address in common.
LEMMA AlertOrder ==
  ASSUME TablesOK
  PROVE  /\ \A i \in Ip : ~ AlertBefore(i, i)
         /\ \A i, j \in Ip : i # j => AlertBefore(i, j) \/ AlertBefore(j, i)
         /\ \A i, j, k \in Ip : AlertBefore(i, j) /\ AlertBefore(j, k) => AlertBefore(i, k)
<1>1. \A i \in Ip : listed[i].distinct \in Nat /\ listed[i].last \in Nat /\ AddressOf[i] \in Nat
  BY ScreensAssumption DEF TablesOK, Alerts
<1>2. \A i, j \in Ip : AddressOf[i] = AddressOf[j] => i = j
  BY ScreensAssumption
<1>. QED
  BY <1>1, <1>2 DEF AlertBefore

\* LIMIT alert_limit: each selected alert has a rank of its own below the limit.
LEMMA SelectionBounded ==
  ASSUME TablesOK, NEW f \in Filter
  PROVE  Bounded(f, Selected(f))
<1>. SUFFICES ASSUME f.limit # NoLimit  PROVE Cardinality(Selected(f)) =< f.limit
  BY DEF Bounded
<1>. DEFINE candidates == Candidates(f)
            before(i) == {j \in candidates : AlertBefore(j, i)}
            rank == [i \in Selected(f) |-> Cardinality(before(i))]
<1>1. candidates \subseteq Listed
  BY FilterType DEF Listed, Absent, Candidates
<1>2. IsFiniteSet(candidates)
  BY <1>1, FS_Subset DEF TablesOK
<1>3. \A i : before(i) \subseteq candidates
  OBVIOUS
<1>. HIDE DEF candidates
<1>4. Selected(f) = {i \in candidates : Cardinality(before(i)) < f.limit}
  BY DEF Selected, candidates
<1>5. candidates \subseteq Ip
  BY DEF candidates, Candidates
<1>6. \A i : IsFiniteSet(before(i)) /\ Cardinality(before(i)) \in Nat
  BY <1>2, <1>3, FS_Subset, FS_CardinalityType
<1>7. ASSUME NEW i \in candidates, NEW j \in candidates, AlertBefore(i, j)
      PROVE  Cardinality(before(i)) < Cardinality(before(j))
  <2>1. before(i) \subseteq before(j) /\ i \in before(j) /\ i \notin before(i)
    BY <1>5, <1>7, AlertOrder
  <2>2. Cardinality(before(i)) =< Cardinality(before(j))
        /\ Cardinality(before(i)) # Cardinality(before(j))
    BY <1>6, <2>1, FS_Subset
  <2>. QED
    BY <1>6, <2>2
<1>8. f.limit \in Nat \ {0}
  BY FilterAssumption
<1>. HIDE DEF before
<1>9. rank \in [Selected(f) -> 0 .. (f.limit - 1)]
  BY <1>4, <1>6, <1>8
<1>10. \A i, j \in Selected(f) : rank[i] = rank[j] => i = j
  <2>1. \A i, j \in candidates : i # j => Cardinality(before(i)) # Cardinality(before(j))
    BY <1>5, <1>6, <1>7, AlertOrder
  <2>. QED
    BY <1>4, <2>1
<1>. HIDE DEF rank
<1>11. rank \in Injection(Selected(f), 0 .. (f.limit - 1))
  BY <1>9, <1>10 DEF Injection, IsInjective
<1>12. IsFiniteSet(0 .. (f.limit - 1)) /\ Cardinality(0 .. (f.limit - 1)) = f.limit
  <2>1. ASSUME NEW n \in Nat \ {0}
        PROVE  IsFiniteSet(0 .. (n - 1)) /\ Cardinality(0 .. (n - 1)) = n
    BY FS_Interval
  <2>. QED
    BY <1>8, <2>1
<1>. QED
  BY <1>11, <1>12, FS_Injection

\* Every selected alert has a link.
LEMMA SelectedAreLinked ==
  ASSUME TablesOK, NEW f
  PROVE  Selected(f) = {link[1] : link \in Links(f)}
<1>1. ASSUME NEW ip \in Selected(f)
      PROVE  \E link \in Links(f) : ip = link[1]
  <2>1. PICK s : s \in listed[ip].sources
    BY DEF Selected, Candidates
  <2>2. s \in Source
    BY <2>1 DEF Selected, Candidates, TablesOK, Alerts
  <2>3. <<ip, s>> \in Links(f) /\ ip = <<ip, s>>[1]
    BY <2>1, <2>2 DEF Links, LinksOf
  <2>. QED
    BY <2>3
<1>2. \A link \in Links(f) : link[1] \in Selected(f)
  BY DEF Links, LinksOf
<1>. QED
  BY <1>1, <1>2

LEMMA TopologyKeepsInv ==
  ASSUME IInv, (\E f \in Filter : ReadSources(f)) \/ ReadAlerts \/ ReadLinks
  PROVE  IInv'
<1>1. UNCHANGED <<screen, stored, listed>> /\ TablesOK' /\ TablesOK
  BY DEF IInv, ReadSources, ReadAlerts, ReadLinks, OnlyRequest, TablesOK, Listed
<1>2. \A f \in Filter : Links(f)' = Links(f) /\ AlertCounts(f)' = AlertCounts(f)
  <2>1. \A f \in Filter : Links(f)' = Links(f)
    BY <1>1 DEF Links, LinksOf, Selected, Candidates, AlertBefore
  <2>. QED
    BY <2>1 DEF AlertCounts, CountsOf
<1>3. ASSUME NEW f \in Filter, ReadSources(f)  PROVE IInv'
  <2>1. request' = [at |-> "alerts", filter |-> f, torn |-> FALSE, counts |-> AlertCounts(f)]
    BY <1>3 DEF ReadSources
  <2>2. /\ request'.at = "alerts" /\ request'.filter = f /\ request'.torn = FALSE
        /\ request'.counts = AlertCounts(f)
    BY <2>1
  <2>3. RequestOK'
    BY <2>1, <2>2 DEF RequestOK
  <2>4. GraphInv'
    BY <1>2, <2>2 DEF GraphInv
  <2>. QED
    BY <1>1, <2>2, <2>3, <2>4 DEF IInv, WalkInv, WalkOmitsNothing, TopologyIsGraph
<1>4. ASSUME ReadAlerts  PROVE IInv'
  <2>1. PICK f, torn, counts :
          request.filter = f /\ request.torn = torn /\ request.counts = counts
    OBVIOUS
  <2>2. f \in Filter /\ torn \in BOOLEAN /\ (~ torn => counts = AlertCounts(f))
    BY <1>4, <2>1 DEF IInv, RequestOK, GraphInv, ReadAlerts
  <2>. DEFINE alerts == Selected(f)
  <2>3. request' = [at |-> "links", filter |-> f, torn |-> torn, counts |-> counts, alerts |-> alerts]
    BY <1>4, <2>1 DEF ReadAlerts
  <2>4. Bounded(f, alerts)
    BY <1>1, <2>2, FilterType, SelectionBounded
  <2>5. alerts = {link[1] : link \in Links(f)}
    BY <1>1, SelectedAreLinked
  <2>. HIDE DEF alerts
  <2>6. /\ request'.at = "links" /\ request'.filter = f /\ request'.torn = torn
        /\ request'.counts = counts /\ request'.alerts = alerts
    BY <2>3
  <2>7. RequestOK'
    BY <2>2, <2>3, <2>6 DEF RequestOK
  <2>8. GraphInv'
    BY <1>2, <2>2, <2>4, <2>5, <2>6 DEF GraphInv
  <2>. QED
    BY <1>1, <2>6, <2>7, <2>8 DEF IInv, WalkInv, WalkOmitsNothing, TopologyIsGraph
<1>5. ASSUME ReadLinks  PROVE IInv'
  <2>1. PICK f, torn, counts, alerts :
          /\ request.filter = f /\ request.torn = torn /\ request.counts = counts
          /\ request.alerts = alerts
    OBVIOUS
  <2>. DEFINE links == Links(f)
  <2>2. /\ f \in Filter /\ Bounded(f, alerts)
        /\ ~ torn => counts = AlertCounts(f) /\ alerts = {link[1] : link \in links}
    BY <1>5, <2>1 DEF IInv, RequestOK, GraphInv, ReadLinks
  <2>3. request' = [at |-> "shown", filter |-> f, torn |-> torn, counts |-> counts,
                    alerts |-> alerts, links |-> links]
    BY <1>5, <2>1 DEF ReadLinks
  <2>4. ASSUME ~ torn
        PROVE  /\ {link[2] : link \in links} = DOMAIN counts
               /\ \A s \in DOMAIN counts : counts[s] = Cardinality({link \in links : link[2] = s})
    BY <2>2, <2>4 DEF AlertCounts, CountsOf
  <2>. HIDE DEF links
  <2>5. /\ request'.at = "shown" /\ request'.filter = f /\ request'.torn = torn /\ request'.counts = counts
        /\ request'.alerts = alerts /\ request'.links = links /\ "owed" \notin DOMAIN request'
    BY <2>3
  <2>6. RequestOK' /\ WalkInv' /\ GraphInv' /\ WalkOmitsNothing'
    BY <2>5 DEF RequestOK, WalkInv, GraphInv, WalkOmitsNothing
  <2>7. TopologyIsGraph'
    BY <2>2, <2>4, <2>5 DEF TopologyIsGraph, Bounded
  <2>. QED
    BY <1>1, <2>6, <2>7 DEF IInv
<1>. QED
  BY <1>3, <1>4, <1>5

-------------------------------------------------------------------------------
(* The statistics                                                          *)

\* Induction on the subsets of a finite set, by a smallest counterexample: what gives each
\* subset the value of one of its elements more than that of the others is the sum.
LEMMA SumIs ==
  ASSUME NEW S, IsFiniteSet(S), NEW f \in [S -> Nat], NEW G \in [SUBSET S -> Nat],
         G[{}] = 0, \A T \in SUBSET S : \A x \in T : G[T] = f[x] + G[T \ {x}]
  PROVE  SumFunction(f) = G[S]
<1>. DEFINE Any(T) == CHOOSE x \in T : TRUE
            Recurs(g) == g = [T \in SUBSET S |-> IF T = {} THEN 0 ELSE f[Any(T)] + g[T \ {Any(T)}]]
            sum == CHOOSE g : Recurs(g)
<1>1. SumFunction(f) = sum[S]
  <2>1. SumFunction(f) =
          (CHOOSE g : g = [T \in SUBSET DOMAIN f |->
             IF T = {} THEN 0
             ELSE f[CHOOSE x \in T : TRUE] + g[T \ {CHOOSE x \in T : TRUE}]])[DOMAIN f]
    BY Zenon DEF SumFunction, SumFunctionOnSet, FoldFunctionOnSet, MapThenFoldSet
  <2>2. DOMAIN f = S
    OBVIOUS
  <2>. QED
    BY <2>1, <2>2
<1>2. \A T \in SUBSET S : T # {} => Any(T) \in T
  OBVIOUS
<1>. HIDE DEF Any
<1>3. Recurs(G)
  BY <1>2
<1>4. Recurs(sum)
  <2>. HIDE DEF Recurs
  <2>. QED
    BY <1>3
<1>. HIDE DEF sum
<1>. SUFFICES ASSUME sum[S] # G[S]  PROVE FALSE
  BY <1>1
<1>. DEFINE differ == {T \in FiniteSubsetsOf(S) : sum[T] # G[T]}
<1>5. S \in differ
  BY DEF FiniteSubsetsOf
<1>6. PICK T \in differ : \A U \in differ : ~ <<U, T>> \in StrictSubsetOrdering(S)
  BY <1>5, FS_StrictSubsetOrderingWellFounded, WFMin, Zenon
<1>7. T \in SUBSET S /\ IsFiniteSet(T) /\ sum[T] # G[T]
  BY DEF FiniteSubsetsOf
<1>8. T # {}
  BY <1>4, <1>7
<1>. DEFINE rest == T \ {Any(T)}
<1>9. rest \in FiniteSubsetsOf(S) /\ <<rest, T>> \in StrictSubsetOrdering(S)
  BY <1>2, <1>7, <1>8, FS_Subset DEF FiniteSubsetsOf, StrictSubsetOrdering
<1>10. sum[rest] = G[rest]
  BY <1>6, <1>9
<1>11. sum[T] = f[Any(T)] + sum[rest]
  BY <1>4, <1>7, <1>8
<1>12. G[T] = f[Any(T)] + G[rest]
  BY <1>2, <1>7, <1>8
<1>. QED
  BY <1>7, <1>10, <1>11, <1>12

LEMMA DisjointUnion ==
  ASSUME NEW S, IsFiniteSet(S), NEW T, IsFiniteSet(T), S \cap T = {}
  PROVE  Cardinality(S \cup T) = Cardinality(S) + Cardinality(T)
<1>1. Cardinality(S \cup T) = Cardinality(S) + Cardinality(T) - Cardinality(S \cap T)
  BY FS_Union
<1>2. Cardinality(S \cap T) = 0
  BY FS_EmptySet
<1>3. Cardinality(S) \in Nat /\ Cardinality(T) \in Nat
  BY FS_CardinalityType
<1>. QED
  BY <1>1, <1>2, <1>3

\* Rows that each belong to one part are as many as those of all parts together.
LEMMA PartsAddUp ==
  ASSUME NEW rows, IsFiniteSet(rows), NEW Part, IsFiniteSet(Part), NEW of \in [rows -> Part]
  PROVE  SumFunction([p \in Part |-> Cardinality({a \in rows : of[a] = p})]) = Cardinality(rows)
<1>. DEFINE In(T) == {a \in rows : of[a] \in T}
            f == [p \in Part |-> Cardinality({a \in rows : of[a] = p})]
            G == [T \in SUBSET Part |-> Cardinality(In(T))]
<1>1. \A T : IsFiniteSet(In(T)) /\ Cardinality(In(T)) \in Nat
  BY FS_Subset, FS_CardinalityType
<1>2. \A p : {a \in rows : of[a] = p} = In({p})
  OBVIOUS
<1>3. f \in [Part -> Nat] /\ G \in [SUBSET Part -> Nat]
  <2>. HIDE DEF In
  <2>. QED
    BY <1>1, <1>2
<1>4. G[{}] = 0
  <2>1. In({}) = {}
    OBVIOUS
  <2>. QED
    BY <2>1, FS_EmptySet
<1>5. ASSUME NEW T \in SUBSET Part, NEW p \in T
      PROVE  G[T] = f[p] + G[T \ {p}]
  <2>1. In(T) = In({p}) \cup In(T \ {p}) /\ In({p}) \cap In(T \ {p}) = {}
    OBVIOUS
  <2>. HIDE DEF In
  <2>2. Cardinality(In(T)) = Cardinality(In({p})) + Cardinality(In(T \ {p}))
    BY <1>1, <2>1, DisjointUnion
  <2>3. f[p] = Cardinality(In({p})) /\ G[T] = Cardinality(In(T))
        /\ G[T \ {p}] = Cardinality(In(T \ {p}))
    BY <1>2
  <2>. QED
    BY <2>2, <2>3
<1>6. G[Part] = Cardinality(rows)
  <2>1. In(Part) = rows
    OBVIOUS
  <2>. QED
    BY <2>1
<1>. HIDE DEF f, G
<1>7. SumFunction(f) = G[Part]
  BY <1>3, <1>4, <1>5, SumIs
<1>. QED
  BY <1>6, <1>7 DEF f

\* The total of the statistics, and what came and went since it was read.
TotalInv ==
  request.at = "rows" =>
    /\ request.total \in Nat /\ request.drift \in Int
    /\ request.total + request.drift = Cardinality(Between(request.filter))

BetweenIsFinite == \A f : IsFiniteSet(Between(f)) /\ Cardinality(Between(f)) \in Nat

LEMMA BetweenFinite == BetweenIsFinite
<1>1. \A f : Between(f) \subseteq Attack
  BY DEF Between, Present
<1>. QED
  BY <1>1, AttackAssumption, FS_Subset, FS_CardinalityType DEF BetweenIsFinite

LEMMA BetweenFiniteNext == BetweenIsFinite'
BY BetweenFinite, PTL

LEMMA WriteKeepsTotal ==
  ASSUME IInv, TotalInv, Write
  PROVE  TotalInv' /\ StatisticsAddUp'
<1>1. Observe
  BY WriteTables DEF IInv
<1>2. CASE request.at = "shown"
  <2>1. request' = [at |-> "shown"]
    BY <1>1, <1>2 DEF Observe, NoRequest
  <2>2. request'.at = "shown" /\ "series" \notin DOMAIN request'
    BY <2>1
  <2>. QED
    BY <2>2 DEF TotalInv, StatisticsAddUp
<1>3. CASE request.at = "rows"
  <2>1. PICK f, total, drift : request.filter = f /\ request.total = total /\ request.drift = drift
    OBVIOUS
  <2>2. request = [at |-> "rows", filter |-> f, drift |-> drift, total |-> total]
    BY <1>3, <2>1 DEF IInv, RequestOK
  <2>. DEFINE before == Cardinality(Between(f))
              after == Cardinality(Between(f)')
  <2>3. \E g \in {request.filter} : request' =
          [request EXCEPT !.drift = @ + Cardinality(Between(g)') - Cardinality(Between(g))]
    BY <1>1, <1>3 DEF Observe
  <2>4. request' = [request EXCEPT !.drift = drift + after - before]
    BY <2>1, <2>3
  <2>5. before \in Nat /\ after \in Nat /\ Cardinality(Between(f))' = after
    BY BetweenFinite, BetweenFiniteNext DEF BetweenIsFinite
  <2>6. total \in Nat /\ drift \in Int /\ total + drift = before
    BY <1>3, <2>1 DEF TotalInv
  <2>. HIDE DEF before, after
  <2>7. request' = [at |-> "rows", filter |-> f, drift |-> drift + after - before, total |-> total]
    BY <2>2, <2>4
  <2>8. request'.at = "rows" /\ request'.filter = f /\ request'.total = total
        /\ request'.drift = drift + after - before
    BY <2>7
  <2>9. TotalInv' <=> /\ total \in Nat /\ drift + after - before \in Int
                      /\ total + (drift + after - before) = Cardinality(Between(f))'
    BY <2>8 DEF TotalInv
  <2>. QED
    BY <2>5, <2>6, <2>8, <2>9 DEF StatisticsAddUp
<1>4. CASE request.at \in {"count", "list", "alerts", "links"}
  <2>1. request'.at = request.at
    BY <1>1, <1>4, WriteTables, ObserveKeepsWalk, ObserveKeepsGraph DEF IInv
  <2>. QED
    BY <1>4, <2>1 DEF TotalInv, StatisticsAddUp
<1>. QED
  BY <1>2, <1>3, <1>4 DEF IInv, RequestOK

LEMMA ReadTotalKeepsTotal ==
  ASSUME NEW f \in Filter, ReadTotal(f)
  PROVE  TotalInv' /\ StatisticsAddUp'
<1>. DEFINE total == Cardinality(Between(f))
<1>1. request' = [at |-> "rows", filter |-> f, drift |-> 0, total |-> total]
  BY DEF ReadTotal
<1>2. total \in Nat /\ Cardinality(Between(f))' = total
  BY BetweenFinite DEF BetweenIsFinite, ReadTotal, OnlyRequest, Between, Present
<1>. HIDE DEF total
<1>3. request'.at = "rows" /\ request'.filter = f /\ request'.drift = 0 /\ request'.total = total
  BY <1>1
<1>4. TotalInv' <=> total \in Nat /\ 0 \in Int /\ total + 0 = Cardinality(Between(f))'
  BY <1>3 DEF TotalInv
<1>. QED
  BY <1>2, <1>3, <1>4 DEF StatisticsAddUp

\* Every attack of a period is in one of its days.
LEMMA DaysCover ==
  ASSUME NEW f \in Filter, NEW a \in Between(f)
  PROVE  DayOf[OccurredAt[a]] \in Days(f)
<1>1. OccurredAt[a] \in Instants /\ f.from \in Instants /\ f.to \in Instants
      /\ f.from =< OccurredAt[a] /\ OccurredAt[a] =< f.to
  <2>1. a \in Attack /\ OccurredAt[a] \in f.from .. f.to
    BY DEF Between, Present
  <2>2. OccurredAt[a] \in Instants
    BY <2>1 DEF Instants
  <2>3. f.from \in Instants /\ f.to \in Instants
    BY FilterAssumption
  <2>4. Instants \subseteq Nat
    BY AttackAssumption DEF Instants
  <2>. QED
    BY <2>1, <2>2, <2>3, <2>4
<1>. QED
  <2>1. /\ DayOf \in [Instants -> Nat]
        /\ \A t, u \in Instants : t =< u => DayOf[t] =< DayOf[u]
    BY FilterAssumption, ScreensAssumption
  <2>2. /\ DayOf[f.from] \in Nat /\ DayOf[OccurredAt[a]] \in Nat /\ DayOf[f.to] \in Nat
        /\ DayOf[f.from] =< DayOf[OccurredAt[a]] /\ DayOf[OccurredAt[a]] =< DayOf[f.to]
    BY <1>1, <2>1
  <2>. QED
    BY <2>2 DEF Days

\* The series of each source adds up to its count, and the counts to what was read.
LEMMA ReadSeriesAddsUp ==
  ASSUME IInv, TotalInv, ReadSeries
  PROVE  TotalInv' /\ StatisticsAddUp'
<1>1. PICK f, total, drift : request.filter = f /\ request.total = total /\ request.drift = drift
  OBVIOUS
<1>2. request.at = "rows" /\ f \in Filter /\ total + drift = Cardinality(Between(f))
  BY <1>1 DEF IInv, RequestOK, TotalInv, ReadSeries
<1>3. PICK rows, days : rows = Between(f) /\ days = Days(f)
  OBVIOUS
<1>. DEFINE From(s) == {a \in rows : SourceOf[a] = s}
            sources == {SourceOf[a] : a \in rows}
            data(s) == [d \in days |-> Cardinality({a \in From(s) : DayOf[OccurredAt[a]] = d})]
            series == [s \in sources |-> [count |-> Cardinality(From(s)), data |-> data(s)]]
<1>4. request' = [at |-> "shown", total |-> total, drift |-> drift, series |-> series]
  BY <1>1, <1>3 DEF ReadSeries
<1>5. IsFiniteSet(rows) /\ rows \subseteq Attack
  BY <1>3, BetweenFinite DEF BetweenIsFinite, Between, Present
<1>6. SumFunction([s \in sources |-> Cardinality(From(s))]) = Cardinality(rows)
  <2>. DEFINE of == [a \in rows |-> SourceOf[a]]
  <2>1. sources \subseteq Source
    BY <1>5, AttackAssumption
  <2>2. IsFiniteSet(sources)
    BY <2>1, SourceAssumption, FS_Subset
  <2>3. of \in [rows -> sources] /\ \A s : {a \in rows : of[a] = s} = From(s)
    OBVIOUS
  <2>. HIDE DEF of, From, sources
  <2>4. SumFunction([s \in sources |-> Cardinality({a \in rows : of[a] = s})]) = Cardinality(rows)
    BY <1>5, <2>2, <2>3, PartsAddUp
  <2>. QED
    BY <2>3, <2>4
<1>7. ASSUME NEW s \in sources
      PROVE  SumFunction(data(s)) = Cardinality(From(s))
  <2>. DEFINE of == [a \in From(s) |-> DayOf[OccurredAt[a]]]
  <2>1. IsFiniteSet(days)
    <3>1. DayOf[f.from] \in Int /\ DayOf[f.to] \in Int
      BY <1>2, FilterAssumption, ScreensAssumption
    <3>. QED
      BY <1>3, <3>1, FS_Interval DEF Days
  <2>2. IsFiniteSet(From(s))
    BY <1>5, FS_Subset
  <2>3. of \in [From(s) -> days]
    BY <1>2, <1>3, DaysCover
  <2>4. \A d : {a \in From(s) : of[a] = d} = {a \in From(s) : DayOf[OccurredAt[a]] = d}
    OBVIOUS
  <2>. HIDE DEF of, From
  <2>5. SumFunction([d \in days |-> Cardinality({a \in From(s) : of[a] = d})]) = Cardinality(From(s))
    BY <2>1, <2>2, <2>3, PartsAddUp
  <2>. QED
    BY <2>4, <2>5
<1>. HIDE DEF From, sources, data
<1>8. [s \in DOMAIN series |-> series[s].count] = [s \in sources |-> Cardinality(From(s))]
      /\ \A s \in DOMAIN series : series[s].data = data(s) /\ series[s].count = Cardinality(From(s))
      /\ DOMAIN series = sources
  OBVIOUS
<1>. HIDE DEF series
<1>9. request'.at = "shown" /\ request'.series = series /\ request'.total = total
      /\ request'.drift = drift
  BY <1>4
<1>10. /\ SumFunction([s \in DOMAIN series |-> series[s].count]) = total + drift
       /\ \A s \in DOMAIN series : SumFunction(series[s].data) = series[s].count
  BY <1>2, <1>3, <1>6, <1>7, <1>8
<1>11. StatisticsAddUp'
  BY <1>9, <1>10 DEF StatisticsAddUp
<1>. QED
  BY <1>9, <1>11 DEF TotalInv

-------------------------------------------------------------------------------
(* The theorems                                                            *)

\* A list, a topology and their rows stay related whatever is written between two reads.
THEOREM Invariance == ScreensSpec => []IInv
<1>1. ScreensInit => IInv
  <2>. SUFFICES ASSUME ScreensInit  PROVE IInv
    OBVIOUS
  <2>1. Listed = {} /\ Absent \in Alerts
    BY DEF ScreensInit, Listed, Absent, Alerts
  <2>2. TablesOK
    BY <2>1, FS_EmptySet DEF ScreensInit, TablesOK
  <2>3. request.at = "shown" /\ DOMAIN request = {"at"}
    BY DEF ScreensInit, NoRequest
  <2>. QED
    BY <2>2, <2>3 DEF IInv, RequestOK, WalkInv, GraphInv, WalkOmitsNothing, TopologyIsGraph
<1>2. IInv /\ [ScreensNext]_screens => IInv'
  <2>. SUFFICES ASSUME IInv, [ScreensNext]_screens  PROVE IInv'
    OBVIOUS
  <2>1. CASE Write
    BY <2>1, WriteKeepsInv
  <2>2. ASSUME NEW f \in Filter, OpenList(f)  PROVE IInv'
    BY <2>2, OpenListKeepsInv
  <2>3. CASE Count
    BY <2>3, CountKeepsInv
  <2>4. CASE ListPage
    BY <2>4, ListPageKeepsInv
  <2>5. CASE (\E f \in Filter : ReadTotal(f)) \/ ReadSeries
    BY <2>5, StatisticsKeepInv
  <2>6. CASE (\E f \in Filter : ReadSources(f)) \/ ReadAlerts \/ ReadLinks
    BY <2>6, TopologyKeepsInv
  <2>7. CASE UNCHANGED screens
    <3>1. UNCHANGED <<screen, stored, listed, request>>
      BY <2>7 DEF screens
    <3>2. TablesOK'
      BY <3>1 DEF IInv, TablesOK, Listed
    <3>3. RequestOK'
      BY <3>1 DEF IInv, RequestOK
    <3>4. /\ Rows(request.filter)' = Rows(request.filter)
          /\ \A row : Rank(request.filter, row)' = Rank(request.filter, row)
      BY <3>1 DEF Rank, Ahead, Rows, MatchingAttacks, MatchingAlerts, Between, Present,
                  Before, AttackBefore, AlertBefore
    <3>5. WalkInv'
      BY <3>1, <3>4 DEF IInv, WalkInv
    <3>6. Links(request.filter)' = Links(request.filter)
      BY <3>1 DEF Links, LinksOf, Selected, Candidates, AlertBefore
    <3>7. AlertCounts(request.filter)' = AlertCounts(request.filter)
      BY <3>6 DEF AlertCounts, CountsOf
    <3>8. GraphInv'
      BY <3>1, <3>6, <3>7 DEF IInv, GraphInv
    <3>. QED
      BY <3>1, <3>2, <3>3, <3>5, <3>8 DEF IInv, WalkOmitsNothing, TopologyIsGraph
  <2>. QED
    BY <2>1, <2>2, <2>3, <2>4, <2>5, <2>6, <2>7 DEF ScreensNext, Write
<1>. QED
  BY <1>1, <1>2, PTL DEF ScreensSpec

\* A walk over the pages of a list shows what is in the list all along, whatever is written
\* meanwhile: unless a row gets ahead between the count and the list of the last page.
THEOREM WalksOmitNothing == ScreensSpec => []WalkOmitsNothing
<1>1. IInv => WalkOmitsNothing
  BY DEF IInv
<1>. QED
  BY <1>1, Invariance, PTL

\* A topology that no write tore is a graph, and none is larger than asked for.
THEOREM TopologiesAreGraphs == ScreensSpec => []TopologyIsGraph
<1>1. IInv => TopologyIsGraph
  BY DEF IInv
<1>. QED
  BY <1>1, Invariance, PTL

\* The statistics add up, whatever was inserted or purged between their two reads.
THEOREM StatisticsAlwaysAddUp == ScreensSpec => []StatisticsAddUp
<1>. DEFINE SInv == TotalInv /\ StatisticsAddUp
<1>1. ScreensInit => SInv
  <2>1. ScreensInit => request.at = "shown" /\ "series" \notin DOMAIN request
    BY DEF ScreensInit, NoRequest
  <2>. QED
    BY <2>1 DEF TotalInv, StatisticsAddUp
<1>2. IInv /\ SInv /\ [ScreensNext]_screens => SInv'
  <2>. SUFFICES ASSUME IInv, SInv, [ScreensNext]_screens  PROVE SInv'
    OBVIOUS
  <2>1. CASE Write
    BY <2>1, WriteKeepsTotal
  <2>2. ASSUME NEW f \in Filter, ReadTotal(f)  PROVE SInv'
    BY <2>2, ReadTotalKeepsTotal
  <2>3. CASE ReadSeries
    BY <2>3, ReadSeriesAddsUp
  <2>4. ASSUME ~ Write, ScreensNext, \A f \in Filter : ~ ReadTotal(f), ~ ReadSeries
        PROVE  request'.at # "rows" /\ (request'.at = "shown" => "series" \notin DOMAIN request')
    <3>1. ASSUME NEW f \in Filter, OpenList(f)
          PROVE  request'.at = "count"
      BY <3>1 DEF OpenList
    <3>2. CASE Count \/ ListPage
      <4>1. request = [at |-> request.at, filter |-> request.filter, page |-> request.page,
                       total |-> request.total, served |-> request.served,
                       owed |-> request.owed, pushed |-> request.pushed]
        BY <3>2 DEF IInv, RequestOK, Count, ListPage
      <4>2. DOMAIN request = {"at", "filter", "page", "total", "served", "owed", "pushed"}
        BY <4>1
      <4>3. DOMAIN request' = DOMAIN request /\ request'.at \in {"count", "list", "shown"}
        BY <3>2, <4>1, <4>2 DEF Count, ListPage
      <4>. QED
        BY <4>2, <4>3
    <3>3. ASSUME NEW f \in Filter, ReadSources(f)
          PROVE  request'.at = "alerts"
      BY <3>3 DEF ReadSources
    <3>4. CASE ReadAlerts
      BY <3>4 DEF ReadAlerts
    <3>5. CASE ReadLinks
      BY <3>5 DEF ReadLinks
    <3>. QED
      BY <2>4, <3>1, <3>2, <3>3, <3>4, <3>5 DEF ScreensNext, Write
  <2>5. CASE UNCHANGED screens
    <3>1. request' = request /\ Between(request.filter)' = Between(request.filter)
      BY <2>5 DEF screens, Between, Present
    <3>. QED
      BY <3>1 DEF TotalInv, StatisticsAddUp
  <2>6. CASE ~ Write /\ ScreensNext /\ (\A f \in Filter : ~ ReadTotal(f)) /\ ~ ReadSeries
    BY <2>4, <2>6 DEF TotalInv, StatisticsAddUp
  <2>. QED
    BY <2>1, <2>2, <2>3, <2>5, <2>6
<1>3. SInv => StatisticsAddUp
  OBVIOUS
<1>. HIDE DEF SInv
<1>. QED
  BY <1>1, <1>2, <1>3, Invariance, PTL DEF ScreensSpec
===============================================================================

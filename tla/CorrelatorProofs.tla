--------------------------- MODULE CorrelatorProofs ---------------------------
(***************************************************************************)
(* Safety of the correlator for any finite set of attacks, any number of   *)
(* IPs and sources, any batch size and any number of faults.  It begins    *)
(* with the summaries of the registry, for any finite set of attacks: the  *)
(* one the rest relies on is PreviewIsAggregate, updating the registry     *)
(* attack by attack and aggregating the rows at once agree.                *)
(***************************************************************************)
EXTENDS Correlator, FiniteSetTheorems, TLAPS

-------------------------------------------------------------------------------
(* The summaries of module SeenIpRegistry.                                 *)

LEMMA Widen ==
  ASSUME NEW x \in Nat, NEW lo \in Nat, NEW hi \in Nat, NEW t \in Nat,
         t = x \/ (lo =< t /\ t =< hi)
  PROVE  Lesser(x, lo) =< t /\ t =< Greater(hi, x)
BY DEF Lesser, Greater

\* A finite set of numbers that is not empty has a least and a greatest element: a smallest
\* set without them would have them with one element less.
LEMMA FiniteHasBounds ==
  ASSUME NEW S \in SUBSET Nat, IsFiniteSet(S), S # {}
  PROVE  \E lo, hi \in S : \A t \in S : lo =< t /\ t =< hi
<1>. DEFINE Bounded(T) == \E lo, hi \in T : \A t \in T : lo =< t /\ t =< hi
            unbounded == {T \in FiniteSubsetsOf(S) : T # {} /\ ~ Bounded(T)}
<1>. SUFFICES ASSUME S \in unbounded  PROVE FALSE
  BY DEF FiniteSubsetsOf
<1>1. PICK T \in unbounded : \A U \in unbounded : ~ <<U, T>> \in StrictSubsetOrdering(S)
  BY FS_StrictSubsetOrderingWellFounded, WFMin, Zenon
<1>2. T \in SUBSET Nat /\ T \in SUBSET S /\ IsFiniteSet(T) /\ T # {} /\ ~ Bounded(T)
  BY <1>1 DEF FiniteSubsetsOf
<1>3. PICK x \in T : TRUE
  BY <1>2
<1>. DEFINE rest == T \ {x}
<1>4. rest \in FiniteSubsetsOf(S) /\ <<rest, T>> \in StrictSubsetOrdering(S)
  BY <1>2, <1>3, FS_Subset DEF FiniteSubsetsOf, StrictSubsetOrdering
<1>5. rest = {} \/ Bounded(rest)
  BY <1>1, <1>4
<1>6. CASE rest = {}
  BY <1>2, <1>3, <1>6
<1>7. CASE Bounded(rest)
  <2>1. PICK lo \in rest, hi \in rest : \A t \in rest : lo =< t /\ t =< hi
    BY <1>7
  <2>2. x \in Nat /\ lo \in Nat /\ hi \in Nat /\ \A t \in T : t \in Nat /\ (t = x \/ t \in rest)
    BY <1>2, <1>3, <2>1
  <2>3. Lesser(x, lo) \in T /\ Greater(hi, x) \in T
    BY <1>3, <2>1 DEF Lesser, Greater
  <2>4. \A t \in T : Lesser(x, lo) =< t /\ t =< Greater(hi, x)
    BY <2>1, <2>2, Widen
  <2>. QED
    BY <1>2, <2>3, <2>4
<1>. QED
  BY <1>5, <1>6, <1>7

\* The instants of the attacks are natural numbers, and a set of them that is
\* not empty has a least and a greatest element, which Min and Max return.
LEMMA MinMaxOfInstants ==
  ASSUME NEW T \in SUBSET Instants, T # {}
  PROVE  /\ T \subseteq Nat
         /\ Min(T) \in T /\ \A t \in T : Min(T) =< t
         /\ Max(T) \in T /\ \A t \in T : t =< Max(T)
<1>1. Instants \subseteq Nat
  BY AttackAssumption DEF Instants
<1>2. PICK lo \in T, hi \in T : \A t \in T : lo =< t /\ t =< hi
  <2>1. OccurredAt \in Surjection(Attack, Instants)
    BY AttackAssumption DEF Surjection, Instants
  <2>2. IsFiniteSet(T)
    BY <2>1, AttackAssumption, FS_Surjection, FS_Subset
  <2>. QED
    BY <1>1, <2>2, FiniteHasBounds
<1>3. Min(T) \in T /\ \A t \in T : Min(T) =< t
  BY <1>2 DEF Min
<1>4. Max(T) \in T /\ \A t \in T : t =< Max(T)
  <2>1. \A t \in T : hi >= t
    BY <1>1, <1>2
  <2>2. Max(T) \in T /\ \A t \in T : Max(T) >= t
    BY <2>1 DEF Max
  <2>. QED  BY <1>1, <2>2
<1>. QED  BY <1>1, <1>3, <1>4

\* Adding one instant lowers the first sighting, or raises the last one, to it.
LEMMA MinMaxOfOneMore ==
  ASSUME NEW T \in SUBSET Instants, T # {}, NEW t \in Instants
  PROVE  /\ Min(T \cup {t}) = Lesser(Min(T), t)
         /\ Max(T \cup {t}) = Greater(Max(T), t)
<1>. DEFINE U == T \cup {t}
<1>1. U \in SUBSET Instants /\ U # {}
  OBVIOUS
<1>2. /\ T \subseteq Nat
      /\ Min(T) \in T /\ \A u \in T : Min(T) =< u
      /\ Max(T) \in T /\ \A u \in T : u =< Max(T)
  BY MinMaxOfInstants
<1>3. /\ U \subseteq Nat
      /\ Min(U) \in U /\ \A u \in U : Min(U) =< u
      /\ Max(U) \in U /\ \A u \in U : u =< Max(U)
  <2>. HIDE DEF U
  <2>. QED  BY <1>1, MinMaxOfInstants
<1>4. t \in Nat /\ t \in U /\ T \subseteq U
  BY <1>3
<1>5. Min(U) = Lesser(Min(T), t)
  <2>. DEFINE mt == Min(T)  mu == Min(U)
  <2>1. mt \in T /\ mu \in U /\ mt \in Nat /\ mu \in Nat
    BY <1>2, <1>3
  <2>2. mu =< mt /\ mu =< t /\ (mu \in T => mt =< mu)
    BY <1>2, <1>3, <1>4
  <2>3. mu \in T \/ mu = t
    BY <1>3
  <2>. HIDE DEF mt, mu
  <2>4. mu = Lesser(mt, t)
    BY <2>1, <2>2, <2>3, <1>4 DEF Lesser
  <2>. QED  BY <2>4 DEF mt, mu
<1>6. Max(U) = Greater(Max(T), t)
  <2>. DEFINE mt == Max(T)  mu == Max(U)
  <2>1. mt \in T /\ mu \in U /\ mt \in Nat /\ mu \in Nat
    BY <1>2, <1>3
  <2>2. mt =< mu /\ t =< mu /\ (mu \in T => mu =< mt)
    BY <1>2, <1>3, <1>4
  <2>3. mu \in T \/ mu = t
    BY <1>3
  <2>. HIDE DEF mt, mu
  <2>4. mu = Greater(mt, t)
    BY <2>1, <2>2, <2>3, <1>4 DEF Greater
  <2>. QED  BY <2>4 DEF mt, mu
<1>. QED  BY <1>5, <1>6

\* A single instant is its own first and last sighting.
LEMMA MinMaxOfOne ==
  ASSUME NEW t \in Instants
  PROVE  Min({t}) = t /\ Max({t}) = t
BY MinMaxOfInstants

\* The rows of a group are finitely many attacks.
LEMMA GroupFinite ==
  ASSUME NEW A \in SUBSET Attack, NEW ip, NEW s
  PROVE  Group(A, ip, s) \in SUBSET Attack /\ IsFiniteSet(Group(A, ip, s))
BY AttackAssumption, FS_Subset DEF Group

\* The aggregation of a set of attacks is a summary; its hits are their number.
LEMMA AggregateType ==
  ASSUME NEW A \in SUBSET Attack, IsFiniteSet(A)
  PROVE  /\ Aggregate(A) \in Summary
         /\ Aggregate(A).hits = Cardinality(A)
<1>1. CASE A = {}
  BY <1>1, FS_EmptySet DEF Aggregate, Summary, NoHit
<1>2. CASE A # {}
  <2>1. InstantsOf(A) \in SUBSET Instants /\ InstantsOf(A) # {}
    BY <1>2 DEF InstantsOf, Instants
  <2>2. Min(InstantsOf(A)) \in Instants /\ Max(InstantsOf(A)) \in Instants
    BY <2>1, MinMaxOfInstants
  <2>3. Cardinality(A) \in Nat \ {0}
    BY <1>2, FS_CardinalityType, FS_EmptySet
  <2>. QED  BY <1>2, <2>2, <2>3 DEF Aggregate, Summary, Sighting
<1>. QED  BY <1>1, <1>2

\* Integrating one more attack in the aggregate of a set gives the aggregate of
\* the larger set (SeenIpRegistry.register_source against load_seen_ips).
LEMMA IntegrateAggregate ==
  ASSUME NEW A \in SUBSET Attack, IsFiniteSet(A), NEW a \in Attack \ A
  PROVE  Integrate(Aggregate(A), OccurredAt[a]) = Aggregate(A \cup {a})
<1>1. Cardinality(A \cup {a}) = Cardinality(A) + 1 /\ Cardinality(A) \in Nat
  BY FS_AddElement, FS_CardinalityType
<1>2. InstantsOf(A \cup {a}) = InstantsOf(A) \cup {OccurredAt[a]}
  BY DEF InstantsOf
<1>3. OccurredAt[a] \in Instants
  BY DEF Instants
<1>4. CASE A = {}
  <2>1. InstantsOf(A \cup {a}) = {OccurredAt[a]}
    BY <1>2, <1>4 DEF InstantsOf
  <2>2. Cardinality(A \cup {a}) = 1
    BY <1>1, <1>4, FS_EmptySet
  <2>. QED  BY <1>3, <1>4, <2>1, <2>2, MinMaxOfOne DEF Aggregate, Integrate, NoHit
<1>5. CASE A # {}
  <2>1. InstantsOf(A) \in SUBSET Instants /\ InstantsOf(A) # {}
    BY <1>5 DEF InstantsOf, Instants
  <2>2. Cardinality(A) # 0
    BY <1>5, FS_EmptySet
  <2>3. /\ Min(InstantsOf(A \cup {a})) = Lesser(Min(InstantsOf(A)), OccurredAt[a])
        /\ Max(InstantsOf(A \cup {a})) = Greater(Max(InstantsOf(A)), OccurredAt[a])
    BY <1>2, <1>3, <2>1, MinMaxOfOneMore
  <2>. QED  BY <1>1, <1>5, <2>2, <2>3 DEF Aggregate, Integrate
<1>. QED  BY <1>4, <1>5

\* Only the group of the new attack changes.
LEMMA GroupOfOneMore ==
  ASSUME NEW A \in SUBSET Attack, NEW a \in Attack, NEW ip \in Ip, NEW s \in Source
  PROVE  Group(A \cup {a}, ip, s) =
           IF IpOf[a] = ip /\ SourceOf[a] = s
             THEN Group(A, ip, s) \cup {a}
             ELSE Group(A, ip, s)
BY DEF Group

\* The registry of a set of attacks has the type of the registry.
LEMMA SeenIpsType ==
  ASSUME NEW A \in SUBSET Attack
  PROVE  SeenIps(A) \in [Ip -> [Source -> Summary]]
BY GroupFinite, AggregateType DEF SeenIps

\* The summaries projected for a new attack are those of the larger set.
LEMMA PreviewIsAggregate ==
  ASSUME NEW A \in SUBSET Attack, NEW a \in Attack \ A
  PROVE  Preview(SeenIps(A)[IpOf[a]], a) = SeenIps(A \cup {a})[IpOf[a]]
<1>. DEFINE ip == IpOf[a]
<1>1. ip \in Ip /\ SourceOf[a] \in Source
  BY AttackAssumption
<1>2. ASSUME NEW s \in Source
      PROVE  Preview(SeenIps(A)[ip], a)[s] = Aggregate(Group(A \cup {a}, ip, s))
  <2>1. CASE SourceOf[a] = s
    <3>1. a \notin Group(A, ip, s)
      BY DEF Group
    <3>2. Group(A \cup {a}, ip, s) = Group(A, ip, s) \cup {a}
      BY <1>1, <2>1, GroupOfOneMore
    <3>3. Integrate(Aggregate(Group(A, ip, s)), OccurredAt[a])
            = Aggregate(Group(A, ip, s) \cup {a})
      BY <3>1, GroupFinite, IntegrateAggregate
    <3>. QED  BY <1>1, <2>1, <3>2, <3>3 DEF Preview, SeenIps
  <2>2. CASE SourceOf[a] # s
    <3>1. Group(A \cup {a}, ip, s) = Group(A, ip, s)
      BY <1>1, <2>2, GroupOfOneMore
    <3>. QED  BY <1>1, <2>2, <3>1 DEF Preview, SeenIps
  <2>. QED  BY <2>1, <2>2
<1>. QED  BY <1>1, <1>2 DEF SeenIps, Preview

\* Registering one more attack in the registry of a set gives the registry of the
\* larger set: no other IP is touched.
LEMMA RegisterIsAggregate ==
  ASSUME NEW A \in SUBSET Attack, NEW a \in Attack \ A
  PROVE  [SeenIps(A) EXCEPT ![IpOf[a]] = Preview(@, a)] = SeenIps(A \cup {a})
<1>1. IpOf[a] \in Ip
  BY AttackAssumption
<1>2. \A ip \in Ip \ {IpOf[a]} : \A s \in Source :
        Group(A \cup {a}, ip, s) = Group(A, ip, s)
  BY DEF Group
<1>3. \A ip \in Ip \ {IpOf[a]} : SeenIps(A \cup {a})[ip] = SeenIps(A)[ip]
  BY <1>2 DEF SeenIps
<1>. DEFINE f == SeenIps(A)  g == SeenIps(A \cup {a})
<1>4. f \in [Ip -> [Source -> Summary]] /\ g \in [Ip -> [Source -> Summary]]
  BY SeenIpsType
<1>5. g[IpOf[a]] = Preview(f[IpOf[a]], a) /\ \A ip \in Ip \ {IpOf[a]} : g[ip] = f[ip]
  BY <1>3, PreviewIsAggregate
<1>. HIDE DEF f, g
<1>6. [f EXCEPT ![IpOf[a]] = Preview(f[IpOf[a]], a)] = g
  BY <1>1, <1>4, <1>5
<1>. QED  BY <1>6 DEF f, g

\* The sources of an IP are finitely many, and those that are seen have a sighting.
LEMMA SourcesInFacts ==
  ASSUME NEW summaries \in [Source -> Summary]
  PROVE  /\ IsFiniteSet(SourcesIn(summaries))
         /\ Cardinality(SourcesIn(summaries)) \in Nat
         /\ \A s \in SourcesIn(summaries) : summaries[s] \in Sighting
<1>1. IsFiniteSet(SourcesIn(summaries))
  BY SourceAssumption, FS_Subset DEF SourcesIn
<1>2. \A s \in SourcesIn(summaries) : summaries[s] \in Sighting
  BY DEF SourcesIn, Summary, NoHit
<1>. QED  BY <1>1, <1>2, FS_CardinalityType

\* The window of the summaries of an IP covers each of them.
LEMMA WindowCovers ==
  ASSUME NEW summaries \in [Source -> Summary], SourcesIn(summaries) # {}
  PROVE  /\ FirstSeen(summaries) \in Nat /\ LastSeen(summaries) \in Nat
         /\ \A s \in SourcesIn(summaries) :
              /\ summaries[s].first \in Nat /\ FirstSeen(summaries) =< summaries[s].first
              /\ summaries[s].last \in Nat /\ summaries[s].last =< LastSeen(summaries)
<1>. DEFINE F == {summaries[s].first : s \in SourcesIn(summaries)}
            L == {summaries[s].last : s \in SourcesIn(summaries)}
<1>1. F \in SUBSET Instants /\ F # {} /\ L \in SUBSET Instants /\ L # {}
  BY SourcesInFacts DEF Sighting
<1>2. F \subseteq Nat /\ Min(F) \in F /\ \A t \in F : Min(F) =< t
  <2>. HIDE DEF F
  <2>. QED  BY <1>1, MinMaxOfInstants
<1>3. L \subseteq Nat /\ Max(L) \in L /\ \A t \in L : t =< Max(L)
  <2>. HIDE DEF L
  <2>. QED  BY <1>1, MinMaxOfInstants
<1>4. FirstSeen(summaries) = Min(F) /\ LastSeen(summaries) = Max(L)
  BY DEF FirstSeen, LastSeen
<1>5. \A s \in SourcesIn(summaries) : summaries[s].first \in F /\ summaries[s].last \in L
  OBVIOUS
<1>. HIDE DEF F, L
<1>. QED  BY <1>2, <1>3, <1>4, <1>5

\* An alert is updated only for an IP with at least one source.
LEMMA SeveralSources ==
  ASSUME NEW summaries \in [Source -> Summary], Cardinality(SourcesIn(summaries)) > 1
  PROVE  SourcesIn(summaries) # {}
BY FS_EmptySet

\* Updating an alert gives an alert.
LEMMA UpdateAlertType ==
  ASSUME NEW alert \in Alert, NEW summaries \in [Source -> Summary]
  PROVE  UpdateAlert(alert, summaries) \in Alert
<1>1. CASE Cardinality(SourcesIn(summaries)) > 1
  <2>1. FirstSeen(summaries) \in Nat /\ LastSeen(summaries) \in Nat
    BY <1>1, SeveralSources, WindowCovers
  <2>2. Cardinality(SourcesIn(summaries)) \in Nat
    BY SourcesInFacts
  <2>3. alert.first \in Nat /\ alert.last \in Nat /\ alert.sources \in [Source -> Summary]
    BY DEF Alert
  <2>4. UpsertSources(alert.sources, summaries) \in [Source -> Summary]
    BY <2>3 DEF UpsertSources
  <2>5. UpsertAlert(alert, summaries) \in Alert
    BY <2>1, <2>2, <2>3, <2>4 DEF UpsertAlert, Alert, Lesser, Greater
  <2>. QED  BY <1>1, <2>5 DEF UpdateAlert
<1>2. CASE ~(Cardinality(SourcesIn(summaries)) > 1)
  BY <1>2 DEF UpdateAlert
<1>. QED  BY <1>1, <1>2

-------------------------------------------------------------------------------
(* The invariant.                                                          *)

\* What the worker holds, and what its registry and its batch are worth.
IInv ==
  /\ TypeOK
  /\ WorkerHolds
  /\ RegistryIsAggregate
  /\ CountedOnce
  /\ NoOrphanInProcessing

-------------------------------------------------------------------------------
(* Type correctness.                                                       *)

LEMMA InitTypeOK == Init => TypeOK
<1>. SUFFICES ASSUME Init PROVE TypeOK
  OBVIOUS
<1>1. NoAlert \in Alert
  BY DEF NoAlert, Alert, Summary
<1>2. SeenIps({}) \in [Ip -> [Source -> Summary]]
  BY SeenIpsType
<1>3. alerts \in [Ip -> Alert] /\ registry \in [Ip -> [Source -> Summary]]
  BY <1>1, <1>2 DEF Init
<1>4. status \in [Attack -> {"absent", "pending", "processing", "completed", "deleted"}]
  BY DEF Init
<1>. QED
  BY <1>3, <1>4, MaxFaultsAssumption DEF Init, TypeOK

\* The next state of an attack's summaries is a function of sources to summaries.
LEMMA PreviewType ==
  ASSUME NEW summaries \in [Source -> Summary], NEW a \in Attack
  PROVE  Preview(summaries, a) \in [Source -> Summary]
<1>1. SourceOf[a] \in Source /\ OccurredAt[a] \in Instants
  BY AttackAssumption DEF Instants
<1>2. Instants \subseteq Nat
  BY AttackAssumption DEF Instants
<1>3. ASSUME NEW x \in Summary, NEW t \in Instants
      PROVE  Integrate(x, t) \in Summary
  <2>1. CASE x.hits = 0
    BY <2>1 DEF Integrate, Summary, Sighting
  <2>2. CASE x.hits # 0
    <3>1. x \in Sighting
      BY <2>2 DEF Summary, NoHit
    <3>2. /\ x.first \in Instants /\ x.last \in Instants /\ x.hits \in Nat \ {0}
      BY <3>1 DEF Sighting
    <3>3. /\ Lesser(x.first, t) \in Instants /\ Greater(x.last, t) \in Instants
          /\ x.hits + 1 \in Nat \ {0}
      BY <3>2 DEF Lesser, Greater
    <3>. QED  BY <2>2, <3>3 DEF Integrate, Summary, Sighting
  <2>. QED  BY <2>1, <2>2
<1>. QED  BY <1>1, <1>3 DEF Preview

LEMMA CorrelateType ==
  ASSUME TypeOK, NEW a \in Attack, Correlate(a)
  PROVE  /\ alerts' \in [Ip -> Alert]
         /\ status' \in [Attack -> {"absent", "pending", "processing", "completed", "deleted"}]
         /\ InTable' = InTable
<1>1. IpOf[a] \in Ip
  BY AttackAssumption
<1>2. registry[IpOf[a]] \in [Source -> Summary] /\ alerts[IpOf[a]] \in Alert
  BY <1>1 DEF TypeOK
<1>3. UpdateAlert(alerts[IpOf[a]], Preview(registry[IpOf[a]], a)) \in Alert
  BY <1>2, PreviewType, UpdateAlertType
<1>4. alerts' \in [Ip -> Alert]
  BY <1>1, <1>3 DEF Correlate, TypeOK
<1>5. status' \in [Attack -> {"absent", "pending", "processing", "completed", "deleted"}]
  BY DEF Correlate, TypeOK
<1>6. InTable' = InTable
  BY DEF Correlate, TypeOK, InTable, Pending, Processing, Completed, With
<1>. QED  BY <1>4, <1>5, <1>6

LEMMA NextTypeOK == TypeOK /\ WorkerHolds /\ [Next]_vars => TypeOK'
<1>. SUFFICES ASSUME TypeOK, WorkerHolds, [Next]_vars PROVE TypeOK'
  OBVIOUS
<1>. USE DEF TypeOK, tables, memory, InTable, Pending, Processing, Completed, With
<1>1. ASSUME NEW a \in Attack, Collect(a) PROVE TypeOK'
  BY <1>1 DEF Collect
<1>2. ASSUME NEW limit \in Cutoffs, OpenPurge(limit) PROVE TypeOK'
  BY <1>2 DEF OpenPurge
<1>3. CASE CommitPurge
  BY <1>3 DEF CommitPurge
<1>4. CASE RollbackPurge
  BY <1>4, MaxFaultsAssumption DEF RollbackPurge
<1>5. ASSUME NEW expired \in SUBSET Ip, PurgeAlerts(expired) PROVE TypeOK'
  <2>1. NoAlert \in Alert
    BY DEF NoAlert, Alert, Summary
  <2>2. alerts' \in [Ip -> Alert]
    BY <1>5, <2>1 DEF PurgeAlerts
  <2>. QED  BY <1>5, <2>2 DEF PurgeAlerts
<1>6. CASE Requeue
  BY <1>6 DEF Requeue
<1>7. CASE LoadRegistry
  <2>1. Completed \in SUBSET Attack
    OBVIOUS
  <2>2. registry' \in [Ip -> [Source -> Summary]]
    BY <1>7, <2>1, SeenIpsType DEF LoadRegistry
  <2>. QED  BY <1>7, <2>2 DEF LoadRegistry
<1>8. ASSUME NEW batch \in SUBSET Attack, ClaimBatch(batch) PROVE TypeOK'
  <2>1. status' \in [Attack -> {"absent", "pending", "processing", "completed", "deleted"}]
    BY <1>8 DEF ClaimBatch
  <2>2. purge' \in SUBSET InTable'
    BY <1>8 DEF ClaimBatch
  <2>. QED  BY <1>8, <2>1, <2>2 DEF ClaimBatch
<1>9. ASSUME NEW a \in Attack, Commit(a) PROVE TypeOK'
  BY <1>9, CorrelateType DEF Commit, Correlate
<1>10. ASSUME NEW a \in Attack, CommitUnacknowledged(a) PROVE TypeOK'
  <2>1. /\ alerts' \in [Ip -> Alert] /\ InTable' = InTable
        /\ status' \in [Attack -> {"absent", "pending", "processing", "completed", "deleted"}]
    BY <1>10, CorrelateType DEF CommitUnacknowledged
  <2>2. faults' \in 0 .. MaxFaults /\ pc' = "failed" /\ current' = a
    BY <1>10, MaxFaultsAssumption DEF CommitUnacknowledged, Correlate
  <2>3. UNCHANGED <<purge, todo, registry, counted>>
    BY <1>10 DEF CommitUnacknowledged, Correlate
  <2>. HIDE DEF InTable
  <2>. QED  BY <2>1, <2>2, <2>3
<1>11. ASSUME NEW a \in Attack, Rollback(a) PROVE TypeOK'
  BY <1>11, MaxFaultsAssumption DEF Rollback
<1>12. CASE Register
  <2>1. current \in Attack
    BY <1>12 DEF Register, WorkerHolds
  <2>2. IpOf[current] \in Ip /\ registry[IpOf[current]] \in [Source -> Summary]
    BY <2>1, AttackAssumption
  <2>3. Preview(registry[IpOf[current]], current) \in [Source -> Summary]
    BY <2>1, <2>2, PreviewType
  <2>4. registry' \in [Ip -> [Source -> Summary]]
    BY <1>12, <2>3 DEF Register
  <2>5. todo' \in SUBSET Attack /\ pc' \in {"idle", "batch"} /\ current' = NoAttack
    BY <1>12 DEF Register, NextInBatch
  <2>. QED  BY <1>12, <2>1, <2>4, <2>5 DEF Register
<1>13. CASE ResetToPending
  BY <1>13 DEF ResetToPending, NextInBatch
<1>14. CASE WaitNextCycle
  BY <1>14 DEF WaitNextCycle, vars
<1>15. CASE Crash
  BY <1>15, SeenIpsType DEF Crash
<1>16. CASE UNCHANGED vars
  BY <1>16 DEF vars
<1>. QED
  BY <1>1, <1>2, <1>3, <1>4, <1>5, <1>6, <1>7, <1>8, <1>9, <1>10, <1>11, <1>12, <1>13,
     <1>14, <1>15, <1>16 DEF Next, Worker, Process

-------------------------------------------------------------------------------
(* The inductive invariant.                                                *)

LEMMA InitIInv == Init => IInv
<1>. SUFFICES ASSUME Init PROVE IInv
  OBVIOUS
<1>1. TypeOK
  BY InitTypeOK
<1>2. WorkerHolds /\ NoOrphanInProcessing /\ CountedOnce
  BY DEF Init, WorkerHolds, NoOrphanInProcessing, CountedOnce, Processing, With
<1>3. RegistryIsAggregate
  BY DEF Init, RegistryIsAggregate
<1>. QED  BY <1>1, <1>2, <1>3 DEF IInv

\* A worker step that only changes status, todo, current and pc keeps the registry.
LEMMA NextRegistryIsAggregate ==
  TypeOK /\ WorkerHolds /\ RegistryIsAggregate /\ [Next]_vars => RegistryIsAggregate'
<1>. SUFFICES ASSUME TypeOK, WorkerHolds, RegistryIsAggregate, [Next]_vars
              PROVE  RegistryIsAggregate'
  OBVIOUS
<1>1. CASE UNCHANGED memory
  BY <1>1 DEF memory, RegistryIsAggregate
<1>2. CASE LoadRegistry
  BY <1>2 DEF LoadRegistry, RegistryIsAggregate
<1>3. CASE Register
  <2>1. current \in Attack \ counted /\ counted \in SUBSET Attack
    BY <1>3 DEF Register, WorkerHolds, TypeOK
  <2>2. [SeenIps(counted) EXCEPT ![IpOf[current]] = Preview(@, current)]
          = SeenIps(counted \cup {current})
    BY <2>1, RegisterIsAggregate
  <2>. QED  BY <1>3, <2>2 DEF Register, RegistryIsAggregate
<1>4. CASE Crash
  BY <1>4 DEF Crash, RegistryIsAggregate
<1>5. LoadRegistry \/ Register \/ Crash \/ UNCHANGED memory
  BY DEF Next, Worker, Process, Collect, OpenPurge, CommitPurge, RollbackPurge, PurgeAlerts,
         Requeue, ClaimBatch, Commit, CommitUnacknowledged, Correlate, Rollback,
         ResetToPending, WaitNextCycle, vars, memory
<1>. QED  BY <1>1, <1>2, <1>3, <1>4, <1>5

\* CountedOnce and NoOrphanInProcessing, attack by attack.
CountedOnceEach ==
  pc \notin {"down", "loading"} =>
    \A a \in Attack :
      (a \in counted /\ status[a] # "deleted") <=> (status[a] = "completed" /\ a # current)

NoOrphanEach ==
  pc # "down" => \A a \in Attack : status[a] = "processing" => a \in todo

LEMMA EachIsAll ==
  ASSUME counted \in SUBSET Attack
  PROVE  /\ CountedOnce <=> CountedOnceEach
         /\ NoOrphanInProcessing <=> NoOrphanEach
BY DEF CountedOnce, CountedOnceEach, NoOrphanInProcessing, NoOrphanEach,
       Deleted, Completed, Processing, With

\* One step of the worker, the collection or the retention keeps the accounts of
\* the worker: one step per action, and under it one per part it can disturb.
LEMMA NextAccounts ==
  ASSUME TypeOK, WorkerHolds, CountedOnceEach, NoOrphanEach, [Next]_vars
  PROVE  WorkerHolds' /\ CountedOnceEach' /\ NoOrphanEach'
<1>. DEFINE Accounts == WorkerHolds /\ CountedOnceEach /\ NoOrphanEach
<1>. USE DEF WorkerHolds, CountedOnceEach, NoOrphanEach, TypeOK, tables, memory
<1>0. NoAttack \notin Attack
  BY AttackAssumption DEF NoAttack
<1>1. ASSUME NEW a \in Attack, Collect(a) PROVE Accounts'
  BY <1>1 DEF Collect
<1>2. ASSUME NEW limit \in Cutoffs, OpenPurge(limit) PROVE Accounts'
  BY <1>2 DEF OpenPurge
<1>3. CASE CommitPurge
  <2>1. /\ \A a \in Attack : status'[a] \in {status[a], "deleted"}
        /\ pc' = pc /\ todo' = todo /\ current' = current /\ counted' = counted
    BY <1>3 DEF CommitPurge
  <2>2. current \in todo => current \in Attack
    OBVIOUS
  <2>3. WorkerHolds'
    BY <2>1, <2>2
  <2>4. CountedOnceEach'
    BY <2>1
  <2>5. NoOrphanEach'
    BY <2>1
  <2>. QED  BY <2>3, <2>4, <2>5
<1>4. CASE RollbackPurge
  BY <1>4 DEF RollbackPurge
<1>5. ASSUME NEW expired \in SUBSET Ip, PurgeAlerts(expired) PROVE Accounts'
  BY <1>5 DEF PurgeAlerts
<1>6. CASE Requeue
  BY <1>6 DEF Requeue
<1>7. CASE LoadRegistry
  <2>1. counted' = Completed /\ pc' = "idle" /\ status' = status /\ todo' = {}
        /\ current' = NoAttack
    BY <1>7 DEF LoadRegistry
  <2>2. \A a \in Attack : a \in Completed <=> status[a] = "completed"
    BY DEF Completed, With
  <2>3. Completed \subseteq Attack
    BY DEF Completed, With
  <2>4. WorkerHolds'
    BY <2>1, <2>2, <2>3
  <2>5. CountedOnceEach'
    BY <1>0, <2>1, <2>2
  <2>6. NoOrphanEach'
    BY <1>7, <2>1 DEF LoadRegistry
  <2>. QED  BY <2>4, <2>5, <2>6
<1>8. ASSUME NEW batch \in SUBSET Attack, ClaimBatch(batch) PROVE Accounts'
  <2>1. \A a \in batch : status[a] = "pending"
    BY <1>8 DEF ClaimBatch, Pending, With
  <2>2. /\ status' = [a \in Attack |-> IF a \in batch THEN "processing" ELSE status[a]]
        /\ todo' = batch /\ pc' = "batch" /\ pc = "idle"
        /\ current' = NoAttack /\ counted' = counted
    BY <1>8 DEF ClaimBatch
  <2>3. WorkerHolds'
    BY <2>1, <2>2
  <2>4. CountedOnceEach'
    BY <2>1, <2>2
  <2>5. NoOrphanEach'
    BY <2>1, <2>2
  <2>. QED  BY <2>3, <2>4, <2>5
<1>9. ASSUME NEW a \in Attack, Correlate(a), pc' \in {"committed", "failed"}
      PROVE  Accounts'
  <2>1. /\ pc = "batch" /\ a \in todo /\ current = NoAttack /\ current' = a
        /\ todo' = todo /\ counted' = counted
    BY <1>9 DEF Correlate
  <2>2. status[a] \in {"processing", "deleted"} /\ a \notin counted
    BY <1>0, <2>1
  <2>3. /\ status'[a] \in {"completed", "deleted"}
        /\ \A b \in Attack \ {a} : status'[b] = status[b]
    BY <1>9, <2>2 DEF Correlate, InTable, Pending, Processing, Completed, With
  <2>4. WorkerHolds'
    BY <1>0, <1>9, <2>1, <2>2, <2>3
  <2>5. CountedOnceEach'
    BY <1>0, <1>9, <2>1, <2>2, <2>3
  <2>6. NoOrphanEach'
    BY <1>9, <2>1, <2>3
  <2>. QED  BY <2>4, <2>5, <2>6
<1>10. ASSUME NEW a \in Attack, Rollback(a) PROVE Accounts'
  <2>1. /\ pc = "batch" /\ a \in todo /\ current' = a /\ pc' = "failed" /\ current = NoAttack
        /\ todo' = todo /\ counted' = counted /\ status' = status
    BY <1>10 DEF Rollback
  <2>2. status[a] \in {"processing", "deleted"}
    BY <1>0, <2>1
  <2>. QED  BY <1>0, <2>1, <2>2
<1>11. CASE Register
  <2>1. /\ pc = "committed" /\ current \in todo /\ counted' = counted \cup {current}
        /\ todo' = todo \ {current} /\ pc' \in {"idle", "batch"} /\ current' = NoAttack
        /\ (pc' = "idle" => todo' = {}) /\ status' = status
    BY <1>11 DEF Register, NextInBatch
  <2>2. status[current] \in {"completed", "deleted"} /\ current \in Attack
    BY <2>1
  <2>3. WorkerHolds'
    BY <2>1, <2>2
  <2>4. CountedOnceEach'
    BY <1>0, <2>1, <2>2
  <2>5. NoOrphanEach'
    BY <2>1, <2>2
  <2>. QED  BY <2>3, <2>4, <2>5
<1>12. CASE ResetToPending
  <2>1. /\ pc = "failed" /\ current \in todo /\ counted' = counted
        /\ todo' = todo \ {current} /\ pc' \in {"idle", "batch"} /\ current' = NoAttack
        /\ (pc' = "idle" => todo' = {}) /\ current \in Attack
    BY <1>12 DEF ResetToPending, NextInBatch
  <2>2. /\ status'[current] \in {"pending", "deleted"}
        /\ status'[current] = "deleted" => status[current] = "deleted"
        /\ \A b \in Attack \ {current} : status'[b] = status[b]
    BY <1>12, <2>1 DEF ResetToPending, InTable, Pending, Processing, Completed, With
  <2>3. current \notin counted
    BY <2>1
  <2>4. WorkerHolds'
    BY <2>1, <2>2, <2>3
  <2>5. CountedOnceEach'
    BY <1>0, <2>1, <2>2, <2>3
  <2>6. NoOrphanEach'
    BY <2>1, <2>2
  <2>. QED  BY <2>4, <2>5, <2>6
<1>13. CASE WaitNextCycle
  BY <1>13 DEF WaitNextCycle, vars
<1>14. CASE Crash
  BY <1>14 DEF Crash
<1>15. CASE UNCHANGED vars
  BY <1>15 DEF vars
<1>16. ASSUME NEW a \in Attack, Commit(a) \/ CommitUnacknowledged(a) PROVE Accounts'
  BY <1>9, <1>16 DEF Commit, CommitUnacknowledged
<1>. HIDE DEF WorkerHolds, CountedOnceEach, NoOrphanEach, TypeOK
<1>17. Next => Accounts'
  BY <1>1, <1>2, <1>3, <1>4, <1>5, <1>6, <1>7, <1>8, <1>10, <1>11, <1>12, <1>13, <1>14,
     <1>16 DEF Next, Worker, Process
<1>. QED  BY <1>15, <1>17

\* The inductive invariant holds in every reachable state.
THEOREM Invariance == Spec => []IInv
<1>1. IInv /\ [Next]_vars => IInv'
  <2>. SUFFICES ASSUME IInv, [Next]_vars PROVE IInv'
    OBVIOUS
  <2>1. TypeOK' /\ RegistryIsAggregate'
    BY NextTypeOK, NextRegistryIsAggregate DEF IInv
  <2>2. counted \in SUBSET Attack /\ (counted \in SUBSET Attack)'
    BY <2>1 DEF IInv, TypeOK
  <2>3. CountedOnceEach /\ NoOrphanEach
    BY <2>2, EachIsAll DEF IInv
  <2>4. WorkerHolds' /\ CountedOnceEach' /\ NoOrphanEach'
    BY <2>3, NextAccounts DEF IInv
  <2>5. CountedOnce' /\ NoOrphanInProcessing'
    BY <2>2, <2>4 DEF CountedOnce, CountedOnceEach, NoOrphanInProcessing, NoOrphanEach,
                      Deleted, Completed, Processing, With
  <2>. QED  BY <2>1, <2>4, <2>5 DEF IInv
<1>. QED  BY InitIInv, <1>1, PTL DEF Spec

\* Every variable keeps its type, whatever the faults and the crashes.
THEOREM TypeCorrect == Spec => []TypeOK
BY Invariance, PTL DEF IInv

\* The registry of the worker (register_source, attack by attack) is at any time
\* what the query of load_registry would compute on the attacks it has counted.
THEOREM RegistryCorrect == Spec => []RegistryIsAggregate
BY Invariance, PTL DEF IInv

\* No completed attack is missing from the registry of a running worker, or in it
\* twice, and no attack that will be processed again is already in it.
THEOREM ExactlyOnce == Spec => []CountedOnce
BY Invariance, PTL DEF IInv

\* requeue_processing_attacks and reset_to_pending leave no attack behind.
THEOREM NoOrphan == Spec => []NoOrphanInProcessing
BY Invariance, PTL DEF IInv

-------------------------------------------------------------------------------
(* What the alerts say.                                                    *)

Collected == {a \in Attack : status[a] # "absent"}

\* An attack is never uncollected, and those the worker holds were collected.
LEMMA CollectedGrows ==
  ASSUME IInv, [Next]_vars
  PROVE  Collected \subseteq Collected'
<1>. USE DEF IInv, TypeOK, Collected
<1>1. \A a \in Attack : status[a] # "absent" => status'[a] # "absent"
  BY DEF Next, Worker, Process, Collect, OpenPurge, CommitPurge, RollbackPurge, PurgeAlerts,
         Requeue, LoadRegistry, ClaimBatch, Commit, CommitUnacknowledged, Correlate, Rollback,
         Register, ResetToPending, NextInBatch, WaitNextCycle, Crash, vars, tables, memory
<1>. QED  BY <1>1

\* Only PurgeAlerts and the transaction of process_attack write the alerts; the
\* latter projects the summaries of the attacks counted so far and of a new one.
LEMMA AlertsStep ==
  ASSUME IInv, [Next]_vars
  PROVE  \/ alerts' = alerts
         \/ \E expired \in SUBSET Ip :
              alerts' = [ip \in Ip |-> IF ip \in expired THEN NoAlert ELSE alerts[ip]]
         \/ \E A \in SUBSET Collected, ip \in Ip :
              alerts' = [alerts EXCEPT ![ip] = UpdateAlert(@, SeenIps(A)[ip])]
<1>1. CASE \E a \in Attack : Correlate(a)
  <2>1. PICK a \in Attack : Correlate(a)
    BY <1>1
  <2>2. /\ a \in Attack \ counted /\ counted \in SUBSET Attack
        /\ a \in Collected /\ counted \subseteq Collected
    BY <2>1, AttackAssumption DEF Correlate, IInv, WorkerHolds, TypeOK, Collected, NoAttack
  <2>3. Preview(registry[IpOf[a]], a) = SeenIps(counted \cup {a})[IpOf[a]]
    BY <2>2, PreviewIsAggregate DEF IInv, RegistryIsAggregate
  <2>4. IpOf[a] \in Ip /\ counted \cup {a} \in SUBSET Collected
    BY <2>2, AttackAssumption
  <2>. QED  BY <2>1, <2>3, <2>4 DEF Correlate
<1>2. CASE \E expired \in SUBSET Ip : PurgeAlerts(expired)
  BY <1>2 DEF PurgeAlerts
<1>3. \/ alerts' = alerts
      \/ \E a \in Attack : Correlate(a)
      \/ \E expired \in SUBSET Ip : PurgeAlerts(expired)
  BY DEF Next, Worker, Process, Collect, OpenPurge, CommitPurge, RollbackPurge,
         Requeue, LoadRegistry, ClaimBatch, Commit, CommitUnacknowledged, Rollback,
         Register, ResetToPending, WaitNextCycle, Crash, vars, tables, memory
<1>. QED  BY <1>1, <1>2, <1>3

\* A fuller set of attacks has more hits in every group.
LEMMA GroupGrows ==
  ASSUME NEW A \in SUBSET Attack, NEW B \in SUBSET Attack, A \subseteq B, NEW ip, NEW s
  PROVE  /\ Cardinality(Group(A, ip, s)) \in Nat /\ Cardinality(Group(B, ip, s)) \in Nat
         /\ Cardinality(Group(A, ip, s)) =< Cardinality(Group(B, ip, s))
<1>1. Group(A, ip, s) \subseteq Group(B, ip, s)
  BY DEF Group
<1>2. IsFiniteSet(Group(A, ip, s)) /\ IsFiniteSet(Group(B, ip, s))
  BY GroupFinite
<1>. QED  BY <1>1, <1>2, FS_Subset, FS_CardinalityType

\* An upsert writes the hits of the projection or keeps those of the row.
LEMMA UpdateAlertHits ==
  ASSUME NEW alert \in Alert, NEW summaries \in [Source -> Summary], NEW s \in Source
  PROVE  UpdateAlert(alert, summaries).sources[s].hits
           \in {alert.sources[s].hits, summaries[s].hits}
BY DEF UpdateAlert, UpsertAlert, UpsertSources

HitsAreAttacks(rows, ip, A) ==
  \A s \in Source : rows[s].hits =< Cardinality(Group(A, ip, s))

\* However often an attack fails and is processed again, an alert never counts
\* more hits for a source than that source reported attacks of the IP.
THEOREM NoPhantom == Spec => []NoPhantomHits
<1>. DEFINE Each == \A ip \in Ip : HitsAreAttacks(alerts[ip].sources, ip, Collected)
<1>1. Each => NoPhantomHits
  BY DEF HitsAreAttacks, NoPhantomHits, Collected
<1>2. Init => Each
  <2>. SUFFICES ASSUME Init, NEW ip \in Ip, NEW s \in Source
                PROVE  alerts[ip].sources[s].hits =< Cardinality(Group(Collected, ip, s))
    BY DEF HitsAreAttacks
  <2>1. Collected \in SUBSET Attack
    BY DEF Collected
  <2>2. Cardinality(Group(Collected, ip, s)) \in Nat
    BY <2>1, GroupGrows
  <2>3. alerts[ip].sources[s].hits = 0
    BY DEF Init, NoAlert, NoHit
  <2>. QED  BY <2>2, <2>3
<1>3. IInv /\ Each /\ [Next]_vars => Each'
  <2>. SUFFICES ASSUME IInv, Each, [Next]_vars, NEW ip \in Ip, NEW s \in Source
                PROVE  alerts'[ip].sources[s].hits =< Cardinality(Group(Collected', ip, s))
    BY DEF HitsAreAttacks
  <2>1. Collected \in SUBSET Attack /\ Collected' \in SUBSET Attack /\ Collected \subseteq Collected'
    BY CollectedGrows DEF Collected
  <2>2. /\ Cardinality(Group(Collected, ip, s)) \in Nat
        /\ Cardinality(Group(Collected', ip, s)) \in Nat
        /\ Cardinality(Group(Collected, ip, s)) =< Cardinality(Group(Collected', ip, s))
    BY <2>1, GroupGrows
  <2>3. alerts \in [Ip -> Alert]
    BY DEF IInv, TypeOK
  <2>4. alerts[ip] \in Alert
    BY <2>3
  <2>5. alerts[ip].sources[s].hits \in Nat
    BY <2>4 DEF Alert, Summary, Sighting, NoHit
  <2>6. alerts[ip].sources[s].hits =< Cardinality(Group(Collected, ip, s))
    BY DEF HitsAreAttacks
  <2>7. CASE alerts' = alerts
    BY <2>2, <2>5, <2>6, <2>7
  <2>8. ASSUME NEW expired \in SUBSET Ip,
               alerts' = [i \in Ip |-> IF i \in expired THEN NoAlert ELSE alerts[i]]
        PROVE  alerts'[ip].sources[s].hits =< Cardinality(Group(Collected', ip, s))
    <3>1. alerts'[ip].sources[s].hits \in {0, alerts[ip].sources[s].hits}
      BY <2>8 DEF NoAlert, NoHit
    <3>. QED  BY <2>2, <2>5, <2>6, <3>1
  <2>9. ASSUME NEW A \in SUBSET Collected, NEW i \in Ip,
               alerts' = [alerts EXCEPT ![i] = UpdateAlert(@, SeenIps(A)[i])]
        PROVE  alerts'[ip].sources[s].hits =< Cardinality(Group(Collected', ip, s))
    <3>1. A \in SUBSET Attack
      BY <2>1
    <3>2. SeenIps(A)[ip] \in [Source -> Summary]
      BY <3>1, SeenIpsType
    <3>3. SeenIps(A)[ip][s].hits = Cardinality(Group(A, ip, s))
      BY <3>1, GroupFinite, AggregateType DEF SeenIps
    <3>4. /\ Cardinality(Group(A, ip, s)) \in Nat
          /\ Cardinality(Group(A, ip, s)) =< Cardinality(Group(Collected, ip, s))
      BY <2>1, <3>1, GroupGrows
    <3>5. alerts'[ip].sources[s].hits \in {alerts[ip].sources[s].hits, SeenIps(A)[ip][s].hits}
      <4>1. CASE i = ip
        BY <2>3, <2>4, <2>9, <3>2, <4>1, UpdateAlertHits
      <4>2. CASE i # ip
        BY <2>3, <2>9, <4>2
      <4>. QED  BY <4>1, <4>2
    <3>. QED  BY <2>2, <2>5, <2>6, <3>3, <3>4, <3>5
  <2>. QED  BY <2>7, <2>8, <2>9, AlertsStep
<1>. QED  BY <1>1, <1>2, <1>3, Invariance, PTL DEF Spec

\* What AlertCoversItsSources says of one alert, and that an absent alert has no
\* association left (ON DELETE CASCADE).
Covers(alert) ==
  /\ \A s \in SourcesIn(alert.sources) :
       /\ alert.first =< alert.sources[s].first
       /\ alert.sources[s].last =< alert.last
  /\ alert.distinct =< Cardinality(SourcesIn(alert.sources))
  /\ alert.distinct = 0 => SourcesIn(alert.sources) = {}

LEMMA NoAlertCovers == Covers(NoAlert)
<1>1. SourcesIn(NoAlert.sources) = {} /\ NoAlert.distinct = 0
  BY DEF SourcesIn, NoAlert, NoHit
<1>. QED  BY <1>1, FS_EmptySet DEF Covers

LEMMA UpdateAlertCovers ==
  ASSUME NEW alert \in Alert, Covers(alert), NEW summaries \in [Source -> Summary]
  PROVE  Covers(UpdateAlert(alert, summaries))
<1>. DEFINE rows == UpsertSources(alert.sources, summaries)
            new == UpsertAlert(alert, summaries)
<1>1. CASE Cardinality(SourcesIn(summaries)) > 1
  <2>1. /\ FirstSeen(summaries) \in Nat /\ LastSeen(summaries) \in Nat
        /\ \A s \in SourcesIn(summaries) :
             /\ summaries[s].first \in Nat /\ FirstSeen(summaries) =< summaries[s].first
             /\ summaries[s].last \in Nat /\ summaries[s].last =< LastSeen(summaries)
    BY <1>1, SeveralSources, WindowCovers
  <2>2. /\ alert.first \in Nat /\ alert.last \in Nat /\ alert.distinct \in Nat
        /\ alert.sources \in [Source -> Summary]
    BY DEF Alert
  <2>3. /\ new.first \in Nat /\ new.first =< FirstSeen(summaries)
        /\ new.last \in Nat /\ LastSeen(summaries) =< new.last
        /\ alert.distinct # 0 => new.first =< alert.first /\ alert.last =< new.last
    BY <2>1, <2>2 DEF UpsertAlert, Lesser, Greater
  <2>4. new.sources = rows /\ new.distinct = Cardinality(SourcesIn(summaries))
    BY DEF UpsertAlert
  <2>5. rows \in [Source -> Summary]
    BY <2>2 DEF UpsertSources
  <2>6. SourcesIn(summaries) \subseteq SourcesIn(rows)
    BY DEF SourcesIn, UpsertSources
  <2>7. ASSUME NEW s \in SourcesIn(rows)
        PROVE  new.first =< rows[s].first /\ rows[s].last =< new.last
    <3>1. CASE s \in SourcesIn(summaries)
      <4>1. rows[s] = summaries[s]
        BY <3>1 DEF SourcesIn, UpsertSources
      <4>. HIDE DEF rows, new
      <4>. QED  BY <2>1, <2>3, <3>1, <4>1
    <3>2. CASE s \notin SourcesIn(summaries)
      <4>1. s \in Source /\ rows[s] = alert.sources[s]
        BY <3>2 DEF SourcesIn, UpsertSources
      <4>2. s \in SourcesIn(alert.sources)
        BY <4>1 DEF SourcesIn
      <4>3. alert.sources[s].first \in Nat /\ alert.sources[s].last \in Nat
        BY <2>2, <4>2, SourcesInFacts, MinMaxOfInstants DEF Sighting, SourcesIn, Summary, NoHit
      <4>4. /\ alert.distinct # 0
            /\ alert.first =< alert.sources[s].first /\ alert.sources[s].last =< alert.last
        BY <4>2 DEF Covers
      <4>. HIDE DEF rows, new
      <4>. QED  BY <2>2, <2>3, <4>1, <4>3, <4>4
    <3>. QED  BY <3>1, <3>2
  <2>8. Cardinality(SourcesIn(summaries)) =< Cardinality(SourcesIn(rows))
    BY <2>5, <2>6, SourcesInFacts, FS_Subset
  <2>9. UpdateAlert(alert, summaries) = new
    BY <1>1 DEF UpdateAlert
  <2>. HIDE DEF rows, new
  <2>. QED  BY <1>1, <2>4, <2>7, <2>8, <2>9 DEF Covers
<1>2. CASE ~ (Cardinality(SourcesIn(summaries)) > 1)
  BY <1>2 DEF UpdateAlert
<1>. QED  BY <1>1, <1>2

\* The window and the count of an alert agree with the sources it lists, those it
\* no longer updates included.
THEOREM WindowsCover == Spec => []AlertCoversItsSources
<1>. DEFINE Each == \A ip \in Ip : Covers(alerts[ip])
<1>1. Each => AlertCoversItsSources
  BY DEF Covers, AlertCoversItsSources
<1>2. Init => Each
  BY NoAlertCovers DEF Init
<1>3. IInv /\ Each /\ [Next]_vars => Each'
  <2>. SUFFICES ASSUME IInv, Each, [Next]_vars, NEW ip \in Ip
                PROVE  Covers(alerts'[ip])
    OBVIOUS
  <2>1. alerts \in [Ip -> Alert] /\ alerts[ip] \in Alert
    BY DEF IInv, TypeOK
  <2>2. CASE alerts' = alerts
    BY <2>2
  <2>3. ASSUME NEW expired \in SUBSET Ip,
               alerts' = [i \in Ip |-> IF i \in expired THEN NoAlert ELSE alerts[i]]
        PROVE  Covers(alerts'[ip])
    BY <2>3, NoAlertCovers
  <2>4. ASSUME NEW A \in SUBSET Collected, NEW i \in Ip,
               alerts' = [alerts EXCEPT ![i] = UpdateAlert(@, SeenIps(A)[i])]
        PROVE  Covers(alerts'[ip])
    <3>1. SeenIps(A)[ip] \in [Source -> Summary]
      BY SeenIpsType DEF Collected
    <3>2. Covers(UpdateAlert(alerts[ip], SeenIps(A)[ip]))
      BY <2>1, <3>1, UpdateAlertCovers
    <3>3. alerts'[ip] \in {alerts[ip], UpdateAlert(alerts[ip], SeenIps(A)[ip])}
      BY <2>1, <2>4
    <3>. QED  BY <3>2, <3>3
  <2>. QED  BY <2>2, <2>3, <2>4, AlertsStep
<1>. QED  BY <1>1, <1>2, <1>3, Invariance, PTL DEF Spec

-------------------------------------------------------------------------------
(* When the alerts are exact.                                              *)

Of(A, ip) == {a \in A : IpOf[a] = ip}

\* The summaries of an IP name the sources of its attacks, and their window is that
\* of its attacks.
LEMMA SeenWindow ==
  ASSUME NEW A \in SUBSET Attack, NEW ip \in Ip, NEW S, S = SeenIps(A)[ip]
  PROVE  /\ SourcesIn(S) = {SourceOf[a] : a \in Of(A, ip)}
         /\ \A a \in Of(A, ip) : FirstSeen(S) =< OccurredAt[a] /\ OccurredAt[a] =< LastSeen(S)
         /\ Of(A, ip) # {} => \E a, b \in Of(A, ip) :
              OccurredAt[a] = FirstSeen(S) /\ OccurredAt[b] = LastSeen(S)
<1>. USE DEF Of
<1>1. \A s \in Source : S[s] = Aggregate(Group(A, ip, s))
  BY DEF SeenIps
<1>2. S \in [Source -> Summary]
  BY SeenIpsType
<1>3. ASSUME NEW s \in Source
      PROVE  S[s].hits > 0 <=> Group(A, ip, s) # {}
  <2>1. IsFiniteSet(Group(A, ip, s)) /\ Group(A, ip, s) \in SUBSET Attack
    BY GroupFinite
  <2>2. S[s].hits = Cardinality(Group(A, ip, s)) /\ Cardinality(Group(A, ip, s)) \in Nat
    BY <1>1, <2>1, AggregateType, FS_CardinalityType
  <2>. QED  BY <2>1, <2>2, FS_EmptySet
<1>4. SourcesIn(S) = {SourceOf[a] : a \in Of(A, ip)}
  BY <1>3, AttackAssumption DEF SourcesIn, Group
<1>5. ASSUME NEW s \in SourcesIn(S)
      PROVE  /\ \A a \in Group(A, ip, s) : S[s].first =< OccurredAt[a] /\ OccurredAt[a] =< S[s].last
             /\ \E a, b \in Group(A, ip, s) : OccurredAt[a] = S[s].first /\ OccurredAt[b] = S[s].last
  <2>. DEFINE G == Group(A, ip, s)  T == InstantsOf(G)
  <2>1. G # {} /\ G \in SUBSET Attack /\ S[s] = Aggregate(G)
    BY <1>1, <1>3, GroupFinite DEF SourcesIn
  <2>2. T \in SUBSET Instants /\ T # {}
    BY <2>1 DEF InstantsOf, Instants
  <2>3. /\ Min(T) \in T /\ \A t \in T : Min(T) =< t
        /\ Max(T) \in T /\ \A t \in T : t =< Max(T)
    <3>. HIDE DEF T
    <3>. QED  BY <2>2, MinMaxOfInstants
  <2>4. S[s].first = Min(T) /\ S[s].last = Max(T)
    BY <2>1 DEF Aggregate
  <2>. QED  BY <2>3, <2>4 DEF InstantsOf
<1>6. ASSUME SourcesIn(S) # {}
      PROVE  \E r, s \in SourcesIn(S) : FirstSeen(S) = S[r].first /\ LastSeen(S) = S[s].last
  <2>. DEFINE F == {S[s].first : s \in SourcesIn(S)}  L == {S[s].last : s \in SourcesIn(S)}
  <2>1. F \in SUBSET Instants /\ F # {} /\ L \in SUBSET Instants /\ L # {}
    BY <1>2, <1>6, SourcesInFacts DEF Sighting
  <2>2. Min(F) \in F /\ Max(L) \in L
    <3>. HIDE DEF F, L
    <3>. QED  BY <2>1, MinMaxOfInstants
  <2>. QED  BY <2>2 DEF FirstSeen, LastSeen
<1>7. ASSUME NEW a \in Of(A, ip)
      PROVE  FirstSeen(S) =< OccurredAt[a] /\ OccurredAt[a] =< LastSeen(S)
  <2>. DEFINE s == SourceOf[a]
  <2>1. s \in SourcesIn(S) /\ a \in Group(A, ip, s) /\ OccurredAt[a] \in Nat
    BY <1>4, AttackAssumption DEF Group
  <2>2. /\ FirstSeen(S) \in Nat /\ LastSeen(S) \in Nat /\ S[s].first \in Nat /\ S[s].last \in Nat
        /\ FirstSeen(S) =< S[s].first /\ S[s].last =< LastSeen(S)
    BY <1>2, <2>1, WindowCovers
  <2>3. S[s].first =< OccurredAt[a] /\ OccurredAt[a] =< S[s].last
    BY <1>5, <2>1
  <2>. HIDE DEF s
  <2>. QED  BY <2>1, <2>2, <2>3
<1>8. ASSUME Of(A, ip) # {}
      PROVE  \E a, b \in Of(A, ip) : OccurredAt[a] = FirstSeen(S) /\ OccurredAt[b] = LastSeen(S)
  <2>1. SourcesIn(S) # {}
    BY <1>4, <1>8
  <2>2. PICK r \in SourcesIn(S), s \in SourcesIn(S) :
          FirstSeen(S) = S[r].first /\ LastSeen(S) = S[s].last
    BY <1>6, <2>1
  <2>3. PICK a \in Group(A, ip, r) : OccurredAt[a] = S[r].first
    BY <1>5
  <2>4. PICK b \in Group(A, ip, s) : OccurredAt[b] = S[s].last
    BY <1>5
  <2>5. a \in Of(A, ip) /\ b \in Of(A, ip)
    BY DEF Group
  <2>. QED  BY <2>2, <2>3, <2>4, <2>5
<1>. QED  BY <1>4, <1>7, <1>8

\* What an alert says comes from attacks B: each source has one, the window lies
\* between two of them, and an alert has at least two sources.
Grounded(alert, B) ==
  /\ alert.distinct # 1
  /\ alert.distinct > 0 =>
       \E a, b \in B : OccurredAt[a] =< alert.first /\ alert.last =< OccurredAt[b]
  /\ \A s \in SourcesIn(alert.sources) : \E a \in B : SourceOf[a] = s

LEMMA UpdateAlertGrounded ==
  ASSUME NEW alert \in Alert, NEW B \in SUBSET Attack, Grounded(alert, B),
         NEW A \in SUBSET Attack, NEW ip \in Ip, Of(A, ip) \subseteq B
  PROVE  Grounded(UpdateAlert(alert, SeenIps(A)[ip]), B)
<1>. DEFINE S == SeenIps(A)[ip]  new == UpsertAlert(alert, S)
<1>1. CASE Cardinality(SourcesIn(S)) > 1
  <2>0. S \in [Source -> Summary]
    BY SeenIpsType
  <2>. HIDE DEF S
  <2>1. SourcesIn(S) # {} /\ Cardinality(SourcesIn(S)) \in Nat
    BY <1>1, <2>0, SeveralSources, SourcesInFacts
  <2>2. FirstSeen(S) \in Nat /\ LastSeen(S) \in Nat
    BY <2>0, <2>1, WindowCovers
  <2>3. SourcesIn(S) = {SourceOf[a] : a \in Of(A, ip)}
    BY SeenWindow DEF S
  <2>4. Of(A, ip) # {}
    BY <2>1, <2>3
  <2>5. PICK a \in Of(A, ip), b \in Of(A, ip) :
          OccurredAt[a] = FirstSeen(S) /\ OccurredAt[b] = LastSeen(S)
    BY <2>4, SeenWindow DEF S
  <2>6. new.distinct # 1 /\ new.distinct > 0
    BY <1>1, <2>1 DEF UpsertAlert
  <2>7. alert.first \in Nat /\ alert.last \in Nat /\ alert.distinct \in Nat
        /\ alert.sources \in [Source -> Summary]
    BY DEF Alert
  <2>8. \E x, y \in B : OccurredAt[x] =< new.first /\ new.last =< OccurredAt[y]
    <3>0. a \in B /\ b \in B /\ \A x \in B : OccurredAt[x] \in Nat
      BY <2>5, AttackAssumption
    <3>1. CASE alert.distinct = 0
      <4>1. new.first = FirstSeen(S) /\ new.last = LastSeen(S)
        BY <3>1 DEF UpsertAlert
      <4>. HIDE DEF new
      <4>. QED  BY <2>2, <2>5, <3>0, <4>1
    <3>2. CASE alert.distinct # 0
      <4>1. PICK x \in B, y \in B : OccurredAt[x] =< alert.first /\ alert.last =< OccurredAt[y]
        BY <2>7, <3>2 DEF Grounded
      <4>2. /\ new.first \in {alert.first, FirstSeen(S)}
            /\ new.last \in {alert.last, LastSeen(S)}
        BY <2>2, <2>7, <3>2 DEF UpsertAlert, Lesser, Greater
      <4>. HIDE DEF new
      <4>. QED  BY <2>2, <2>5, <2>7, <3>0, <4>1, <4>2
    <3>. QED  BY <3>1, <3>2
  <2>9. \A s \in SourcesIn(new.sources) : \E x \in B : SourceOf[x] = s
    <3>1. SourcesIn(new.sources) \subseteq SourcesIn(alert.sources) \cup SourcesIn(S)
      BY <2>0, <2>7 DEF UpsertAlert, UpsertSources, SourcesIn
    <3>. HIDE DEF new
    <3>. QED  BY <2>3, <3>1 DEF Grounded
  <2>. HIDE DEF new
  <2>10. Grounded(new, B)
    BY <2>6, <2>8, <2>9 DEF Grounded
  <2>. QED  BY <1>1, <2>10 DEF UpdateAlert, new, S
<1>2. CASE ~ (Cardinality(SourcesIn(S)) > 1)
  BY <1>2 DEF UpdateAlert
<1>. QED  BY <1>1, <1>2

\* An attack is only completed by the transaction of process_attack, which projects
\* the attacks of its IP that are completed then, unless some of them were deleted.
LEMMA CompletionStep ==
  ASSUME IInv, [Next]_vars, NEW a \in Attack, status[a] # "completed", status'[a] = "completed"
  PROVE  \E A \in SUBSET Attack :
           /\ Completed' \subseteq A
           /\ \A b \in A : status'[b] \in {"completed", "deleted"}
           /\ alerts' = [alerts EXCEPT ![IpOf[a]] = UpdateAlert(@, SeenIps(A)[IpOf[a]])]
           /\ status' = [status EXCEPT ![a] = "completed"]
<1>. USE DEF IInv, TypeOK
<1>1. PICK b \in Attack : Correlate(b)
  BY DEF Next, Worker, Process, Collect, OpenPurge, CommitPurge, RollbackPurge, PurgeAlerts,
         Requeue, LoadRegistry, ClaimBatch, Commit, CommitUnacknowledged, Rollback,
         Register, ResetToPending, NextInBatch, WaitNextCycle, Crash, vars, tables, memory
<1>2. b = a /\ a \in InTable /\ status' = [status EXCEPT ![a] = "completed"]
  BY <1>1 DEF Correlate
<1>3. pc = "batch" /\ current = NoAttack /\ a \in todo /\ a \notin counted
  BY <1>1, <1>2, AttackAssumption DEF Correlate, WorkerHolds, NoAttack
<1>4. current \notin Attack
  BY <1>3, AttackAssumption DEF NoAttack
<1>5. counted \ Deleted = Completed
  BY <1>3, <1>4 DEF CountedOnce, Completed, With
<1>6. \A c \in counted : status[c] \in {"completed", "deleted"}
  BY DEF WorkerHolds
<1>7. Preview(registry[IpOf[a]], a) = SeenIps(counted \cup {a})[IpOf[a]]
  BY <1>3, PreviewIsAggregate DEF RegistryIsAggregate
<1>8. WITNESS counted \cup {a} \in SUBSET Attack
<1>9. Completed' \subseteq counted \cup {a}
  BY <1>2, <1>5 DEF Completed, With
<1>10. \A c \in counted \cup {a} : status'[c] \in {"completed", "deleted"}
  BY <1>2, <1>6
<1>. QED  BY <1>1, <1>2, <1>7, <1>9, <1>10 DEF Correlate

\* The step that completes an attack leaves an alert with each source that has a
\* completed attack of the IP, from the second one on (update_alerts).
THEOREM CompletionPublishes == Spec => CompletionPublishesAlert
<1>. DEFINE Seen(a) == {SourceOf[b] : b \in {c \in Completed' : IpOf[c] = IpOf[a]}}
            Published(a) == Cardinality(Seen(a)) > 1 =>
                              /\ alerts'[IpOf[a]].distinct >= Cardinality(Seen(a))
                              /\ Seen(a) \subseteq SourcesIn(alerts'[IpOf[a]].sources)
            A0 == \A a \in Attack : status[a] # "completed" /\ status'[a] = "completed" => Published(a)
<1>1. ASSUME IInv, [Next]_vars PROVE A0
  <2>. SUFFICES ASSUME NEW a \in Attack, status[a] # "completed", status'[a] = "completed",
                       Cardinality(Seen(a)) > 1
                PROVE  /\ alerts'[IpOf[a]].distinct >= Cardinality(Seen(a))
                       /\ Seen(a) \subseteq SourcesIn(alerts'[IpOf[a]].sources)
    OBVIOUS
  <2>. DEFINE ip == IpOf[a]
  <2>1. PICK A \in SUBSET Attack :
          /\ Completed' \subseteq A
          /\ alerts' = [alerts EXCEPT ![ip] = UpdateAlert(@, SeenIps(A)[ip])]
    BY <1>1, CompletionStep
  <2>. DEFINE S == SeenIps(A)[ip]
  <2>2. ip \in Ip /\ alerts \in [Ip -> Alert]
    BY <1>1, AttackAssumption DEF IInv, TypeOK
  <2>3. S \in [Source -> Summary]
    BY <2>2, SeenIpsType
  <2>4. IsFiniteSet(SourcesIn(S)) /\ Cardinality(SourcesIn(S)) \in Nat
    <3>. HIDE DEF S
    <3>. QED  BY <2>3, SourcesInFacts
  <2>5. SourcesIn(S) = {SourceOf[b] : b \in Of(A, ip)}
    BY <2>2, SeenWindow
  <2>6. Seen(a) \subseteq SourcesIn(S)
    BY <2>1, <2>5 DEF Of
  <2>. HIDE DEF Seen, S
  <2>7. Cardinality(Seen(a)) =< Cardinality(SourcesIn(S)) /\ Cardinality(Seen(a)) \in Nat
    BY <2>4, <2>6, FS_Subset, FS_CardinalityType
  <2>8. alerts'[ip] = UpsertAlert(alerts[ip], S)
    BY <2>1, <2>2, <2>4, <2>7 DEF UpdateAlert, S
  <2>9. /\ alerts'[ip].distinct = Cardinality(SourcesIn(S))
        /\ SourcesIn(S) \subseteq SourcesIn(alerts'[ip].sources)
    BY <2>8 DEF UpsertAlert, UpsertSources, SourcesIn
  <2>. QED  BY <2>4, <2>6, <2>7, <2>9
<1>2. CompletionPublishesAlert <=> [][A0]_vars
  BY DEF CompletionPublishesAlert
<1>3. IInv /\ [Next]_vars => [A0]_vars
  BY <1>1
<1>. HIDE DEF A0
<1>. QED  BY <1>2, <1>3, Invariance, PTL DEF Spec

\* An alert grounded in the very attacks it is updated from becomes the alert a
\* first insertion would have given, or stays absent.
LEMMA ExactUpdate ==
  ASSUME NEW alert \in Alert, NEW A \in SUBSET Attack, NEW ip \in Ip,
         Covers(alert), Grounded(alert, Of(A, ip)),
         NEW S, S = SeenIps(A)[ip], UpdateAlert(alert, S).distinct > 0
  PROVE  UpdateAlert(alert, S) = UpsertAlert(NoAlert, S)
<1>1. S \in [Source -> Summary] /\ alert.sources \in [Source -> Summary]
  BY SeenIpsType DEF Alert
<1>2. /\ IsFiniteSet(SourcesIn(S)) /\ Cardinality(SourcesIn(S)) \in Nat
      /\ Cardinality(SourcesIn(alert.sources)) \in Nat
  BY <1>1, SourcesInFacts
<1>3. SourcesIn(S) = {SourceOf[a] : a \in Of(A, ip)}
  BY SeenWindow
<1>4. SourcesIn(alert.sources) \subseteq SourcesIn(S)
  BY <1>3 DEF Grounded
<1>5. CASE Cardinality(SourcesIn(S)) > 1
  <2>1. SourcesIn(S) # {}
    BY <1>1, <1>5, SeveralSources
  <2>2. FirstSeen(S) \in Nat /\ LastSeen(S) \in Nat
    BY <1>1, <2>1, WindowCovers
  <2>3. alert.first \in Nat /\ alert.last \in Nat /\ alert.distinct \in Nat
    BY DEF Alert
  <2>4. alert.distinct # 0 =>
          Lesser(alert.first, FirstSeen(S)) = FirstSeen(S) /\
          Greater(alert.last, LastSeen(S)) = LastSeen(S)
    <3>. SUFFICES ASSUME alert.distinct > 0
                  PROVE  FirstSeen(S) =< alert.first /\ alert.last =< LastSeen(S)
      BY <2>2, <2>3 DEF Lesser, Greater
    <3>1. PICK a \in Of(A, ip), b \in Of(A, ip) :
            OccurredAt[a] =< alert.first /\ alert.last =< OccurredAt[b]
      BY DEF Grounded
    <3>2. FirstSeen(S) =< OccurredAt[a] /\ OccurredAt[b] =< LastSeen(S)
      BY SeenWindow
    <3>3. OccurredAt[a] \in Nat /\ OccurredAt[b] \in Nat
      BY AttackAssumption DEF Of
    <3>. QED  BY <2>2, <2>3, <3>1, <3>2, <3>3
  <2>5. ASSUME NEW s \in Source, ~ (S[s].hits > 0) PROVE alert.sources[s] = NoHit
    <3>1. s \notin SourcesIn(alert.sources)
      BY <1>4, <2>5 DEF SourcesIn
    <3>. QED  BY <1>1, <3>1 DEF SourcesIn, Summary, Sighting
  <2>6. UpsertSources(alert.sources, S) = UpsertSources(NoAlert.sources, S)
    BY <2>5 DEF UpsertSources, NoAlert
  <2>7. UpsertAlert(alert, S) = UpsertAlert(NoAlert, S)
    BY <2>4, <2>6 DEF UpsertAlert, NoAlert
  <2>. QED  BY <1>5, <2>7 DEF UpdateAlert
<1>6. CASE ~ (Cardinality(SourcesIn(S)) > 1)
  <2>1. alert.distinct =< Cardinality(SourcesIn(alert.sources)) /\ alert.distinct \in Nat
    BY DEF Covers, Alert
  <2>2. Cardinality(SourcesIn(alert.sources)) =< Cardinality(SourcesIn(S))
    BY <1>2, <1>4, FS_Subset
  <2>3. alert.distinct # 1 /\ UpdateAlert(alert, S) = alert
    BY <1>6 DEF Grounded, UpdateAlert
  <2>. QED  BY <1>2, <1>6, <2>1, <2>2, <2>3
<1>. QED  BY <1>5, <1>6

\* An IP with nothing to process is not the one a transaction is about.
LEMMA SettledStep ==
  ASSUME IInv, [Next]_vars, NEW ip \in Ip, Settled(ip)
  PROVE  alerts'[ip] \in {alerts[ip], NoAlert}
<1>. USE DEF IInv, TypeOK
<1>1. CASE \E a \in Attack : Correlate(a)
  <2>1. PICK a \in Attack : Correlate(a)
    BY <1>1
  <2>2. pc = "batch" /\ a \in todo /\ current = NoAttack
    BY <2>1 DEF Correlate, WorkerHolds
  <2>3. status[a] \in {"processing", "deleted"}
    BY <2>2, AttackAssumption DEF WorkerHolds, NoAttack
  <2>4. IpOf[a] # ip
    BY <2>3 DEF Settled
  <2>. QED  BY <2>1, <2>4 DEF Correlate
<1>2. CASE ~ \E a \in Attack : Correlate(a)
  BY <1>2 DEF Next, Worker, Process, Collect, OpenPurge, CommitPurge, RollbackPurge, PurgeAlerts,
         Requeue, LoadRegistry, ClaimBatch, Commit, CommitUnacknowledged, Rollback,
         Register, ResetToPending, NextInBatch, WaitNextCycle, Crash, vars, tables, memory
<1>. QED  BY <1>1, <1>2

\* An alert that a failure, a lost acknowledgement or a restart had a part in says,
\* once nothing of its IP remains to be processed, what one faultless run over the
\* completed attacks would have made it say.  The strengthening keeps what the
\* alert covers and the attacks it is grounded in, settled or not.
THEOREM SettledIsExact == Spec => []SettledAlertIsExact
<1>. DEFINE Exact(ip) == Settled(ip) /\ alerts[ip].distinct > 0 =>
                           alerts[ip] = UpsertAlert(NoAlert, SeenIps(Completed)[ip])
            Each == \A ip \in Ip : /\ Covers(alerts[ip])
                                   /\ Grounded(alerts[ip], Of(Collected, ip))
                                   /\ Exact(ip)
<1>1. Each => SettledAlertIsExact
  BY DEF SettledAlertIsExact
<1>2. Init => Each
  <2>1. /\ SourcesIn(NoAlert.sources) = {} /\ NoAlert.distinct = 0
        /\ \A B : Grounded(NoAlert, B)
    BY DEF SourcesIn, NoAlert, NoHit, Grounded
  <2>. QED  BY <2>1, NoAlertCovers DEF Init
<1>3. IInv /\ Each /\ [Next]_vars => Each'
  <2>. SUFFICES ASSUME IInv, Each, [Next]_vars, NEW ip \in Ip
                PROVE  Covers(alerts'[ip]) /\ Grounded(alerts'[ip], Of(Collected', ip)) /\ Exact(ip)'
    OBVIOUS
  <2>1. /\ alerts \in [Ip -> Alert] /\ alerts[ip] \in Alert
        /\ Collected \subseteq Collected' /\ Collected' \in SUBSET Attack
        /\ Completed' \in SUBSET Attack
    BY CollectedGrows DEF IInv, TypeOK, Collected, Completed, With
  <2>2. Covers(alerts[ip]) /\ Grounded(alerts[ip], Of(Collected', ip))
    BY <2>1 DEF Grounded, Of
  <2>3. Covers(NoAlert) /\ Grounded(NoAlert, Of(Collected', ip)) /\ NoAlert.distinct = 0
    <3>1. SourcesIn(NoAlert.sources) = {} /\ NoAlert.distinct = 0
      BY DEF SourcesIn, NoAlert, NoHit
    <3>. QED  BY <3>1, NoAlertCovers DEF Grounded
  <2>4. ASSUME NEW A \in SUBSET Collected, NEW i \in Ip,
               alerts' = [alerts EXCEPT ![i] = UpdateAlert(@, SeenIps(A)[i])]
        PROVE  Covers(alerts'[ip]) /\ Grounded(alerts'[ip], Of(Collected', ip))
    <3>1. A \in SUBSET Attack /\ Of(A, ip) \subseteq Of(Collected', ip)
             /\ Of(Collected', ip) \in SUBSET Attack
      BY <2>1 DEF Collected, Of
    <3>2. Covers(UpdateAlert(alerts[ip], SeenIps(A)[ip]))
      BY <2>1, <2>2, <3>1, SeenIpsType, UpdateAlertCovers
    <3>3. Grounded(UpdateAlert(alerts[ip], SeenIps(A)[ip]), Of(Collected', ip))
      BY <2>1, <2>2, <3>1, UpdateAlertGrounded
    <3>4. alerts'[ip] \in {alerts[ip], UpdateAlert(alerts[ip], SeenIps(A)[ip])}
      BY <2>1, <2>4
    <3>. QED  BY <2>2, <3>2, <3>3, <3>4
  <2>5. Covers(alerts'[ip]) /\ Grounded(alerts'[ip], Of(Collected', ip))
    <3>1. CASE alerts' = alerts
      BY <2>2, <3>1
    <3>2. ASSUME NEW expired \in SUBSET Ip,
                 alerts' = [i \in Ip |-> IF i \in expired THEN NoAlert ELSE alerts[i]]
          PROVE  alerts'[ip] \in {alerts[ip], NoAlert}
      BY <3>2
    <3>. QED  BY <2>2, <2>3, <2>4, <3>1, <3>2, AlertsStep
  <2>6. Exact(ip)'
    <3>. SUFFICES ASSUME Settled(ip)', alerts'[ip].distinct > 0
                  PROVE  alerts'[ip] = UpsertAlert(NoAlert, SeenIps(Completed')[ip])
      OBVIOUS
    <3>. USE DEF Of
    <3>1. \A a \in Of(Attack, ip) : status'[a] \in {"absent", "completed"}
      BY DEF Settled
    <3>2. CASE \E a \in Of(Attack, ip) : status[a] # "completed" /\ status'[a] = "completed"
      <4>1. PICK a \in Of(Attack, ip) : status[a] # "completed" /\ status'[a] = "completed"
        BY <3>2
      <4>2. PICK A \in SUBSET Attack :
              /\ Completed' \subseteq A
              /\ \A b \in A : status'[b] \in {"completed", "deleted"}
              /\ alerts' = [alerts EXCEPT ![ip] = UpdateAlert(@, SeenIps(A)[ip])]
              /\ status' = [status EXCEPT ![a] = "completed"]
        BY <4>1, CompletionStep
      <4>3. Of(A, ip) = Of(Completed', ip)
        BY <3>1, <4>2 DEF Completed, With
      <4>4. SeenIps(A)[ip] = SeenIps(Completed')[ip]
        BY <4>3 DEF SeenIps, Group
      <4>5. Grounded(alerts[ip], Of(A, ip))
        <5>1. Of(Collected', ip) = Of(A, ip)
          BY <3>1, <4>3 DEF Collected, Completed, With
        <5>. QED  BY <2>2, <5>1
      <4>6. alerts'[ip] = UpdateAlert(alerts[ip], SeenIps(A)[ip])
        BY <2>1, <4>2
      <4>. QED  BY <2>1, <2>2, <4>4, <4>5, <4>6, ExactUpdate
    <3>3. CASE ~ \E a \in Of(Attack, ip) : status[a] # "completed" /\ status'[a] = "completed"
      <4>1. \A a \in Of(Attack, ip) : status'[a] = status[a]
        BY <2>1, <3>1, <3>3 DEF Collected
      <4>2. Settled(ip)
        BY <3>1, <4>1 DEF Settled
      <4>3. alerts'[ip] = alerts[ip]
        BY <2>3, <4>2, SettledStep
      <4>4. \A s \in Source : Group(Completed', ip, s) = Group(Completed, ip, s)
        BY <4>1 DEF Group, Completed, With
      <4>5. SeenIps(Completed')[ip] = SeenIps(Completed)[ip]
        BY <4>4 DEF SeenIps
      <4>. QED  BY <4>2, <4>3, <4>5
    <3>. QED  BY <3>2, <3>3
  <2>. QED  BY <2>5, <2>6
<1>. QED  BY <1>1, <1>2, <1>3, Invariance, PTL DEF Spec

-------------------------------------------------------------------------------
(* The promise of AlertLedger.                                             *)

\* The operators of SeenIpRegistry that AlertLedger uses are those of Correlator.
LEMMA SameOperators ==
  /\ Ledger!NoAlert = NoAlert
  /\ \A alert, A, ip : Ledger!UpdateAlert(alert, Ledger!SeenIps(A)[ip])
                         = UpdateAlert(alert, SeenIps(A)[ip])
<1>1. ASSUME NEW S  PROVE Ledger!Cardinality(S) = Cardinality(S)
  BY DEF Ledger!Cardinality, Cardinality
<1>2. ASSUME NEW A, NEW ip  PROVE Ledger!SeenIps(A)[ip] = SeenIps(A)[ip]
  BY <1>1 DEF Ledger!SeenIps, SeenIps, Ledger!Aggregate, Aggregate, Ledger!Group, Group,
              Ledger!InstantsOf, InstantsOf, Ledger!Min, Min, Ledger!Max, Max, Ledger!NoHit, NoHit
<1>3. ASSUME NEW alert, NEW summaries
      PROVE  Ledger!UpdateAlert(alert, summaries) = UpdateAlert(alert, summaries)
  BY <1>1 DEF Ledger!UpdateAlert, UpdateAlert, Ledger!UpsertAlert, UpsertAlert,
              Ledger!UpsertSources, UpsertSources, Ledger!SourcesIn, SourcesIn, Ledger!FirstSeen,
              FirstSeen, Ledger!LastSeen, LastSeen, Ledger!Lesser, Lesser, Ledger!Greater, Greater,
              Ledger!Min, Min, Ledger!Max, Max
<1>4. Ledger!NoAlert = NoAlert
  BY DEF Ledger!NoAlert, NoAlert, Ledger!NoHit, NoHit
<1>. QED
  BY <1>2, <1>3, <1>4

\* What is queued, completed or deleted, attack by attack.
LEMMA Members ==
  /\ \A a : a \in Pending \cup Processing <=>
            a \in Attack /\ status[a] \in {"pending", "processing"}
  /\ \A a : a \in Completed <=> a \in Attack /\ status[a] = "completed"
  /\ \A a : a \in Deleted <=> a \in Attack /\ status[a] = "deleted"
BY DEF Pending, Processing, Completed, Deleted, With

\* The commit of an attack: it is completed, unless it was deleted meanwhile, with the alert
\* of what the worker has counted, which is what is completed and some of what was deleted.
LEMMA CorrelateImplements ==
  ASSUME IInv, NEW a \in Attack, Correlate(a)
  PROVE  Ledger!Complete(a) \/ Ledger!CompleteDeleted(a)
<1>. DEFINE late == (counted \cup {a}) \cap Deleted
<1>1. /\ pc = "batch" /\ a \in todo /\ a \notin counted /\ current \notin Attack
      /\ status[a] \in {"processing", "deleted"} /\ counted \in SUBSET Attack
  BY AttackAssumption DEF IInv, TypeOK, WorkerHolds, Correlate, NoAttack
<1>2. Preview(registry[IpOf[a]], a) = SeenIps(counted \cup {a})[IpOf[a]]
  BY <1>1, PreviewIsAggregate DEF IInv, RegistryIsAggregate
<1>3. counted \ Deleted = Completed
  BY <1>1, Members DEF IInv, CountedOnce
<1>4. /\ status' = [status EXCEPT ![a] = IF a \in InTable THEN "completed" ELSE @]
      /\ status \in [Attack -> {"absent", "pending", "processing", "completed", "deleted"}]
  BY DEF Correlate, IInv, TypeOK
<1>5. /\ \A b : b \in (Pending \cup Processing)' <=>
                b \in Attack /\ status'[b] \in {"pending", "processing"}
      /\ \A b : b \in Completed' <=> b \in Attack /\ status'[b] = "completed"
      /\ \A b : b \in Deleted' <=> b \in Attack /\ status'[b] = "deleted"
  BY DEF Pending, Processing, Completed, Deleted, With
<1>6. Deleted' = Deleted /\ late \in SUBSET Deleted
  BY <1>4, <1>5, Members DEF InTable
<1>7. counted \cup {a} = Completed' \cup late
  BY <1>1, <1>3, <1>4, <1>5, Members DEF InTable
<1>8. Ledger!Publish(IpOf[a], late)
  <2>1. alerts' = [alerts EXCEPT ![IpOf[a]] =
                     UpdateAlert(@, SeenIps(Completed' \cup late)[IpOf[a]])]
    BY <1>2, <1>7 DEF Correlate
  <2>2. UpdateAlert(alerts[IpOf[a]], SeenIps(Completed' \cup late)[IpOf[a]])
          = Ledger!UpdateAlert(alerts[IpOf[a]], Ledger!SeenIps(Completed' \cup late)[IpOf[a]])
    BY SameOperators
  <2>. HIDE DEF late
  <2>. QED
    BY <2>1, <2>2 DEF Ledger!Publish
<1>. HIDE DEF late
<1>9. CASE status[a] = "processing"
  <2>1. /\ a \in Pending \cup Processing
        /\ (Pending \cup Processing)' = (Pending \cup Processing) \ {a}
        /\ Completed' = Completed \cup {a}
    BY <1>4, <1>5, <1>9, Members DEF InTable
  <2>. QED
    BY <1>6, <1>8, <2>1 DEF Ledger!Complete
<1>10. CASE status[a] = "deleted"
  <2>1. /\ a \in Deleted /\ a \in late
        /\ (Pending \cup Processing)' = Pending \cup Processing
        /\ Completed' = Completed
    BY <1>4, <1>5, <1>10, Members DEF InTable, late
  <2>. QED
    BY <1>6, <1>8, <2>1 DEF Ledger!CompleteDeleted
<1>. QED
  BY <1>1, <1>9, <1>10

\* The worker implements AlertLedger: its batches, its registry, its failures and its
\* restarts leave no trace in the alerts.
LEMMA StepImplements ==
  ASSUME IInv, [Next]_vars
  PROVE  [Ledger!LedgerNext]_(Ledger!ledger)
<1>. USE DEF Ledger!ledger, tables
<1>0. status \in [Attack -> {"absent", "pending", "processing", "completed", "deleted"}]
  BY DEF IInv, TypeOK
<1>1. /\ \A b : b \in (Pending \cup Processing)' <=>
                b \in Attack /\ status'[b] \in {"pending", "processing"}
      /\ \A b : b \in Completed' <=> b \in Attack /\ status'[b] = "completed"
      /\ \A b : b \in Deleted' <=> b \in Attack /\ status'[b] = "deleted"
  BY DEF Pending, Processing, Completed, Deleted, With
<1>2. ASSUME UNCHANGED alerts,
             \A b \in Attack : \/ status'[b] = status[b]
                               \/ {status[b], status'[b]} \subseteq {"pending", "processing"}
      PROVE  UNCHANGED Ledger!ledger
  BY <1>1, <1>2, Members
<1>3. ASSUME UNCHANGED <<status, alerts>>  PROVE UNCHANGED Ledger!ledger
  BY <1>2, <1>3
<1>4. ASSUME NEW a \in Attack, Collect(a)  PROVE Ledger!Enqueue(a)
  <2>1. status[a] = "absent" /\ status' = [status EXCEPT ![a] = "pending"] /\ UNCHANGED alerts
    BY <1>4 DEF Collect
  <2>2. /\ a \notin (Pending \cup Processing) \cup Completed \cup Deleted
        /\ (Pending \cup Processing)' = (Pending \cup Processing) \cup {a}
        /\ Completed' = Completed /\ Deleted' = Deleted
    BY <1>0, <1>1, <2>1, Members
  <2>. QED
    BY <2>1, <2>2 DEF Ledger!Enqueue
<1>5. CASE CommitPurge
  <2>1. /\ status' = [a \in Attack |-> IF a \in purge THEN "deleted" ELSE status[a]]
        /\ UNCHANGED alerts /\ purge \in SUBSET InTable
    BY <1>5 DEF CommitPurge, IInv, TypeOK
  <2>2. /\ Deleted \subseteq Deleted'
        /\ Deleted' \subseteq (Pending \cup Processing) \cup Completed \cup Deleted
        /\ (Pending \cup Processing)' = (Pending \cup Processing) \ Deleted'
        /\ Completed' = Completed \ Deleted'
    BY <1>0, <1>1, <2>1, Members DEF InTable
  <2>. QED
    BY <2>1, <2>2 DEF Ledger!DeleteAttacks, Ledger!LedgerNext
<1>6. ASSUME NEW expired \in SUBSET Ip, PurgeAlerts(expired)  PROVE Ledger!DeleteAlerts(expired)
  <2>1. UNCHANGED <<Pending, Processing, Completed, Deleted>>
    BY <1>6 DEF PurgeAlerts, Pending, Processing, Completed, Deleted, With
  <2>. QED
    BY <1>6, <2>1, SameOperators DEF PurgeAlerts, Ledger!DeleteAlerts
<1>7. CASE Requeue
  BY <1>0, <1>2, <1>7 DEF Requeue
<1>8. ASSUME NEW batch \in SUBSET Attack, ClaimBatch(batch)  PROVE UNCHANGED Ledger!ledger
  BY <1>0, <1>2, <1>8 DEF ClaimBatch, Pending, With
<1>9. CASE ResetToPending
  <2>1. /\ current \in Attack /\ status[current] \in {"processing", "completed", "deleted"}
        /\ status' = [status EXCEPT ![current] = IF current \in InTable THEN "pending" ELSE @]
        /\ UNCHANGED alerts
    BY <1>9 DEF ResetToPending, IInv, TypeOK, WorkerHolds
  <2>2. CASE status[current] = "completed"
    <3>1. /\ current \in Completed
          /\ (Pending \cup Processing)' = (Pending \cup Processing) \cup {current}
          /\ Completed' = Completed \ {current} /\ Deleted' = Deleted
      BY <1>0, <1>1, <2>1, <2>2, Members DEF InTable
    <3>2. Ledger!Retry(current)
      BY <2>1, <3>1 DEF Ledger!Retry
    <3>. QED
      BY <2>1, <3>2 DEF Ledger!LedgerNext
  <2>3. CASE status[current] # "completed"
    BY <1>0, <1>2, <2>1, <2>3, Members DEF InTable
  <2>. QED
    BY <2>2, <2>3
<1>10. ASSUME NEW a \in Attack, Commit(a) \/ CommitUnacknowledged(a)
       PROVE  Ledger!Complete(a) \/ Ledger!CompleteDeleted(a)
  BY <1>10, CorrelateImplements DEF Commit, CommitUnacknowledged
<1>11. \/ \E a \in Attack : Collect(a) \/ Commit(a) \/ CommitUnacknowledged(a)
       \/ CommitPurge \/ Requeue \/ ResetToPending
       \/ \E expired \in SUBSET Ip : PurgeAlerts(expired)
       \/ \E batch \in SUBSET Attack : ClaimBatch(batch)
       \/ UNCHANGED <<status, alerts>>
  BY DEF Next, Worker, Process, OpenPurge, RollbackPurge, LoadRegistry, Rollback, Register,
         WaitNextCycle, Crash, vars
<1>. QED
  BY <1>3, <1>4, <1>5, <1>6, <1>7, <1>8, <1>9, <1>10, <1>11 DEF Ledger!LedgerNext

\* The correlator implements AlertLedger: whatever fails, dies or is repeated, an alert is
\* only written from what is completed when it is written, each attack once, and from what
\* retention has deleted.
THEOREM Implements == Spec => ImplementsLedger
<1>1. Init => Ledger!LedgerInit
  BY SameOperators DEF Init, Ledger!LedgerInit, Pending, Processing, Completed, Deleted, With
<1>2. IInv /\ [Next]_vars => [Ledger!LedgerNext]_(Ledger!ledger)
  BY StepImplements
<1>. QED
  BY <1>1, <1>2, Invariance, PTL DEF Spec, ImplementsLedger, Ledger!LedgerSpec
===============================================================================

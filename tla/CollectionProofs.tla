--------------------------- MODULE CollectionProofs ---------------------------
(***************************************************************************)
(* No gap in the collection, for any finite set of events, any number of   *)
(* sources, any page size, any safety window and any failures.             *)
(***************************************************************************)
EXTENDS Collection, FiniteSetTheorems, TLAPS

Busy == pc \in {"fetch", "store", "mark", "fail"}

\* The events of source s that a window starting Safety before c will not list
\* again are in the table.
GapFree(s, c) ==
  \A e \in Event \ Unusable :
    /\ SourceOf[e] = s
    /\ since[s] =< OccurredAt[e]
    /\ OccurredAt[e] + Safety < c
    /\ InTime(e)
    => KeyOf[e] \in rows

ClockInv ==
  /\ \A e \in Event : published[e] # None =>
       OccurredAt[e] =< published[e] /\ published[e] =< now
  /\ \A s \in Source : cursor[s] # None => cursor[s] =< now

\* The window of the job in hand, and what its failure would fall back to.
JobInv ==
  Busy =>
    /\ job \in Job
    /\ job.before =< now
    /\ job.after = WindowStart(job.read, job.before)
    /\ pc # "fail" => cursor[job.source] = job.read
    /\ job.read # None =>
         /\ job.read =< job.before
         /\ cursor[job.source] # None
         /\ GapFree(job.source, job.read)

\* Listed since before the window was opened.
Early == {e \in Listed : published[e] < job.before}

\* What the pages read so far are known to hold.
ReadInv ==
  /\ pc = "fetch" =>
       \A e \in Early : Rank(e, Listed) =< job.offset => e \in job.got
  /\ pc \in {"store", "mark"} /\ PollCursor # None =>
       /\ PollCursor =< job.before
       /\ \A e \in Early : OccurredAt[e] < PollCursor => e \in job.got
  /\ pc = "mark" => \A e \in Usable : KeyOf[e] \in rows

\* NoGap, source by source.
Covered == \A s \in Source : cursor[s] # None => GapFree(s, cursor[s])

IInv == TypeOK /\ ClockInv /\ JobInv /\ ReadInv /\ Covered

LEMMA CoveredIsNoGap ==
  ASSUME Covered
  PROVE  NoGap
BY EventAssumption DEF NoGap, GapFree, Covered

-------------------------------------------------------------------------------
(* Ranks in a listing.                                                     *)

LEMMA ListingFinite ==
  ASSUME NEW s, NEW after, NEW before
  PROVE  /\ Listing(s, after, before) \in SUBSET Event
         /\ IsFiniteSet(Listing(s, after, before))
BY EventAssumption, FS_Subset DEF Listing

LEMMA RankType ==
  ASSUME NEW L \in SUBSET Event, NEW e \in Event
  PROVE  Rank(e, L) \in Nat /\ Cardinality(L) \in Nat /\ (e \in L => Rank(e, L) =< Cardinality(L))
<1>1. IsFiniteSet(L) /\ IsFiniteSet({f \in L : f = e \/ Before(f, e)})
  BY EventAssumption, FS_Subset
<1>. QED  BY <1>1, FS_CardinalityType, FS_Subset DEF Rank

\* A listing that grows does not bring an event nearer to its start.
LEMMA RankGrows ==
  ASSUME NEW L \in SUBSET Event, NEW M \in SUBSET Event, L \subseteq M, NEW e \in Event
  PROVE  Rank(e, L) =< Rank(e, M)
<1>1. IsFiniteSet({f \in M : f = e \/ Before(f, e)})
  BY EventAssumption, FS_Subset
<1>2. {f \in L : f = e \/ Before(f, e)} \subseteq {f \in M : f = e \/ Before(f, e)}
  OBVIOUS
<1>. QED  BY <1>1, <1>2, FS_Subset DEF Rank

LEMMA BeforeTransitive ==
  ASSUME NEW e \in Event, NEW f \in Event, NEW g \in Event, Before(e, f), Before(f, g)
  PROVE  Before(e, g)
BY EventAssumption DEF Before

LEMMA RankOrder ==
  ASSUME NEW L \in SUBSET Event, NEW e \in Event, NEW f \in Event, Before(e, f)
  PROVE  Rank(e, L) =< Rank(f, L)
<1>1. IsFiniteSet({g \in L : g = f \/ Before(g, f)})
  BY EventAssumption, FS_Subset
<1>2. {g \in L : g = e \/ Before(g, e)} \subseteq {g \in L : g = f \/ Before(g, f)}
  BY BeforeTransitive
<1>. QED  BY <1>1, <1>2, FS_Subset DEF Rank

-------------------------------------------------------------------------------
(* Types, by action.                                                       *)

LEMMA InitIInv ==
  ASSUME Init
  PROVE  IInv
<1>1. TypeOK
  BY NumberAssumption DEF Init, TypeOK, None, Time
<1>2. ClockInv /\ JobInv /\ ReadInv /\ Covered
  BY EventAssumption DEF Init, ClockInv, JobInv, Busy, ReadInv, Covered
<1>. QED  BY <1>1, <1>2 DEF IInv

LEMMA ProviderTypes ==
  ASSUME TypeOK, Tick \/ (\E e \in Event : Publish(e)) \/ (\E s \in Source : SetActive(s))
  PROVE  TypeOK'
<1>. USE NumberAssumption DEF TypeOK, None, Time, tables
<1>1. CASE Tick
  BY <1>1 DEF Tick
<1>2. CASE \E e \in Event : Publish(e)
  BY <1>2 DEF Publish
<1>3. CASE \E s \in Source : SetActive(s)
  BY <1>3 DEF SetActive
<1>. QED  BY <1>1, <1>2, <1>3

LEMMA WindowType ==
  ASSUME NEW read \in Time \cup {None}, NEW before \in Time
  PROVE  WindowStart(read, before) \in Int /\ WindowStart(read, before) < before
BY NumberAssumption DEF WindowStart, Time, None

LEMMA OpenWindowJob ==
  ASSUME TypeOK, NEW s \in Source, OpenWindow(s)
  PROVE  job' \in Job
<1>1. cursor[s] \in Time \cup {None} /\ now \in Time
  BY DEF TypeOK
<1>2. WindowStart(cursor[s], now) \in Int
  BY <1>1, WindowType
<1>. QED  BY <1>1, <1>2 DEF OpenWindow, Job, None

LEMMA PageType ==
  ASSUME job \in Job
  PROVE  /\ Listed \in SUBSET Event /\ IsFiniteSet(Listed)
         /\ Page \in SUBSET Event
         /\ Complete \in BOOLEAN
         /\ PageEnd \in Nat
<1>1. Listed \in SUBSET Event /\ IsFiniteSet(Listed)
  BY ListingFinite DEF Listed
<1>. QED  BY <1>1, NumberAssumption DEF Page, Complete, PageEnd, Job

LEMMA LastInstantType ==
  ASSUME NEW page \in SUBSET Event
  PROVE  LastInstant(page) \in Nat \cup {None}
<1>. DEFINE final == {e \in page : \A f \in page \ {e} : Before(f, e)} \ Undated
<1>1. CASE final = {}
  BY <1>1 DEF LastInstant
<1>2. CASE final # {}
  <2>1. (CHOOSE e \in final : TRUE) \in Event
    BY <1>2
  <2>. QED  BY <1>2, <2>1, EventAssumption DEF LastInstant
<1>. QED  BY <1>1, <1>2

LEMMA FetchPageJob ==
  ASSUME job \in Job, FetchPage
  PROVE  /\ job' \in Job
         /\ job'.source = job.source /\ job'.read = job.read
         /\ job'.after = job.after /\ job'.before = job.before
         /\ job'.offset = PageEnd
         /\ job'.got = job.got \cup Page
         /\ job'.last = LastInstant(Page)
         /\ job'.complete = Complete
<1>1. LastInstant(Page) \in Nat \cup {None}
  BY PageType, LastInstantType
<1>2. job.got \cup Page \in SUBSET Event
  BY PageType DEF Job
<1>3. job' = [job EXCEPT !.offset = PageEnd, !.got = job.got \cup Page,
                         !.last = LastInstant(Page), !.complete = Complete]
  BY DEF FetchPage
<1>. QED  BY <1>1, <1>2, <1>3, PageType DEF Job

LEMMA CycleTypes ==
  ASSUME TypeOK, Start \/ ListSources \/ EndRunner \/ RunnerRaises \/ Crash
  PROVE  TypeOK'
<1>. USE NumberAssumption DEF TypeOK, provider, tables, Lurio
<1>1. NoJob \in Job \cup {NoJob}
  OBVIOUS
<1>2. CASE Start
  BY <1>2 DEF Start
<1>3. CASE ListSources
  BY <1>3 DEF ListSources, NextRunner
<1>4. CASE EndRunner
  BY <1>4 DEF EndRunner, NextRunner
<1>5. CASE RunnerRaises
  BY <1>5 DEF RunnerRaises, NextRunner
<1>6. CASE Crash
  BY <1>6 DEF Crash
<1>. QED  BY <1>2, <1>3, <1>4, <1>5, <1>6

\* The cursor a collection proposes is an instant of the clock.
LEMMA PollCursorType ==
  ASSUME TypeOK, JobInv, ReadInv, pc = "mark", PollCursor # None
  PROVE  job \in Job /\ PollCursor \in Time /\ PollCursor =< now
<1>1. job \in Job /\ job.before =< now
  BY DEF JobInv, Busy
<1>2. PollCursor \in Nat /\ PollCursor =< job.before
  BY <1>1 DEF ReadInv, PollCursor, Job, Time
<1>. QED  BY <1>1, <1>2, NumberAssumption DEF TypeOK, Time, Job

LEMMA MarkSuccessTypes ==
  ASSUME TypeOK, JobInv, ReadInv, MarkSuccess
  PROVE  /\ cursor' \in [Source -> Time \cup {None}]
         /\ outcome' \in [Source -> {"none", "success", "failed"}]
         /\ since' \in [Source -> Int]
<1>1. job \in Job /\ PollCursor \in Time
  BY PollCursorType DEF MarkSuccess
<1>. QED  BY <1>1 DEF MarkSuccess, TypeOK, Job

LEMMA MarkFailureTypes ==
  ASSUME TypeOK, JobInv, MarkFailure
  PROVE  /\ cursor' \in [Source -> Time \cup {None}]
         /\ outcome' \in [Source -> {"none", "success", "failed"}]
<1>1. job \in Job
  BY DEF JobInv, Busy, MarkFailure
<1>. QED  BY <1>1 DEF MarkFailure, TypeOK, Job

LEMMA InsertTypes ==
  ASSUME TypeOK, JobInv, Insert
  PROVE  rows' \subseteq {KeyOf[e] : e \in Event \ Unusable}
<1>1. job \in Job
  BY DEF JobInv, Busy, Insert
<1>2. Usable \subseteq Event \ Unusable
  BY <1>1 DEF Usable, Job
<1>. QED  BY <1>2 DEF Insert, TypeOK

LEMMA CollectTypes ==
  ASSUME TypeOK, JobInv, ReadInv, Next,
         ~ (Tick \/ (\E e \in Event : Publish(e)) \/ (\E s \in Source : SetActive(s))),
         ~ (Start \/ ListSources \/ EndRunner \/ RunnerRaises \/ Crash)
  PROVE  TypeOK'
<1>. USE NumberAssumption DEF TypeOK, provider, tables
<1>1. Busy => job \in Job
  BY DEF JobInv
<1>2. CASE \E s \in Source : OpenWindow(s)
  BY <1>2, OpenWindowJob DEF OpenWindow
<1>3. CASE FetchPage
  BY <1>1, <1>3, FetchPageJob DEF FetchPage, Busy
<1>4. CASE FetchRaises \/ StoreRaises \/ MarkRaises
  BY <1>1, <1>4 DEF FetchRaises, StoreRaises, MarkRaises, Fail, Busy
<1>5. CASE Store \/ StoreUnacknowledged
  BY <1>5, InsertTypes DEF Store, StoreUnacknowledged, Fail, Insert
<1>6. CASE Succeed \/ SucceedUnacknowledged
  BY <1>6, MarkSuccessTypes DEF Succeed, SucceedUnacknowledged, NextSource, MarkSuccess
<1>7. CASE KeepCursor \/ FailureLost
  BY <1>7 DEF KeepCursor, FailureLost, NextSource
<1>8. CASE MarkFailure
  BY <1>8, MarkFailureTypes DEF MarkFailure, NextSource
<1>. QED  BY <1>2, <1>3, <1>4, <1>5, <1>6, <1>7, <1>8 DEF Next, Worker, Fault

LEMMA TypesKept ==
  ASSUME TypeOK, JobInv, ReadInv, Next
  PROVE  TypeOK'
BY ProviderTypes, CycleTypes, CollectTypes

-------------------------------------------------------------------------------
(* What the steps leave alone.                                             *)

\* The steps of the world outside the collection.
Outside ==
  Tick \/ (\E e \in Event : Publish(e)) \/ (\E s \in Source : SetActive(s)) \/ UNCHANGED vars

\* The steps of the collection between two sources.
Between == Start \/ ListSources \/ EndRunner \/ RunnerRaises \/ Crash

\* The steps of a collection that give it up.
Raise == FetchRaises \/ StoreRaises \/ MarkRaises

\* Its steps that leave the source without touching the cursor.
Leave == KeepCursor \/ FailureLost

LEMMA Steps ==
  ASSUME [Next]_vars
  PROVE  \/ Outside \/ Between \/ Raise \/ Leave
         \/ \E s \in Source : OpenWindow(s)
         \/ FetchPage \/ Store \/ StoreUnacknowledged
         \/ Succeed \/ SucceedUnacknowledged \/ MarkFailure
BY DEF Next, Worker, Fault, Outside, Between, Raise, Leave

LEMMA OutsideFrame ==
  ASSUME Outside
  PROVE  UNCHANGED <<tables, pc, runner, todo, job, since, faults>>
BY DEF Outside, Tick, Publish, SetActive, vars, tables

LEMMA InsideFrame ==
  ASSUME [Next]_vars, ~ Outside
  PROVE  UNCHANGED provider
<1>. USE DEF provider
<1>1. CASE Between
  BY <1>1 DEF Between, Start, ListSources, EndRunner, RunnerRaises, Crash, NextRunner
<1>2. CASE Raise \/ Leave
  BY <1>2 DEF Raise, Leave, FetchRaises, StoreRaises, MarkRaises, Fail, KeepCursor, FailureLost, NextSource
<1>3. CASE \E s \in Source : OpenWindow(s)
  BY <1>3 DEF OpenWindow
<1>4. CASE FetchPage
  BY <1>4 DEF FetchPage
<1>5. CASE Store \/ StoreUnacknowledged
  BY <1>5 DEF Store, StoreUnacknowledged, Fail
<1>6. CASE Succeed \/ SucceedUnacknowledged \/ MarkFailure
  BY <1>6 DEF Succeed, SucceedUnacknowledged, MarkFailure, NextSource
<1>. QED  BY <1>1, <1>2, <1>3, <1>4, <1>5, <1>6, Steps

LEMMA RowsGrow ==
  ASSUME [Next]_vars
  PROVE  rows \subseteq rows'
<1>1. CASE Outside
  BY <1>1, OutsideFrame DEF tables
<1>. USE DEF tables
<1>2. CASE Between
  BY <1>2 DEF Between, Start, ListSources, EndRunner, RunnerRaises, Crash, NextRunner
<1>3. CASE Raise \/ Leave
  BY <1>3 DEF Raise, Leave, FetchRaises, StoreRaises, MarkRaises, KeepCursor, FailureLost, NextSource
<1>4. CASE (\E s \in Source : OpenWindow(s)) \/ FetchPage
  BY <1>4 DEF OpenWindow, FetchPage
<1>5. CASE Store \/ StoreUnacknowledged
  BY <1>5 DEF Store, StoreUnacknowledged, Insert
<1>6. CASE Succeed \/ SucceedUnacknowledged \/ MarkFailure
  BY <1>6 DEF Succeed, SucceedUnacknowledged, MarkFailure, NextSource
<1>. QED  BY <1>1, <1>2, <1>3, <1>4, <1>5, <1>6, Steps

\* The cursor, and the start of the first window, move in three steps only.
LEMMA CursorFrame ==
  ASSUME [Next]_vars
  PROVE  Succeed \/ SucceedUnacknowledged \/ MarkFailure \/ UNCHANGED <<cursor, since>>
<1>1. CASE Outside
  BY <1>1, OutsideFrame DEF tables
<1>. USE DEF tables
<1>2. CASE Between
  BY <1>2 DEF Between, Start, ListSources, EndRunner, RunnerRaises, Crash, NextRunner
<1>3. CASE Raise \/ Leave
  BY <1>3 DEF Raise, Leave, FetchRaises, StoreRaises, MarkRaises, Fail, KeepCursor, FailureLost, NextSource
<1>4. CASE (\E s \in Source : OpenWindow(s)) \/ FetchPage
  BY <1>4 DEF OpenWindow, FetchPage
<1>5. CASE Store \/ StoreUnacknowledged
  BY <1>5 DEF Store, StoreUnacknowledged, Fail
<1>. QED  BY <1>1, <1>2, <1>3, <1>4, <1>5, Steps

\* The provider publishes at the present instant, and the clock does not go back.
LEMMA ProviderStep ==
  ASSUME TypeOK, [Next]_vars
  PROVE  /\ now' \in Nat /\ now =< now'
         /\ \A e \in Event :
              \/ published'[e] = published[e]
              \/ /\ published[e] = None /\ published'[e] = now
                 /\ OccurredAt[e] =< now
<1>1. CASE Outside
  <2>1. CASE Tick
    BY <2>1 DEF Tick, TypeOK, Time
  <2>2. CASE \E e \in Event : Publish(e)
    BY <2>2 DEF Publish, TypeOK, Time
  <2>3. CASE (\E s \in Source : SetActive(s)) \/ UNCHANGED vars
    BY <2>3 DEF SetActive, vars, TypeOK, Time
  <2>. QED  BY <1>1, <2>1, <2>2, <2>3 DEF Outside
<1>2. CASE ~ Outside
  BY <1>2, InsideFrame DEF provider, TypeOK, Time
<1>. QED  BY <1>1, <1>2

-------------------------------------------------------------------------------
(* The clock.                                                              *)

LEMMA ClockKept ==
  ASSUME TypeOK, TypeOK', ClockInv, JobInv, ReadInv, [Next]_vars
  PROVE  ClockInv'
<1>1. \A e \in Event : published'[e] # None => OccurredAt[e] =< published'[e] /\ published'[e] =< now'
  BY ProviderStep, EventAssumption DEF ClockInv, TypeOK, Time, None
<1>2. \A s \in Source : cursor'[s] # None => cursor'[s] =< now'
  <2>1. CASE Succeed \/ SucceedUnacknowledged
    <3>1. MarkSuccess
      BY <2>1 DEF Succeed, SucceedUnacknowledged
    <3>2. PollCursor =< now /\ PollCursor \in Time
      BY <3>1, PollCursorType DEF MarkSuccess
    <3>. QED  BY <3>1, <3>2, ProviderStep DEF MarkSuccess, ClockInv, TypeOK, Time, None
  <2>2. CASE MarkFailure
    <3>1. job \in Job /\ job.before =< now /\ (job.read # None => job.read =< job.before)
      BY <2>2 DEF MarkFailure, JobInv, Busy
    <3>. QED  BY <2>2, <3>1, ProviderStep DEF MarkFailure, ClockInv, TypeOK, Time, None, Job
  <2>3. CASE UNCHANGED <<cursor, since>>
    BY <2>3, ProviderStep DEF ClockInv, TypeOK, Time, None
  <2>. QED  BY <2>1, <2>2, <2>3, CursorFrame
<1>. QED  BY <1>1, <1>2 DEF ClockInv

-------------------------------------------------------------------------------
(* What has no gap keeps none.                                             *)

\* An event published from now on is too late for a cursor of the past.
LEMMA InTimeKept ==
  ASSUME TypeOK, [Next]_vars, NEW c \in Int, c =< now,
         NEW e \in Event, OccurredAt[e] + Safety < c, InTime(e)'
  PROVE  InTime(e)
BY ProviderStep, EventAssumption, NumberAssumption DEF InTime, TypeOK, Time, None

LEMMA GapKept ==
  ASSUME TypeOK, [Next]_vars, NEW s \in Source, since'[s] = since[s],
         NEW c \in Int, c =< now, GapFree(s, c)
  PROVE  \A e \in Event \ Unusable :
           /\ SourceOf[e] = s
           /\ since'[s] =< OccurredAt[e]
           /\ OccurredAt[e] + Safety < c
           /\ InTime(e)'
           => KeyOf[e] \in rows'
<1>. TAKE e \in Event \ Unusable
<1>1. HAVE /\ SourceOf[e] = s
           /\ since'[s] =< OccurredAt[e]
           /\ OccurredAt[e] + Safety < c
           /\ InTime(e)'
<1>2. InTime(e)
  BY <1>1, InTimeKept
<1>3. KeyOf[e] \in rows
  BY <1>1, <1>2 DEF GapFree
<1>. QED  BY <1>3, RowsGrow

\* A step that keeps the source, the window and the cursor of the job keeps what
\* is known of it.
LEMMA JobStays ==
  ASSUME TypeOK, JobInv, Busy, [Next]_vars, UNCHANGED <<cursor, since>>,
         job' \in Job, job'.source = job.source, job'.read = job.read,
         job'.before = job.before, job'.after = job.after,
         pc' # "fail" => pc # "fail"
  PROVE  JobInv'
<1>1. job \in Job /\ job.before =< now
  BY DEF JobInv
<1>2. job.before =< now'
  BY <1>1, ProviderStep DEF Job, Time, TypeOK
<1>3. ASSUME job.read # None  PROVE GapFree(job.source, job.read)'
  <2>1. GapFree(job.source, job.read) /\ job.read \in Int /\ job.read =< now /\ job.source \in Source
    BY <1>1, <1>3 DEF JobInv, Job, Time, TypeOK, None
  <2>. QED  BY <1>3, <2>1, GapKept DEF GapFree
<1>. QED  BY <1>1, <1>2, <1>3 DEF JobInv, WindowStart

\* The fallback of a job that may still fail has no gap.
LEMMA JobKept ==
  ASSUME TypeOK, ClockInv, JobInv, ReadInv, Covered, [Next]_vars
  PROVE  JobInv'
<1>1. CASE ~ Busy'
  BY <1>1 DEF JobInv
<1>2. CASE Outside /\ Busy'
  <2>1. UNCHANGED <<cursor, since, pc, job>>
    BY <1>2, OutsideFrame DEF tables
  <2>2. Busy /\ job \in Job
    BY <1>2, <2>1 DEF Busy, JobInv
  <2>. QED  BY <2>1, <2>2, JobStays
<1>3. CASE Between
  <2>1. pc' \in {"down", "runner", "source"}
    BY <1>3 DEF Between, Start, ListSources, EndRunner, RunnerRaises, Crash, NextRunner
  <2>. QED  BY <2>1 DEF JobInv, Busy
<1>4. CASE Leave \/ Succeed \/ MarkFailure
  <2>1. pc' = "source"
    BY <1>4 DEF Leave, KeepCursor, FailureLost, Succeed, MarkFailure, NextSource
  <2>. QED  BY <2>1 DEF JobInv, Busy
<1>5. CASE Raise \/ Store \/ StoreUnacknowledged
  <2>1. /\ UNCHANGED <<cursor, since, job>>
        /\ pc' \in {"mark", "fail"} /\ pc \in {"fetch", "store", "mark"}
    BY <1>5 DEF Raise, FetchRaises, StoreRaises, MarkRaises, Store, StoreUnacknowledged, Insert, Fail, tables
  <2>2. Busy /\ job \in Job
    BY <2>1 DEF Busy, JobInv
  <2>. QED  BY <2>1, <2>2, JobStays
<1>6. CASE FetchPage
  <2>1. UNCHANGED <<cursor, since>> /\ pc' \in {"store", "fetch"} /\ pc = "fetch"
    BY <1>6 DEF FetchPage, tables
  <2>2. Busy /\ job \in Job
    BY <2>1 DEF Busy, JobInv
  <2>. QED  BY <1>6, <2>1, <2>2, FetchPageJob, JobStays
<1>7. ASSUME NEW s \in Source, OpenWindow(s)  PROVE JobInv'
  <2>1. /\ job'.source = s /\ job'.read = cursor[s] /\ job'.before = now
        /\ job'.after = WindowStart(cursor[s], now)
        /\ UNCHANGED <<provider, cursor, rows, since>>
    BY <1>7 DEF OpenWindow, tables
  <2>2. cursor[s] # None => cursor[s] =< now /\ GapFree(s, cursor[s])
    BY DEF ClockInv, Covered
  <2>3. job' \in Job
    BY <1>7, OpenWindowJob
  <2>. QED  BY <2>1, <2>2, <2>3 DEF JobInv, GapFree, InTime, provider, WindowStart, TypeOK, Time
<1>8. CASE SucceedUnacknowledged
  <2>1. /\ job' = job /\ pc' = "fail" /\ pc = "mark" /\ UNCHANGED <<provider, rows>>
        /\ PollCursor # None
        /\ cursor' = [cursor EXCEPT ![job.source] = PollCursor]
        /\ since' = [since EXCEPT ![job.source] = IF cursor[job.source] = None THEN job.after ELSE @]
    BY <1>8 DEF SucceedUnacknowledged, MarkSuccess
  <2>2. job \in Job /\ cursor[job.source] = job.read /\ job.source \in Source
    BY <2>1 DEF JobInv, Busy, Job
  <2>3. cursor'[job.source] # None
    BY <2>1, <2>2 DEF TypeOK
  <2>4. ASSUME job.read # None  PROVE job.read =< job.before /\ GapFree(job.source, job.read)'
    <3>1. since' [job.source] = since[job.source]
      BY <2>1, <2>2, <2>4 DEF TypeOK
    <3>2. GapFree(job.source, job.read) /\ job.read =< job.before
      BY <2>1, <2>4 DEF JobInv, Busy
    <3>. QED  BY <2>1, <3>1, <3>2 DEF GapFree, InTime, provider
  <2>5. job.before =< now' /\ job.after = WindowStart(job.read, job.before)
    BY <2>1 DEF JobInv, Busy, provider
  <2>. QED  BY <2>1, <2>2, <2>3, <2>4, <2>5 DEF JobInv, WindowStart
<1>. QED  BY <1>1, <1>2, <1>3, <1>4, <1>5, <1>6, <1>7, <1>8, Steps

-------------------------------------------------------------------------------
(* The pages.                                                              *)

LEMMA RankPositive ==
  ASSUME NEW L \in SUBSET Event, NEW e \in L
  PROVE  Rank(e, L) >= 1
<1>. DEFINE upTo == {f \in L : f = e \/ Before(f, e)}
<1>1. IsFiniteSet(upTo) /\ upTo # {}
  BY EventAssumption, FS_Subset
<1>2. Cardinality(upTo) \in Nat /\ Cardinality(upTo) # 0
  BY <1>1, FS_CardinalityType, FS_EmptySet
<1>. QED  BY <1>2 DEF Rank

LEMMA LastOfPage ==
  ASSUME NEW page \in SUBSET Event, LastInstant(page) # None
  PROVE  \E f \in page : LastInstant(page) = OccurredAt[f]
<1>. DEFINE final == {e \in page : \A f \in page \ {e} : Before(f, e)} \ Undated
<1>1. final # {} /\ LastInstant(page) = OccurredAt[CHOOSE e \in final : TRUE]
  BY DEF LastInstant
<1>2. (CHOOSE e \in final : TRUE) \in page
  BY <1>1
<1>. QED  BY <1>1, <1>2

\* A publication pushes the events listed before it to a later rank or leaves them.
LEMMA ListedGrows ==
  ASSUME TypeOK, ClockInv, job \in Job, job.before =< now, [Next]_vars,
         job'.source = job.source, job'.after = job.after, job'.before = job.before
  PROVE  /\ Listed' \in SUBSET Event /\ Listed \in SUBSET Event
         /\ Early' \subseteq Early
         /\ \A e \in Event : Rank(e, Listed) =< Rank(e, Listed')
<1>1. Listed \subseteq Listed' /\ Listed' \in SUBSET Event /\ Listed \in SUBSET Event
  BY ProviderStep, NumberAssumption DEF Listed, Listing, TypeOK, Time, None
<1>2. ASSUME NEW e \in Early'  PROVE e \in Early
  BY <1>2, ProviderStep DEF Early, Listed, Listing, TypeOK, Time, None, Job
<1>. QED  BY <1>1, <1>2, RankGrows

LEMMA FetchPageRead ==
  ASSUME TypeOK, JobInv, ReadInv, FetchPage
  PROVE  ReadInv'
<1>1. job \in Job /\ pc = "fetch" /\ UNCHANGED published
  BY DEF FetchPage, JobInv, Busy, provider
<1>2. Listed' = Listed /\ Early' = Early
  BY <1>1, FetchPageJob DEF Listed, Early, Listing
<1>3. Listed \in SUBSET Event /\ PageEnd \in Nat /\ Page \in SUBSET Event
  BY <1>1, PageType
<1>4. ASSUME NEW e \in Early, Rank(e, Listed) =< PageEnd  PROVE e \in job'.got
  <2>1. Rank(e, Listed) \in Nat /\ job.offset \in Nat /\ e \in Listed
    BY <1>1, <1>3, RankType DEF Early, Job
  <2>2. CASE Rank(e, Listed) =< job.offset
    BY <1>1, <2>2, FetchPageJob DEF ReadInv
  <2>3. CASE job.offset < Rank(e, Listed)
    BY <1>1, <1>4, <2>1, <2>3, FetchPageJob DEF Page
  <2>. QED  BY <2>1, <2>2, <2>3
<1>5. pc' = "fetch" => \A e \in Early' : Rank(e, Listed') =< job'.offset => e \in job'.got
  BY <1>1, <1>2, <1>4, FetchPageJob
<1>6. ASSUME PollCursor' # None
      PROVE  PollCursor' =< job'.before /\ \A e \in Early' : OccurredAt[e] < PollCursor' => e \in job'.got
  <2>1. CASE Complete
    <3>1. PollCursor' = job.before
      BY <1>1, <2>1, FetchPageJob DEF PollCursor
    <3>2. \A e \in Early : Rank(e, Listed) =< PageEnd
      BY <1>3, <2>1, RankType DEF Complete, Early
    <3>. QED  BY <1>1, <1>2, <1>4, <3>1, <3>2, FetchPageJob DEF Job, Time
  <2>2. CASE ~ Complete
    <3>1. PollCursor' = LastInstant(Page)
      BY <1>1, <2>2, FetchPageJob DEF PollCursor
    <3>2. PICK f \in Page : PollCursor' = OccurredAt[f]
      BY <1>3, <1>6, <3>1, LastOfPage
    <3>3. f \in Event /\ OccurredAt[f] =< job.before /\ Rank(f, Listed) =< PageEnd
      BY <1>3, <3>2 DEF Page, Listed, Listing
    <3>4. ASSUME NEW e \in Early, OccurredAt[e] < PollCursor'  PROVE e \in job'.got
      <4>1. e \in Event /\ Before(e, f)
        BY <1>3, <3>2, <3>4 DEF Early, Before
      <4>2. Rank(e, Listed) =< Rank(f, Listed)
        BY <1>3, <3>3, <4>1, RankOrder
      <4>3. Rank(e, Listed) =< PageEnd
        BY <1>3, <3>3, <4>1, <4>2, RankType
      <4>. QED  BY <1>4, <4>3
    <3>. QED  BY <1>1, <1>2, <3>2, <3>3, <3>4, FetchPageJob
  <2>. QED  BY <2>1, <2>2
<1>7. pc' # "mark"
  BY DEF FetchPage
<1>. QED  BY <1>5, <1>6, <1>7 DEF ReadInv

LEMMA ReadKept ==
  ASSUME TypeOK, ClockInv, JobInv, ReadInv, [Next]_vars
  PROVE  ReadInv'
<1>1. CASE Outside
  <2>1. UNCHANGED <<pc, job, rows>>
    BY <1>1, OutsideFrame DEF tables
  <2>2. CASE ~ Busy
    BY <2>1, <2>2 DEF ReadInv, Busy
  <2>3. CASE Busy
    <3>1. job \in Job /\ job.before =< now
      BY <2>3 DEF JobInv
    <3>2. Early' \subseteq Early /\ \A e \in Event : Rank(e, Listed) =< Rank(e, Listed')
      BY <2>1, <3>1, ListedGrows
    <3>3. Listed \in SUBSET Event /\ Listed' \in SUBSET Event
      BY <2>1, <3>1, ListedGrows
    <3>4. ASSUME NEW e \in Early', Rank(e, Listed') =< job.offset  PROVE Rank(e, Listed) =< job.offset
      <4>1. e \in Event
        BY <3>2, <3>3 DEF Early
      <4>2. Rank(e, Listed) \in Nat /\ Rank(e, Listed') \in Nat
        BY <3>3, <4>1, RankType
      <4>. QED  BY <3>1, <3>2, <3>4, <4>1, <4>2 DEF Job
    <3>5. pc' = "fetch" => \A e \in Early' : Rank(e, Listed') =< job'.offset => e \in job'.got
      BY <2>1, <3>2, <3>4 DEF ReadInv
    <3>. QED  BY <2>1, <3>2, <3>5 DEF ReadInv, PollCursor, Usable
  <2>. QED  BY <2>2, <2>3
<1>2. CASE Between \/ Raise \/ Leave \/ StoreUnacknowledged \/ Succeed \/ SucceedUnacknowledged \/ MarkFailure
  <2>1. pc' \in {"down", "runner", "source", "fail"}
    BY <1>2 DEF Between, Start, ListSources, EndRunner, RunnerRaises, Crash, NextRunner, Raise,
                FetchRaises, StoreRaises, MarkRaises, Fail, Leave, KeepCursor, FailureLost, NextSource,
                StoreUnacknowledged, Succeed, SucceedUnacknowledged, MarkFailure
  <2>. QED  BY <2>1 DEF ReadInv
<1>3. ASSUME NEW s \in Source, OpenWindow(s)  PROVE ReadInv'
  <2>1. job' \in Job /\ job'.offset = 0 /\ pc' = "fetch"
    BY <1>3, OpenWindowJob DEF OpenWindow
  <2>2. Listed' \in SUBSET Event
    BY EventAssumption DEF Listed, Listing
  <2>3. ASSUME NEW e \in Early'  PROVE ~ (Rank(e, Listed') =< job'.offset)
    <3>1. e \in Listed' /\ e \in Event
      BY <2>2, <2>3 DEF Early
    <3>2. Rank(e, Listed') >= 1 /\ Rank(e, Listed') \in Nat
      BY <2>2, <3>1, RankPositive, RankType
    <3>. QED  BY <2>1, <3>2
  <2>. QED  BY <2>1, <2>3 DEF ReadInv
<1>4. CASE FetchPage
  BY <1>4, FetchPageRead
<1>5. CASE Store
  <2>1. pc = "store" /\ pc' = "mark" /\ UNCHANGED <<published, job>>
    BY <1>5 DEF Store, Insert, provider
  <2>2. \A e \in Usable : KeyOf[e] \in rows'
    BY <1>5 DEF Store, Insert
  <2>. QED  BY <2>1, <2>2 DEF ReadInv, PollCursor, Early, Listed, Listing, Usable
<1>. QED  BY <1>1, <1>2, <1>3, <1>4, <1>5, Steps

-------------------------------------------------------------------------------
(* The cursors.                                                            *)

\* A first window starts Lookback and Safety ago, the next ones Safety before the
\* cursor.
LEMMA WindowReachesBack ==
  ASSUME NEW read \in Time, NEW before \in Time, read =< before
  PROVE  WindowStart(read, before) = read - Safety
BY NumberAssumption DEF WindowStart, Time, None

\* The cursor a successful collection writes leaves no gap behind it.
LEMMA MarkSuccessCovers ==
  ASSUME TypeOK, JobInv, ReadInv, MarkSuccess
  PROVE  \A e \in Event \ Unusable :
           /\ SourceOf[e] = job.source
           /\ since'[job.source] =< OccurredAt[e]
           /\ OccurredAt[e] + Safety < PollCursor
           /\ InTime(e)
           => KeyOf[e] \in rows
<1>1. job \in Job /\ job.source \in Source /\ pc = "mark" /\ cursor[job.source] = job.read
  BY DEF MarkSuccess, JobInv, Busy, Job
<1>2. PollCursor # None /\ PollCursor \in Time /\ PollCursor =< job.before
  BY <1>1, PollCursorType DEF MarkSuccess, ReadInv
<1>. TAKE e \in Event \ Unusable
<1>3. HAVE /\ SourceOf[e] = job.source
           /\ since'[job.source] =< OccurredAt[e]
           /\ OccurredAt[e] + Safety < PollCursor
           /\ InTime(e)
<1>4. OccurredAt[e] \in Nat /\ published[e] \in Nat /\ job.after \in Int /\ job.before \in Nat
  BY <1>1, <1>3, EventAssumption DEF InTime, TypeOK, Time, Job
<1>5. CASE job.after =< OccurredAt[e]
  <2>1. e \in Early /\ OccurredAt[e] < PollCursor
    BY <1>1, <1>2, <1>3, <1>4, <1>5, NumberAssumption DEF Early, Listed, Listing, InTime, Time
  <2>2. e \in Usable
    BY <1>1, <1>2, <2>1 DEF ReadInv, Usable
  <2>. QED  BY <1>1, <2>2 DEF ReadInv
<1>6. CASE OccurredAt[e] < job.after
  <2>1. job.read # None /\ since'[job.source] = since[job.source]
    BY <1>1, <1>3, <1>4, <1>6 DEF MarkSuccess, TypeOK
  <2>2. job.read \in Time /\ job.read =< job.before /\ GapFree(job.source, job.read)
    BY <1>1, <2>1 DEF JobInv, Busy, Job
  <2>3. job.after = job.read - Safety
    BY <1>1, <2>2, WindowReachesBack DEF JobInv, Busy, Job
  <2>. QED  BY <1>3, <1>4, <1>6, <2>1, <2>2, <2>3, NumberAssumption DEF GapFree, Time
<1>. QED  BY <1>4, <1>5, <1>6

LEMMA CoveredKept ==
  ASSUME TypeOK, ClockInv, JobInv, ReadInv, Covered, [Next]_vars
  PROVE  Covered'
<1>. SUFFICES ASSUME NEW s \in Source, cursor'[s] # None
              PROVE  GapFree(s, cursor[s])'
  BY DEF Covered
<1>1. CASE cursor'[s] = cursor[s] /\ since'[s] = since[s]
  <2>1. GapFree(s, cursor[s]) /\ cursor[s] \in Int /\ cursor[s] =< now
    BY <1>1 DEF Covered, ClockInv, TypeOK, Time, None
  <2>. QED  BY <1>1, <2>1, GapKept DEF GapFree
<1>2. CASE UNCHANGED <<cursor, since>>
  BY <1>1, <1>2
<1>3. CASE Succeed \/ SucceedUnacknowledged
  <2>1. MarkSuccess /\ UNCHANGED <<published, rows>>
    BY <1>3 DEF Succeed, SucceedUnacknowledged, NextSource, provider
  <2>2. CASE s = job.source
    <3>1. cursor'[s] = PollCursor
      BY <2>1, <2>2 DEF MarkSuccess, TypeOK
    <3>. QED  BY <2>1, <2>2, <3>1, MarkSuccessCovers DEF GapFree, InTime
  <2>3. CASE s # job.source
    BY <1>1, <2>1, <2>3 DEF MarkSuccess, TypeOK
  <2>. QED  BY <2>2, <2>3
<1>4. CASE MarkFailure
  <2>1. UNCHANGED <<provider, rows, since>>
    BY <1>4 DEF MarkFailure, NextSource
  <2>2. CASE s = job.source /\ job.read # None
    <3>1. cursor'[s] = job.read
      BY <1>4, <2>2 DEF MarkFailure, TypeOK
    <3>2. GapFree(s, job.read)
      BY <1>4, <2>2 DEF JobInv, Busy, MarkFailure
    <3>. QED  BY <2>1, <3>1, <3>2 DEF GapFree, InTime, provider
  <2>3. CASE s # job.source \/ job.read = None
    BY <1>1, <1>4, <2>1, <2>3 DEF MarkFailure, TypeOK
  <2>. QED  BY <2>2, <2>3
<1>. QED  BY <1>2, <1>3, <1>4, CursorFrame

-------------------------------------------------------------------------------
(* A listing that was cut short.                                           *)

LEMMA RankStrict ==
  ASSUME NEW L \in SUBSET Event, NEW e \in Event, NEW f \in L, Before(e, f)
  PROVE  Rank(e, L) < Rank(f, L)
<1>. DEFINE upto(g) == {h \in L : h = g \/ Before(h, g)}
<1>1. IsFiniteSet(upto(f))
  BY EventAssumption, FS_Subset
<1>2. upto(e) \subseteq upto(f)
  BY BeforeTransitive
<1>3. f \in upto(f) /\ f \notin upto(e)
  BY EventAssumption DEF Before
<1>4. Cardinality(upto(e)) =< Cardinality(upto(f)) /\ Cardinality(upto(e)) # Cardinality(upto(f))
  BY <1>1, <1>2, <1>3, FS_Subset
<1>. QED  BY <1>4, RankType DEF Rank

\* The ranks of a listing are 1, 2, ... up to its length.
LEMMA RankTaken ==
  ASSUME NEW L \in SUBSET Event, NEW n \in 1 .. Cardinality(L)
  PROVE  \E e \in L : Rank(e, L) = n
<1>. DEFINE size == Cardinality(L)
            rank == [e \in L |-> Rank(e, L)]
<1>1. IsFiniteSet(L) /\ size \in Nat
  BY EventAssumption, FS_Subset, FS_CardinalityType
<1>2. \A e \in L : Rank(e, L) \in 1 .. size
  <2>1. ASSUME NEW e \in L  PROVE Rank(e, L) # 0
    <3>1. e \in {h \in L : h = e \/ Before(h, e)} /\ IsFiniteSet({h \in L : h = e \/ Before(h, e)})
      BY <1>1, FS_Subset
    <3>. QED  BY <3>1, FS_EmptySet DEF Rank
  <2>. QED  BY <2>1, RankType
<1>3. \A e, f \in L : Rank(e, L) = Rank(f, L) => e = f
  <2>1. \A e, f \in L : e # f => Before(e, f) \/ Before(f, e)
    BY EventAssumption DEF Before
  <2>2. \A e, f \in L : Before(e, f) => Rank(e, L) # Rank(f, L)
    BY RankStrict, RankType
  <2>. QED  BY <2>1, <2>2
<1>4. rank \in Injection(L, 1 .. size)
  BY <1>2, <1>3 DEF Injection, IsInjective
<1>5. IsFiniteSet(1 .. size) /\ Cardinality(1 .. size) = size
  BY <1>1, FS_Interval
<1>. HIDE DEF rank
<1>6. rank \in Surjection(L, 1 .. size)
  BY <1>4, <1>5, FS_Injection
<1>. USE DEF rank
<1>. QED  BY <1>6 DEF Surjection

\* The event of the cursor proposed by a page that is not the last one lies at the end
\* of that page.
LEMMA LastEndsPage ==
  ASSUME job \in Job, ~ Complete, LastInstant(Page) # None
  PROVE  \E f \in Listed : OccurredAt[f] = LastInstant(Page) /\ PageEnd =< Rank(f, Listed)
<1>. DEFINE final == {e \in Page : \A f \in Page \ {e} : Before(f, e)} \ Undated
<1>1. PICK f \in final : OccurredAt[f] = LastInstant(Page)
  BY DEF LastInstant
<1>2. Listed \in SUBSET Event /\ Page \subseteq Listed /\ f \in Page
  BY <1>1, PageType DEF Page
<1>3. PageEnd \in 1 .. Cardinality(Listed) /\ job.offset < PageEnd
  BY <1>2, RankType, PageType, NumberAssumption DEF Complete, PageEnd, Job
<1>4. PICK g \in Listed : Rank(g, Listed) = PageEnd
  BY <1>2, <1>3, RankTaken
<1>5. g \in Page
  BY <1>3, <1>4 DEF Page
<1>6. PageEnd =< Rank(f, Listed)
  <2>1. CASE g = f
    BY <1>3, <1>4, <2>1
  <2>2. CASE g # f
    <3>1. Before(g, f)
      BY <1>1, <1>5, <2>2
    <3>. QED  BY <1>2, <1>4, <3>1, RankOrder
  <2>. QED  BY <2>1, <2>2
<1>. QED  BY <1>1, <1>2, <1>6

\* A sparse source has less than a cycle of pages between the start of a window and the
\* cursor it was opened at: a listing that is cut short ends behind that cursor.
LEMMA CutListingAdvances ==
  ASSUME job \in Job, job.after = WindowStart(job.read, job.before), job.read # None,
         job.read =< job.before, Sparse(job.source),
         ~ Complete, MaxPages * PageSize =< PageEnd, LastInstant(Page) # None
  PROVE  job.read < LastInstant(Page)
<1>1. PICK f \in Listed : OccurredAt[f] = LastInstant(Page) /\ PageEnd =< Rank(f, Listed)
  BY LastEndsPage
<1>2. Listed \in SUBSET Event /\ f \in Event /\ OccurredAt[f] \in Nat
  BY <1>1, PageType, EventAssumption
<1>3. job.read \in Nat /\ job.before \in Nat
  BY NumberAssumption DEF Job, Time, None
<1>4. job.after = job.read - Safety
  BY <1>3, NumberAssumption DEF WindowStart
<1>. SUFFICES ASSUME OccurredAt[f] =< job.read  PROVE FALSE
  BY <1>1, <1>2, <1>3
<1>. DEFINE t == OccurredAt[f]
            window == {e \in Event : /\ SourceOf[e] = job.source
                                     /\ t - Safety =< OccurredAt[e] /\ OccurredAt[e] =< t}
            upto == {e \in Listed : e = f \/ Before(e, f)}
<1>5. upto \subseteq window
  <2>. SUFFICES ASSUME NEW e \in upto  PROVE e \in window
    OBVIOUS
  <2>1. /\ e \in Event /\ SourceOf[e] = job.source /\ OccurredAt[e] \in Nat
        /\ job.after =< OccurredAt[e]
    BY EventAssumption DEF Listed, Listing
  <2>2. OccurredAt[e] =< t
    BY <1>2, <2>1 DEF Before
  <2>. QED  BY <1>2, <1>3, <1>4, <2>1, <2>2, NumberAssumption
<1>6. IsFiniteSet(window)
  BY EventAssumption, FS_Subset
<1>7. Cardinality(window) < MaxPages * PageSize
  BY <1>2 DEF Sparse
<1>8. Rank(f, Listed) =< Cardinality(window) /\ Cardinality(window) \in Nat
  BY <1>5, <1>6, FS_Subset, FS_CardinalityType DEF Rank
<1>9. MaxPages * PageSize \in Nat /\ PageEnd \in Nat /\ Rank(f, Listed) \in Nat
  <2>1. MaxPages * PageSize \in Nat
    BY NumberAssumption
  <2>. QED  BY <1>2, <2>1, PageType, RankType
<1>. QED  BY <1>1, <1>7, <1>8, <1>9

\* The cursor to be written after a cut listing lies ahead of the one that was read.
CutAdvances ==
  /\ pc \in {"store", "mark"} /\ ~ job.complete
  /\ job.read # None /\ job.last # None /\ Sparse(job.source)
  => job.read < job.last

LEMMA CutAdvancesKept ==
  ASSUME IInv, CutAdvances, [Next]_vars
  PROVE  CutAdvances'
<1>1. CASE Outside
  BY <1>1, OutsideFrame DEF CutAdvances, Sparse
<1>2. CASE Between \/ Raise \/ Leave \/ StoreUnacknowledged \/ Succeed \/ SucceedUnacknowledged
            \/ MarkFailure \/ \E s \in Source : OpenWindow(s)
  <2>1. pc' \notin {"store", "mark"}
    BY <1>2 DEF Between, Raise, Leave, Start, ListSources, EndRunner, RunnerRaises, Crash, NextRunner,
                FetchRaises, StoreRaises, MarkRaises, Fail, KeepCursor, FailureLost, NextSource,
                StoreUnacknowledged, Succeed, SucceedUnacknowledged, MarkFailure, OpenWindow
  <2>. QED  BY <2>1 DEF CutAdvances
<1>3. CASE Store
  <2>1. pc = "store" /\ UNCHANGED job
    BY <1>3 DEF Store, Insert
  <2>. QED  BY <2>1 DEF CutAdvances, Sparse
<1>4. CASE FetchPage
  <2>1. job \in Job /\ job.after = WindowStart(job.read, job.before)
        /\ (job.read # None => job.read =< job.before)
    BY <1>4 DEF IInv, JobInv, Busy, FetchPage
  <2>2. /\ job'.source = job.source /\ job'.read = job.read
        /\ job'.last = LastInstant(Page) /\ job'.complete = Complete
    BY <1>4, <2>1, FetchPageJob
  <2>3. pc' \in {"store", "mark"} /\ ~ Complete => MaxPages * PageSize =< PageEnd
    <3>1. MaxPages * PageSize \in Nat /\ PageEnd \in Nat
      BY <2>1, PageType, NumberAssumption
    <3>2. pc' \in {"store", "mark"} => Complete \/ Truncated
      BY <1>4 DEF FetchPage
    <3>. QED  BY <3>1, <3>2 DEF Truncated
  <2>4. pc' \in {"store", "mark"} /\ ~ Complete /\ job.read # None /\ LastInstant(Page) # None
          /\ Sparse(job.source) => job.read < LastInstant(Page)
    BY <2>1, <2>3, CutListingAdvances
  <2>5. Sparse(job.source)' = Sparse(job.source)
    BY <2>2 DEF Sparse
  <2>. QED  BY <2>2, <2>4, <2>5 DEF CutAdvances
<1>. QED  BY <1>1, <1>2, <1>3, <1>4, Steps

-------------------------------------------------------------------------------
(* The theorems.                                                           *)

\* The inductive invariant: it says of the job in hand what its pages hold, and of
\* the cursor a failure would restore that it has no gap either.
THEOREM Invariance == Spec => []IInv
<1>1. Init => IInv
  BY InitIInv
<1>2. IInv /\ [Next]_vars => IInv'
  <2>. SUFFICES ASSUME IInv, [Next]_vars  PROVE IInv'
    OBVIOUS
  <2>1. TypeOK'
    <3>1. CASE UNCHANGED vars
      BY <3>1 DEF IInv, TypeOK, vars
    <3>2. CASE Next
      BY <3>2, TypesKept DEF IInv
    <3>. QED  BY <3>1, <3>2
  <2>. QED  BY <2>1, ClockKept, JobKept, ReadKept, CoveredKept DEF IInv
<1>. QED  BY <1>1, <1>2, PTL DEF Spec

\* The scheduler's tables and the collection in hand keep their types: a cursor
\* is an instant that has passed (last_poll_at).
THEOREM TypeCorrect == Spec => []TypeOK
BY Invariance, PTL DEF IInv

\* No event that was published in time is left behind a cursor without its row,
\* for any events, sources, page size, safety window and failures.
THEOREM NoGapCorrect == Spec => []NoGap
<1>1. IInv => NoGap
  BY CoveredIsNoGap DEF IInv
<1>. QED  BY <1>1, Invariance, PTL

\* A successful collection of a sparse source moves its cursor forward, a listing that was
\* cut short included, for any number and size of the pages of a cycle.
THEOREM SuccessMovesOn == Spec => SuccessAdvances
<1>1. Init => CutAdvances
  BY DEF Init, CutAdvances
<1>2. Spec => []CutAdvances
  BY <1>1, Invariance, CutAdvancesKept, PTL DEF Spec
<1>3. IInv /\ CutAdvances /\ [Next]_vars =>
        [\A s \in Source :
           /\ pc = "mark" /\ job.source = s /\ job.read # None /\ Sparse(s)
           /\ cursor'[s] # cursor[s]
           => cursor'[s] > job.read]_vars
  <2>. SUFFICES ASSUME IInv, CutAdvances, [Next]_vars, pc = "mark", job.source \in Source,
                       job.read # None, Sparse(job.source),
                       cursor'[job.source] # cursor[job.source]
                PROVE  cursor'[job.source] > job.read
    OBVIOUS
  <2>1. Succeed \/ SucceedUnacknowledged
    BY CursorFrame DEF MarkFailure
  <2>2. /\ PollCursor # None
        /\ cursor' = [cursor EXCEPT ![job.source] = PollCursor]
    BY <2>1 DEF Succeed, SucceedUnacknowledged, MarkSuccess
  <2>3. /\ job \in Job /\ cursor[job.source] = job.read /\ job.read =< job.before
        /\ cursor \in [Source -> Time \cup {None}]
    BY DEF IInv, JobInv, Busy, TypeOK
  <2>4. cursor'[job.source] = PollCursor /\ PollCursor # job.read
    BY <2>2, <2>3
  <2>5. job.read \in Nat /\ job.before \in Nat /\ PollCursor \in Nat
    BY <2>2, <2>3, NumberAssumption DEF Job, Time, None, PollCursor
  <2>6. CASE job.complete
    BY <2>3, <2>4, <2>5, <2>6 DEF PollCursor
  <2>7. CASE ~ job.complete
    BY <2>2, <2>4, <2>5, <2>7 DEF PollCursor, CutAdvances
  <2>. QED  BY <2>6, <2>7
<1>. QED  BY <1>2, <1>3, Invariance, PTL DEF Spec, SuccessAdvances
===============================================================================

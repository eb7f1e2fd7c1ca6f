------------------------------ MODULE Collection ------------------------------
(***************************************************************************)
(* The collection of attacks by the scheduler: CollectionService.run_once  *)
(* runs the OGO, Detoxio and Lurio collectors in turn; each reads its      *)
(* active sources, and for each of them asks the provider for a window of  *)
(* time that starts a little before the cursor (scheduler_state.           *)
(* last_poll_at), stores what it got and moves the cursor.                 *)
(*                                                                         *)
(* The events and the cursor are written by two transactions, and a third  *)
(* one records a failure.  Meanwhile the provider publishes events, some   *)
(* of them some time after they occurred, between two pages of the same    *)
(* listing as well; sources are activated and deactivated; the process may *)
(* die at any point.                                                       *)
(***************************************************************************)
EXTENDS Integers, FiniteSets

CONSTANTS
  Event,       \* events a provider may ever publish, numbered in listing order
  Source,      \* sources, as collected by their runner
  SourceOf,    \* the source an event belongs to
  OccurredAt,  \* when it occurred
  KeyOf,       \* its deduplication_id: source, attacker IP and instant
  Unusable,    \* events the normalisation rejects
  Undated,     \* those whose created_at cannot be read
  Poison,      \* events that make the INSERT of their batch raise
  RunnerOf,    \* 1 for OGO, 2 for Detoxio, 3 for Lurio
  PageSize,    \* events per page, chosen by the provider
  MaxPages,    \* DEFAULT_LURIO_MAX_PAGES_PER_CYCLE
  Safety,      \* POLL_SAFETY_WINDOW_SECONDS
  Lookback,    \* the 24 hours of a first collection
  MaxTime,     \* bound of the clock
  MaxDelay,    \* bound: how late an event may be published
  MaxFaults    \* bound: calls that fail without killing the process

ASSUME EventAssumption ==
  /\ Event \subseteq Nat
  /\ IsFiniteSet(Event)
  /\ SourceOf \in [Event -> Source]
  /\ OccurredAt \in [Event -> Nat]
  /\ \A e, f \in Event : KeyOf[e] = KeyOf[f] =>
       SourceOf[e] = SourceOf[f] /\ OccurredAt[e] = OccurredAt[f]
  /\ Undated \subseteq Unusable

ASSUME NumberAssumption ==
  /\ PageSize \in Nat \ {0} /\ MaxPages \in Nat \ {0}
  /\ Safety \in Nat \ {0} /\ Lookback \in Nat \ {0}
  /\ MaxTime \in Nat /\ MaxDelay \in Nat /\ MaxFaults \in Nat
  /\ RunnerOf \in [Source -> 1 .. 3]

None == -1
Lurio == 3
Time == 0 .. MaxTime

VARIABLES
  now,         \* the clock
  published,   \* when the provider published an event, or None
  active,      \* is_active of a source and of its configuration
  cursor,      \* scheduler_state.last_poll_at, or None
  outcome,     \* scheduler_state.last_collection_status
  rows,        \* deduplication_id of the rows of table attacks
  pc,          \* where the scheduler stands in the collection
  runner,      \* the collector at work
  todo,        \* its sources that remain to be collected in this cycle
  job,         \* the collection of one source in progress
  since,       \* history: start of the first window that gave a cursor
  faults       \* calls that failed so far

vars == <<now, published, active, cursor, outcome, rows, pc, runner, todo, job, since, faults>>
provider == <<now, published, active>>
tables == <<cursor, outcome, rows>>

\* What collect_once holds for the source in hand: the last_poll_at it read, the
\* window, the number of events on the pages read, the events, the created_at of
\* the last one, and whether the provider had no more.
Job == [source : Source, read : Time \cup {None}, after : Int, before : Time,
        offset : Nat, got : SUBSET Event, last : Nat \cup {None}, complete : BOOLEAN]
NoJob == [source |-> None]

TypeOK ==
  /\ now \in Time
  /\ published \in [Event -> Time \cup {None}]
  /\ active \in [Source -> BOOLEAN]
  /\ cursor \in [Source -> Time \cup {None}]
  /\ outcome \in [Source -> {"none", "success", "failed"}]
  /\ rows \subseteq {KeyOf[e] : e \in Event \ Unusable}
  /\ pc \in {"down", "runner", "source", "fetch", "store", "mark", "fail"}
  /\ runner \in 1 .. 3
  /\ todo \in SUBSET Source
  /\ job \in Job \cup {NoJob}
  /\ since \in [Source -> Int]
  /\ faults \in 0 .. MaxFaults

Init ==
  /\ now = 0
  /\ published = [e \in Event |-> None]
  /\ active \in [Source -> BOOLEAN]
  /\ cursor = [s \in Source |-> None]
  /\ outcome = [s \in Source |-> "none"]
  /\ rows = {}
  /\ pc = "down"
  /\ runner = 1
  /\ todo = {}
  /\ job = NoJob
  /\ since = [s \in Source |-> 0]
  /\ faults = 0

-------------------------------------------------------------------------------
(* The world outside the scheduler.                                        *)

Tick ==
  /\ now < MaxTime
  /\ now' = now + 1
  /\ UNCHANGED <<published, active, tables, pc, runner, todo, job, since, faults>>

\* An event appears in the listings of the provider once it has occurred.
Publish(e) ==
  /\ published[e] = None
  /\ OccurredAt[e] =< now /\ now =< OccurredAt[e] + MaxDelay
  /\ published' = [published EXCEPT ![e] = now]
  /\ UNCHANGED <<now, active, tables, pc, runner, todo, job, since, faults>>

\* The API or an inventory activates or deactivates a source.
SetActive(s) ==
  /\ active' = [active EXCEPT ![s] = ~ @]
  /\ UNCHANGED <<now, published, tables, pc, runner, todo, job, since, faults>>

\* What the provider lists for a source and a window, both bounds included.
Listing(s, after, before) ==
  {e \in Event : /\ published[e] # None
                 /\ SourceOf[e] = s
                 /\ after =< OccurredAt[e] /\ OccurredAt[e] =< before}

\* The listing is sorted by date: OGO is asked for it, at Serenicity it is what
\* _extract_last_report_created_at takes for granted.
Before(e, f) ==
  \/ OccurredAt[e] < OccurredAt[f]
  \/ OccurredAt[e] = OccurredAt[f] /\ e < f

Rank(e, listing) == Cardinality({f \in listing : f = e \/ Before(f, e)})

-------------------------------------------------------------------------------
(* CollectionService.run_once                                              *)

Start ==
  /\ pc = "down"
  /\ pc' = "runner"
  /\ UNCHANGED <<provider, tables, runner, todo, job, since, faults>>

\* The next collector, or the first one of the next cycle, some time later.
NextRunner ==
  /\ runner' = IF runner = Lurio THEN 1 ELSE runner + 1
  /\ pc' = "runner"
  /\ todo' = {}
  /\ UNCHANGED <<provider, tables, job, since>>

\* list_active_*_sources_for_collection
ListSources ==
  LET listed == {s \in Source : RunnerOf[s] = runner /\ active[s]} IN
  /\ pc = "runner"
  /\ UNCHANGED faults
  /\ \/ listed = {} /\ NextRunner
     \/ /\ listed # {}
        /\ todo' = listed
        /\ pc' = "source"
        /\ UNCHANGED <<provider, tables, runner, job, since>>

EndRunner ==
  /\ pc = "source"
  /\ todo = {}
  /\ NextRunner
  /\ UNCHANGED faults

\* The collector raises before its first source, or between two of them: the reads
\* of the sources and of scheduler_state are in no try.
RunnerRaises ==
  /\ pc \in {"runner", "source"}
  /\ faults < MaxFaults
  /\ faults' = faults + 1
  /\ NextRunner

-------------------------------------------------------------------------------
(* collect_once, for one source                                            *)

\* Mutant: the safety window is forgotten.
WindowStartWithoutSafety(read, before) ==
  IF read = None THEN before - Lookback ELSE read

\* build_collection_window
WindowStart(read, before) ==
  LET after == (IF read = None THEN before - Lookback ELSE read) - Safety
  IN  IF after >= before THEN before - 1 ELSE after

\* get_by_source_id, then the window, up to now.
OpenWindow(s) ==
  /\ pc = "source"
  /\ s \in todo
  /\ todo' = todo \ {s}
  /\ job' = [source |-> s, read |-> cursor[s], after |-> WindowStart(cursor[s], now),
             before |-> now, offset |-> 0, got |-> {}, last |-> None, complete |-> FALSE]
  /\ pc' = "fetch"
  /\ UNCHANGED <<provider, tables, runner, since, faults>>

Fail == pc' = "fail" /\ UNCHANGED <<provider, runner, todo, job, since>>

\* The credentials cannot be read, or the provider does not answer as it should.
FetchRaises ==
  /\ pc = "fetch"
  /\ faults < MaxFaults
  /\ faults' = faults + 1
  /\ Fail
  /\ UNCHANGED tables

\* What the provider lists when a page is asked for.
Listed == Listing(job.source, job.after, job.before)

PageEnd == job.offset + PageSize
Page == {e \in Listed : job.offset < Rank(e, Listed) /\ Rank(e, Listed) =< PageEnd}
Complete == Cardinality(Listed) =< PageEnd

\* Only Lurio bounds its pages.
Truncated == RunnerOf[job.source] = Lurio /\ PageEnd >= MaxPages * PageSize

\* The instant of the last event of a page, if it has one that can be read.
LastInstant(page) ==
  LET final == {e \in page : \A f \in page \ {e} : Before(f, e)} \ Undated
  IN  IF final = {} THEN None ELSE OccurredAt[CHOOSE e \in final : TRUE]

\* One page of list_journal_events, list_sensor_fluxes or list_lurio_reports.
FetchPage ==
  /\ pc = "fetch"
  /\ job' = [job EXCEPT !.offset = PageEnd,
                        !.got = @ \cup Page,
                        !.last = LastInstant(Page),
                        !.complete = Complete]
  /\ pc' = IF Complete \/ Truncated THEN "store" ELSE "fetch"
  /\ UNCHANGED <<provider, tables, runner, todo, since, faults>>

\* insert_collected_attacks, in one transaction; ON CONFLICT DO NOTHING.
Usable == job.got \ Unusable

Insert ==
  /\ pc = "store"
  /\ Usable \cap Poison = {}
  /\ rows' = rows \cup {KeyOf[e] : e \in Usable}

Store ==
  /\ Insert
  /\ pc' = "mark"
  /\ UNCHANGED <<provider, cursor, outcome, runner, todo, job, since, faults>>

\* The rows are there but commit() raises.
StoreUnacknowledged ==
  /\ Insert
  /\ Usable # {}
  /\ faults < MaxFaults
  /\ faults' = faults + 1
  /\ Fail
  /\ UNCHANGED <<cursor, outcome>>

\* The database refuses a row, or fails: no row of the batch is stored.
StoreRaises ==
  /\ pc = "store"
  /\ Usable # {}
  /\ \/ Usable \cap Poison # {} /\ UNCHANGED faults
     \/ faults < MaxFaults /\ faults' = faults + 1
  /\ Fail
  /\ UNCHANGED tables

\* The next source of the collector.
NextSource == pc' = "source" /\ job' = NoJob /\ UNCHANGED <<provider, rows, runner, todo>>

\* Mutant: a truncated collection resumes from the start of its window.
PollCursorFromStart == IF job.complete THEN job.before ELSE job.after

\* Mutant: the safety window is added to the cursor.
PollCursorAhead == IF job.complete THEN job.before + Safety ELSE job.last

\* poll_cursor of _persist_attacks: the end of the window, or for a listing that
\* was cut short the instant of the last event read, if it has one.
PollCursor == IF job.complete THEN job.before ELSE job.last

\* mark_collection_success
MarkSuccess ==
  /\ pc = "mark"
  /\ PollCursor # None
  /\ cursor' = [cursor EXCEPT ![job.source] = PollCursor]
  /\ outcome' = [outcome EXCEPT ![job.source] = "success"]
  /\ since' = [since EXCEPT ![job.source] = IF cursor[job.source] = None THEN job.after ELSE @]

Succeed ==
  /\ MarkSuccess
  /\ NextSource
  /\ UNCHANGED faults

SucceedUnacknowledged ==
  /\ MarkSuccess
  /\ faults < MaxFaults
  /\ faults' = faults + 1
  /\ pc' = "fail"
  /\ UNCHANGED <<provider, rows, runner, todo, job>>

MarkRaises ==
  /\ pc = "mark"
  /\ PollCursor # None
  /\ faults < MaxFaults
  /\ faults' = faults + 1
  /\ Fail
  /\ UNCHANGED tables

\* No cursor for the events that were read: the state of the source is kept.
KeepCursor ==
  /\ pc = "mark"
  /\ PollCursor = None
  /\ NextSource
  /\ UNCHANGED <<cursor, outcome, since, faults>>

\* Mutant: a source in error ends the cycle.
MarkFailureEndsCycle ==
  /\ pc = "fail"
  /\ cursor' = [cursor EXCEPT ![job.source] = IF job.read = None THEN @ ELSE job.read]
  /\ outcome' = [outcome EXCEPT ![job.source] = "failed"]
  /\ pc' = "runner"
  /\ runner' = 1
  /\ todo' = {}
  /\ job' = NoJob
  /\ UNCHANGED <<provider, rows, since, faults>>

\* mark_collection_failure, with the last_poll_at read before the collection:
\* COALESCE(EXCLUDED.last_poll_at, scheduler_state.last_poll_at).
MarkFailure ==
  /\ pc = "fail"
  /\ cursor' = [cursor EXCEPT ![job.source] = IF job.read = None THEN @ ELSE job.read]
  /\ outcome' = [outcome EXCEPT ![job.source] = "failed"]
  /\ NextSource
  /\ UNCHANGED <<since, faults>>

\* _record_collection_error only logs that the failure could not be recorded.
FailureLost ==
  /\ pc = "fail"
  /\ faults < MaxFaults
  /\ faults' = faults + 1
  /\ NextSource
  /\ UNCHANGED <<cursor, outcome, since>>

Crash ==
  /\ pc # "down"
  /\ pc' = "down"
  /\ runner' = 1
  /\ todo' = {}
  /\ job' = NoJob
  /\ UNCHANGED <<provider, tables, since, faults>>

-------------------------------------------------------------------------------
Worker ==
  \/ ListSources \/ EndRunner
  \/ \E s \in Source : OpenWindow(s)
  \/ FetchPage \/ Store \/ Succeed \/ KeepCursor \/ MarkFailure
  \/ StoreRaises

Fault ==
  \/ RunnerRaises \/ FetchRaises \/ StoreUnacknowledged
  \/ SucceedUnacknowledged \/ MarkRaises \/ FailureLost

Next ==
  \/ Tick
  \/ \E e \in Event : Publish(e)
  \/ \E s \in Source : SetActive(s)
  \/ Start
  \/ Worker
  \/ Fault
  \/ Crash

\* A live scheduler keeps stepping: its sleep ends, the provider answers or the
\* call raises.  Nothing restarts a dead one.
Fairness == WF_vars(Worker)

Spec == Init /\ [][Next]_vars /\ Fairness

-------------------------------------------------------------------------------
(* Properties                                                              *)

\* The provider published the event before the safety window closed on it.
InTime(e) == published[e] # None /\ published[e] =< OccurredAt[e] + Safety

\* No gap: an event the next window will not list again is in the table, if it was
\* published in time and is not older than the first window.  Whatever fails, and
\* in whatever order the pages, the rows and the cursor are written, the cursor
\* never leaves behind an event that was not stored.
NoGap ==
  \A e \in Event \ Unusable : LET s == SourceOf[e] IN
    /\ cursor[s] # None
    /\ since[s] =< OccurredAt[e]
    /\ OccurredAt[e] + Safety < cursor[s]
    /\ InTime(e)
    => KeyOf[e] \in rows

\* Fewer events in a safety window than Lurio reads in a cycle.
Sparse(s) ==
  \A t \in {OccurredAt[e] : e \in Event} :
    Cardinality({e \in Event : /\ SourceOf[e] = s
                               /\ t - Safety =< OccurredAt[e] /\ OccurredAt[e] =< t})
      < MaxPages * PageSize

\* A successful collection of a sparse source never moves its cursor back, even
\* when the listing was cut short: the truncated collections get somewhere.
SuccessAdvances ==
  [][\A s \in Source :
       /\ pc = "mark" /\ job.source = s /\ job.read # None /\ Sparse(s)
       /\ cursor'[s] # cursor[s]
       => cursor'[s] > job.read]_vars

\* An event published in time, of a source that stays active and sparse and has no
\* event the table refuses, reaches the table, unless the scheduler dies.  What
\* happens to another source, or to another collector, does not prevent it.
EventuallyStored ==
  \A e \in Event \ Unusable : LET s == SourceOf[e] IN
    InTime(e) /\ Sparse(s) /\ (\A f \in Poison : SourceOf[f] # s) /\ (cursor[s] = None \/ since[s] =< OccurredAt[e])
      ~> KeyOf[e] \in rows \/ ~ active[s] \/ pc = "down"
===============================================================================

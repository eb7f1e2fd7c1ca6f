---------------------------- MODULE InventoryProofs ----------------------------
(***************************************************************************)
(* What holds of Inventory for any configurations, sources and parts, and  *)
(* any number of failures.                                                 *)
(***************************************************************************)
EXTENDS Inventory, TLAPS

Running == {"fetch", "write", "mark", "report", "missing", "end"}

\* What run_config holds at each point: nothing is left to write when it looks for
\* the missing sources and when it ends, and these come when all is read.
RunHolds ==
  /\ pc \in Running => run \in Run
  /\ pc \notin Running => run = NoRun
  /\ pc = "report" => run.failed
  /\ pc \in {"fetch", "missing"} => ~ run.missing
  /\ pc = "end" => run.missing
  /\ pc \in {"missing", "end"} => run.queue = Nothing
  /\ pc \in {"missing", "end"} => run.parts = {}
  /\ pc \in Running /\ run.missing => run.parts = {}

StatusOf(l) == IF l.on THEN "active" ELSE "inactive"

\* What an inventory in which nothing failed knows of a source that neither the
\* provider nor the API has touched: it has seen it if a part it read lists it; then
\* it is to be written with the status listed, or has been; else it is as it was when
\* the inventory began, until it is deactivated.
Known(s) ==
  LET l == listing[run.config][s]
      c == run.config
  IN
  /\ s \in run.seen <=> l.parts \cap (Part \ run.parts) # {}
  /\ s \in run.seen /\ run.queue[s] # "absent" =>
       ~ run.missing /\ run.queue[s] = StatusOf(l)
  /\ s \in run.seen /\ run.queue[s] = "absent" =>
       /\ owner[s] = c /\ row[s] = StatusOf(l)
       /\ marked[s] = "success" \/ (pc = "mark" /\ run.item = s)
  /\ s \notin run.seen /\ ~ run.missing =>
       /\ run.queue[s] = "absent"
       /\ run.known[s] = IF owner[s] = c THEN row[s] ELSE "absent"
  /\ s \notin run.seen /\ run.missing =>
       \/ run.queue[s] = "inactive"
       \/ run.queue[s] = "absent" /\ ~ (owner[s] = c /\ row[s] = "active")

KnownWhenClean == pc \in Running /\ ~ run.failed => \A s \in intact : Known(s)

IInv == TypeOK /\ RunHolds /\ KnownWhenClean

-------------------------------------------------------------------------------
(* The inventory in progress                                               *)

LEMMA NewRunType ==
  ASSUME TypeOK, NEW t \in todo
  PROVE  /\ NewRun(t) \in Run
         /\ NewRun(t).config = t.config /\ NewRun(t).parts = Part /\ NewRun(t).queue = Nothing
         /\ NewRun(t).seen = {} /\ ~ NewRun(t).missing /\ ~ NewRun(t).failed
         /\ \A s \in Source :
              NewRun(t).known[s] = IF owner[s] = t.config THEN row[s] ELSE "absent"
<1>1. t.config \in Config /\ t.type \in Type
  BY DEF TypeOK
<1>2. [s \in Source |-> IF owner[s] = t.config THEN row[s] ELSE "absent"] \in [Source -> State]
  BY DEF TypeOK, State
<1>3. Nothing \in [Source -> State]
  BY DEF Nothing, State
<1>. QED  BY <1>1, <1>2, <1>3 DEF NewRun, Run

LEMMA RecordType ==
  ASSUME NEW r \in Run, NEW found \in [Source -> State]
  PROVE  /\ Record(r, found) \in Run
         /\ Record(r, found).config = r.config /\ Record(r, found).parts = r.parts
         /\ Record(r, found).missing = r.missing /\ Record(r, found).failed = r.failed
         /\ Record(r, found).known = r.known /\ Record(r, found).item = r.item
         /\ Record(r, found).seen = r.seen \cup {s \in Source : found[s] # "absent"}
         /\ \A s \in Source : Record(r, found).queue[s] =
              IF found[s] = "absent" THEN r.queue[s] ELSE found[s]
<1>. DEFINE queue == [s \in Source |-> IF found[s] = "absent" THEN r.queue[s] ELSE found[s]]
            seen == r.seen \cup {s \in Source : found[s] # "absent"}
<1>1. queue \in [Source -> State] /\ seen \in SUBSET Source
  BY DEF Run
<1>2. Record(r, found) = [r EXCEPT !.queue = queue, !.seen = seen]
  BY DEF Record
<1>3. \A s \in Source : queue[s] = IF found[s] = "absent" THEN r.queue[s] ELSE found[s]
  OBVIOUS
<1>. HIDE DEF queue
<1>. QED  BY <1>1, <1>2, <1>3 DEF Run

LEMMA TakeType ==
  ASSUME run \in Run, NEW s \in Source
  PROVE  /\ Take(s) \in Run
         /\ Take(s).config = run.config /\ Take(s).parts = run.parts /\ Take(s).known = run.known
         /\ Take(s).missing = run.missing /\ Take(s).failed = run.failed
         /\ Take(s).seen = run.seen /\ Take(s).item = s
         /\ Take(s).queue = [run.queue EXCEPT ![s] = "absent"]
BY DEF Take, Run, State

LEMMA AnswerType == \A p \in Part : Answer(p) \in [Source -> State]
BY DEF Answer, State

\* Where the inventory goes on says what is left of it.
LEMMA ResumeHolds ==
  ASSUME NEW r \in Run, r.missing => r.parts = {}
  PROVE  /\ Resume(r) \in {"fetch", "write", "missing", "end"}
         /\ Resume(r) \in {"fetch", "missing"} => ~ r.missing
         /\ Resume(r) = "end" => r.missing
         /\ Resume(r) \in {"missing", "end"} => r.queue = Nothing /\ r.parts = {}
BY DEF Resume

\* Going on with a record that is well formed keeps what an inventory holds.
LEMMA ContinueHolds ==
  ASSUME NEW r \in Run, r.missing => r.parts = {}, Continue(r)
  PROVE  RunHolds' /\ run' \in Run /\ pc' \in {"fetch", "write", "missing", "end"}
<1>1. run' = r /\ pc' = Resume(r)
  BY DEF Continue
<1>2. pc' \in {"fetch", "write", "missing", "end"}
  BY <1>1, ResumeHolds
<1>. QED  BY <1>1, <1>2, ResumeHolds DEF RunHolds, Running

LEMMA NextRunHolds ==
  ASSUME TypeOK, RunHolds, [Next]_vars
  PROVE  /\ RunHolds'
         /\ run' \in Run \cup {NoRun}
         /\ pc' \in {"down", "idle", "select", "fetch", "write", "mark", "report", "missing", "end"}
         /\ todo' \subseteq [config : Config, type : Type]
<1>. DEFINE Holds == /\ RunHolds
                     /\ run \in Run \cup {NoRun}
                     /\ pc \in {"down", "idle", "select", "fetch", "write", "mark", "report",
                                "missing", "end"}
<1>0. Holds /\ todo \subseteq [config : Config, type : Type]
  BY DEF TypeOK
<1>1. CASE UNCHANGED scheduler
  BY <1>0, <1>1 DEF scheduler, RunHolds
<1>2. CASE Start \/ BeginInventory \/ EndInventory
  <2>1. pc \notin Running /\ pc' \notin Running /\ run' = run /\ run = NoRun
    BY <1>2 DEF Start, BeginInventory, EndInventory, RunHolds, Running
  <2>2. todo' \subseteq [config : Config, type : Type]
    BY <1>2, <1>0 DEF Start, BeginInventory, EndInventory, TypeOK, Configuration
  <2>3. pc' \in {"idle", "select"}
    BY <1>2 DEF Start, BeginInventory, EndInventory
  <2>. QED  BY <2>1, <2>2, <2>3 DEF RunHolds, Running
<1>3. CASE NextConfig
  <2>1. PICK t \in todo : run' = NewRun(t) /\ todo' = todo \ {t} /\ pc' = "fetch"
    BY <1>3 DEF NextConfig
  <2>2. run' \in Run /\ ~ run'.missing
    BY <2>1, NewRunType
  <2>. QED  BY <1>0, <2>1, <2>2 DEF RunHolds, Running
<1>4. CASE ConfigFails
  <2>. DEFINE r == [run EXCEPT !.parts = {}, !.failed = TRUE]
  <2>1. run \in Run
    BY <1>4 DEF ConfigFails, RunHolds, Running
  <2>2. r \in Run /\ r.parts = {}
    BY <2>1 DEF Run
  <2>3. Continue(r) /\ UNCHANGED todo
    BY <1>4 DEF ConfigFails
  <2>. HIDE DEF r
  <2>. QED  BY <1>0, <2>2, <2>3, ContinueHolds
<1>5. ASSUME NEW p \in Part, ReadPart(p) PROVE Holds' /\ UNCHANGED todo
  <2>. DEFINE q == [run EXCEPT !.parts = @ \ {p}]  r == Record(q, Answer(p))
  <2>1. run \in Run /\ ~ run.missing
    BY <1>5 DEF ReadPart, RunHolds, Running
  <2>2. q \in Run /\ ~ q.missing
    BY <2>1 DEF Run
  <2>3. Continue(r) /\ UNCHANGED todo
    BY <1>5 DEF ReadPart
  <2>. HIDE DEF q
  <2>4. r \in Run /\ ~ r.missing
    BY <2>2, RecordType, AnswerType
  <2>. HIDE DEF r
  <2>. QED  BY <2>3, <2>4, ContinueHolds
<1>6. ASSUME NEW p \in Part, PartFails(p) PROVE Holds' /\ UNCHANGED todo
  <2>. DEFINE r == [run EXCEPT !.parts = @ \ {p}, !.failed = TRUE]
  <2>1. run \in Run /\ ~ run.missing
    BY <1>6 DEF PartFails, RunHolds, Running
  <2>2. r \in Run /\ ~ r.missing
    BY <2>1 DEF Run
  <2>3. Continue(r) /\ UNCHANGED todo
    BY <1>6 DEF PartFails
  <2>. HIDE DEF r
  <2>. QED  BY <2>2, <2>3, ContinueHolds
<1>7. ASSUME NEW s \in Source, Write(s) PROVE Holds' /\ UNCHANGED todo
  <2>1. run \in Run /\ (run.missing => run.parts = {})
    BY <1>7 DEF Write, RunHolds, Running
  <2>2. run' = Take(s) /\ pc' = "mark" /\ UNCHANGED todo
    BY <1>7 DEF Write
  <2>. QED  BY <2>1, <2>2, TakeType DEF RunHolds, Running
<1>8. ASSUME NEW s \in Source, WriteRaises(s) PROVE Holds' /\ UNCHANGED todo
  <2>1. run \in Run /\ (run.missing => run.parts = {})
    BY <1>8 DEF WriteRaises, RunHolds, Running
  <2>2. run' = [Take(s) EXCEPT !.failed = TRUE] /\ pc' = "report" /\ UNCHANGED todo
    BY <1>8 DEF WriteRaises
  <2>3. Take(s) \in Run /\ (Take(s).missing => Take(s).parts = {})
    BY <2>1, TakeType
  <2>4. run' \in Run /\ run'.failed /\ (run'.missing => run'.parts = {})
    BY <2>2, <2>3 DEF Run
  <2>. QED  BY <2>2, <2>4 DEF RunHolds, Running
<1>9. CASE MarkRaises
  <2>1. run \in Run /\ (run.missing => run.parts = {})
    BY <1>9 DEF MarkRaises, RunHolds, Running
  <2>2. run' = [run EXCEPT !.failed = TRUE] /\ pc' = "report" /\ UNCHANGED todo
    BY <1>9 DEF MarkRaises
  <2>3. run' \in Run /\ run'.failed /\ (run'.missing => run'.parts = {})
    BY <2>1, <2>2 DEF Run
  <2>. QED  BY <1>0, <2>2, <2>3 DEF RunHolds, Running
<1>10. CASE MarkSuccess \/ MarkFailure
  <2>. DEFINE r == [run EXCEPT !.item = None]
  <2>1. run \in Run /\ (run.missing => run.parts = {})
    BY <1>10 DEF MarkSuccess, MarkFailure, RunHolds, Running
  <2>2. r \in Run /\ (r.missing => r.parts = {})
    BY <2>1 DEF Run
  <2>3. Continue(r) /\ UNCHANGED todo
    BY <1>10 DEF MarkSuccess, MarkFailure
  <2>. HIDE DEF r
  <2>. QED  BY <1>0, <2>2, <2>3, ContinueHolds
<1>11. CASE FindMissing
  <2>. DEFINE queue == [s \in Source |->
                IF run.known[s] = "active" /\ s \notin run.seen THEN "inactive" ELSE "absent"]
              r == [run EXCEPT !.missing = TRUE, !.queue = queue]
  <2>1. run \in Run /\ run.parts = {} /\ queue \in [Source -> State]
    BY <1>11 DEF FindMissing, RunHolds, Running, State
  <2>2. Continue(r) /\ UNCHANGED todo
    BY <1>11 DEF FindMissing
  <2>. HIDE DEF queue
  <2>3. r \in Run /\ r.parts = {}
    BY <2>1 DEF Run
  <2>. HIDE DEF r
  <2>. QED  BY <1>0, <2>2, <2>3, ContinueHolds
<1>12. CASE EndConfig \/ Crash
  <2>1. run' = NoRun /\ pc' \in {"select", "down"} /\ todo' \in {todo, {}}
    BY <1>12 DEF EndConfig, Crash
  <2>. QED  BY <1>0, <2>1 DEF RunHolds, Running
<1>13. World => UNCHANGED scheduler
  BY DEF World, Relist, SetActive, RequestInventory, DeleteConfig, UpdateSourceStatus
<1>. QED
  BY <1>0, <1>1, <1>2, <1>3, <1>4, <1>5, <1>6, <1>7, <1>8, <1>9, <1>10, <1>11, <1>12, <1>13
  DEF Next, Worker, vars, scheduler

-------------------------------------------------------------------------------
(* Type correctness                                                        *)

Owned == \A s \in Source : owner[s] # None => row[s] # "absent" /\ config[owner[s]].stored

Rows ==
  /\ config \in [Config -> Configuration]
  /\ listing \in [Config -> [Source -> Listing]]
  /\ row \in [Source -> State]
  /\ owner \in [Source -> Config \cup {None}]
  /\ marked \in [Source -> {"none", "success", "failed"}]
  /\ Owned

\* A transaction that writes a source leaves it, with its owner, in the tables.
LEMMA WriteSourceRows ==
  ASSUME Rows, run \in Run, NEW s \in Source, run.queue[s] # "absent", WriteSource(s)
  PROVE  /\ row' \in [Source -> State]
         /\ owner' \in [Source -> Config \cup {None}]
         /\ \A x \in Source : owner'[x] # None => row'[x] # "absent" /\ config[owner'[x]].stored
<1>1. run.config \in Config /\ run.queue[s] \in State
  BY DEF Run
<1>2. row' = [row EXCEPT ![s] = run.queue[s]]
  BY DEF WriteSource
<1>3. CASE run.missing
  BY <1>1, <1>2, <1>3 DEF WriteSource, Allowed, Rows, Owned
<1>4. CASE ~ run.missing
  <2>1. owner' = [owner EXCEPT ![s] = run.config] /\ config[run.config].stored
    BY <1>4 DEF WriteSource, Allowed
  <2>. QED  BY <1>1, <1>2, <2>1 DEF Rows, Owned
<1>. QED  BY <1>3, <1>4

LEMMA NextRows ==
  ASSUME TypeOK, RunHolds, [Next]_vars
  PROVE  Rows'
<1>0. Rows
  BY DEF TypeOK, Rows, Owned
<1>1. CASE UNCHANGED <<config, listing, row, owner, marked>>
  BY <1>0, <1>1 DEF Rows, Owned
<1>2. ASSUME NEW c \in Config, NEW s \in Source, Relist(c, s) PROVE Rows'
  <2>1. UNCHANGED <<config, row, owner, marked>>
    BY <1>2 DEF Relist, sources
  <2>2. listing' \in [Config -> [Source -> Listing]]
    BY <1>0, <1>2 DEF Relist, Rows
  <2>. QED  BY <1>0, <2>1, <2>2 DEF Rows, Owned
<1>3. ASSUME NEW c \in Config, SetActive(c) PROVE Rows'
  <2>1. UNCHANGED <<listing, row, owner, marked>>
    BY <1>3 DEF SetActive, sources
  <2>2. /\ config' \in [Config -> Configuration]
        /\ \A d \in Config : config'[d].stored = config[d].stored
    BY <1>0, <1>3 DEF SetActive, Rows, Configuration
  <2>. QED  BY <1>0, <2>1, <2>2 DEF Rows, Owned
<1>10. ASSUME NEW c \in Config, RequestInventory(c) PROVE Rows'
  <2>1. UNCHANGED <<listing, row, owner, marked>>
    BY <1>10 DEF RequestInventory, sources
  <2>2. /\ config' \in [Config -> Configuration]
        /\ \A d \in Config : config'[d].stored = config[d].stored
    BY <1>0, <1>10 DEF RequestInventory, Rows, Configuration
  <2>. QED  BY <1>0, <2>1, <2>2 DEF Rows, Owned
<1>4. ASSUME NEW c \in Config, DeleteConfig(c) PROVE Rows'
  <2>1. UNCHANGED <<listing, row, marked>>
    BY <1>4 DEF DeleteConfig
  <2>2. /\ config' \in [Config -> Configuration]
        /\ \A d \in Config : d # c => config'[d].stored = config[d].stored
    BY <1>0, <1>4 DEF DeleteConfig, Rows, Configuration
  <2>3. owner' = [s \in Source |-> IF owner[s] = c THEN None ELSE owner[s]]
    BY <1>4 DEF DeleteConfig
  <2>4. \A s \in Source : owner'[s] # None => owner'[s] = owner[s] /\ owner[s] # c
    BY <2>3, NullAssumption
  <2>. QED  BY <1>0, <2>1, <2>2, <2>3, <2>4 DEF Rows, Owned
<1>5. ASSUME NEW s \in Source, UpdateSourceStatus(s) PROVE Rows'
  BY <1>0, <1>5 DEF UpdateSourceStatus, Rows, Owned, State
<1>6. ASSUME NEW s \in Source, Write(s) \/ WriteRaises(s) PROVE Rows'
  <2>1. run \in Run /\ run.queue[s] # "absent" /\ UNCHANGED <<config, listing, marked>>
    BY <1>6 DEF Write, WriteRaises, RunHolds, Running
  <2>2. WriteSource(s) \/ UNCHANGED <<row, owner>>
    BY <1>6 DEF Write, WriteRaises
  <2>3. CASE WriteSource(s)
    BY <1>0, <2>1, <2>3, WriteSourceRows DEF Rows, Owned
  <2>4. CASE UNCHANGED <<row, owner>>
    BY <1>0, <2>1, <2>4 DEF Rows, Owned
  <2>. QED  BY <2>2, <2>3, <2>4
<1>7. CASE MarkSuccess \/ MarkRaises \/ MarkFailure
  <2>1. UNCHANGED <<config, listing, row, owner>>
    BY <1>7 DEF MarkSuccess, MarkRaises, MarkFailure
  <2>2. marked' \in {marked, [marked EXCEPT ![run.item] = "success"],
                     [marked EXCEPT ![run.item] = "failed"]}
    BY <1>7 DEF MarkSuccess, MarkRaises, MarkFailure
  <2>3. marked' \in [Source -> {"none", "success", "failed"}]
    BY <1>0, <2>2 DEF Rows
  <2>. QED  BY <1>0, <2>1, <2>3 DEF Rows, Owned
<1>8. CASE EndConfig
  <2>1. UNCHANGED <<listing, row, owner, marked>>
    BY <1>8 DEF EndConfig, sources
  <2>2. /\ config' \in [Config -> Configuration]
        /\ \A d \in Config : config'[d].stored = config[d].stored
    BY <1>0, <1>8 DEF EndConfig, Rows, Configuration
  <2>. QED  BY <1>0, <2>1, <2>2 DEF Rows, Owned
<1>9. CASE \/ Start \/ BeginInventory \/ NextConfig \/ EndInventory \/ ConfigFails
           \/ \E p \in Part : ReadPart(p) \/ PartFails(p)
           \/ FindMissing \/ Crash \/ UNCHANGED vars
  <2>1. UNCHANGED <<config, listing, row, owner, marked>>
    BY <1>9 DEF Start, BeginInventory, NextConfig, EndInventory, ConfigFails, ReadPart,
                PartFails, FindMissing, Crash, vars, sources
  <2>. QED  BY <1>1, <2>1
<1>. QED
  BY <1>2, <1>3, <1>4, <1>5, <1>6, <1>7, <1>8, <1>9, <1>10 DEF Next, World, Worker

LEMMA NextHistory ==
  ASSUME TypeOK, [Next]_vars
  PROVE  intact' \subseteq Source /\ asked' \in BOOLEAN /\ faults' \in 0 .. MaxFaults
<1>. USE DEF TypeOK
<1>1. intact' \subseteq Source
  BY DEF Next, World, Worker, vars, Relist, SetActive, RequestInventory, DeleteConfig,
         UpdateSourceStatus, Start, BeginInventory, NextConfig, EndInventory, ConfigFails,
         ReadPart, PartFails, Write, WriteRaises, MarkSuccess, MarkRaises, MarkFailure,
         FindMissing, EndConfig, Crash
<1>2. asked' \in BOOLEAN
  BY DEF Next, World, Worker, vars, Relist, SetActive, RequestInventory, DeleteConfig,
         UpdateSourceStatus, Start, BeginInventory, NextConfig, EndInventory, ConfigFails,
         ReadPart, PartFails, Write, WriteRaises, MarkSuccess, MarkRaises, MarkFailure,
         FindMissing, EndConfig, Crash
<1>3. faults' \in {faults} \/ (faults < MaxFaults /\ faults' = faults + 1)
  BY DEF Next, World, Worker, vars, Relist, SetActive, RequestInventory, DeleteConfig,
         UpdateSourceStatus, Start, BeginInventory, NextConfig, EndInventory, ConfigFails,
         ReadPart, PartFails, Write, WriteRaises, MarkSuccess, MarkRaises, MarkFailure,
         FindMissing, EndConfig, Crash, MayFail
<1>. QED  BY <1>1, <1>2, <1>3, FaultAssumption

LEMMA InitHolds == Init => TypeOK /\ RunHolds
<1>. SUFFICES ASSUME Init PROVE TypeOK /\ RunHolds
  OBVIOUS
<1>1. config \in [Config -> Configuration]
  <2>. DEFINE First == {[type |-> t, stored |-> TRUE, active |-> FALSE, requested |-> TRUE] : t \in Type}
  <2>1. ASSUME NEW t \in Type
        PROVE  [type |-> t, stored |-> TRUE, active |-> FALSE, requested |-> TRUE] \in Configuration
    BY DEF Configuration
  <2>2. config \in [Config -> First] /\ First \subseteq Configuration
    BY <2>1 DEF Init
  <2>. HIDE DEF First
  <2>. QED  BY <2>2
<1>2. listing \in [Config -> [Source -> Listing]]
  BY DEF Init, Unlisted, Listing
<1>3. row \in [Source -> State] /\ owner = [s \in Source |-> None]
  BY DEF Init, Nothing, State
<1>4. TypeOK
  <2>1. /\ marked = [s \in Source |-> "none"] /\ pc = "down" /\ todo = {} /\ run = NoRun
        /\ intact = {} /\ faults = 0
    BY DEF Init
  <2>2. asked \in BOOLEAN
    BY DEF Init
  <2>3. owner \in [Source -> Config \cup {None}] /\ \A s \in Source : owner[s] = None
    BY <1>3
  <2>4. marked \in [Source -> {"none", "success", "failed"}] /\ faults \in 0 .. MaxFaults
    BY <2>1, FaultAssumption
  <2>. QED  BY <1>1, <1>2, <1>3, <2>1, <2>2, <2>3, <2>4 DEF TypeOK
<1>5. RunHolds
  BY DEF Init, RunHolds, Running
<1>. QED  BY <1>4, <1>5

\* Every field the inventory, the API and the provider write keeps its type, and the
\* owner of a source is a stored configuration of a source that exists.
THEOREM TypeCorrect == Spec => []TypeOK
<1>1. TypeOK /\ RunHolds /\ [Next]_vars => (TypeOK /\ RunHolds)'
  <2>. SUFFICES ASSUME TypeOK, RunHolds, [Next]_vars PROVE TypeOK' /\ RunHolds'
    OBVIOUS
  <2>1. Rows' /\ RunHolds'
    BY NextRows, NextRunHolds
  <2>. QED  BY <2>1, NextRunHolds, NextHistory DEF TypeOK, Rows, Owned
<1>. QED  BY <1>1, InitHolds, PTL DEF Spec

-------------------------------------------------------------------------------
(* What an inventory in which nothing failed knows                         *)

\* The API and the provider take a source out of `intact` before they touch it.
LEMMA WorldKeepsKnown ==
  ASSUME TypeOK, RunHolds, KnownWhenClean, World
  PROVE  KnownWhenClean'
<1>. SUFFICES ASSUME pc \in Running, ~ run.failed, NEW s \in Source, s \in intact, s \in intact',
                     Known(s), UNCHANGED scheduler
              PROVE  Known(s)'
  <2>1. UNCHANGED scheduler /\ intact' \subseteq intact /\ intact \subseteq Source
    BY DEF World, Relist, SetActive, RequestInventory, DeleteConfig, UpdateSourceStatus, TypeOK
  <2>. QED  BY <2>1 DEF KnownWhenClean, scheduler
<1>0. run \in Run /\ run.config \in Config
  BY DEF RunHolds, Run
<1>1. listing'[run.config][s] = listing[run.config][s] /\ row'[s] = row[s]
        /\ (owner'[s] = run.config <=> owner[s] = run.config) /\ marked'[s] = marked[s]
  <2>1. ASSUME NEW c \in Config, NEW x \in Source, Relist(c, x)
        PROVE  listing'[run.config][s] = listing[run.config][s]
    BY <1>0, <2>1 DEF Relist, TypeOK
  <2>2. ASSUME NEW c \in Config, DeleteConfig(c)
        PROVE  owner'[s] = owner[s]
    BY <2>2 DEF DeleteConfig, TypeOK
  <2>3. ASSUME NEW x \in Source, UpdateSourceStatus(x)
        PROVE  row'[s] = row[s]
    BY <2>3 DEF UpdateSourceStatus, TypeOK
  <2>. QED
    BY <2>1, <2>2, <2>3 DEF World, Relist, SetActive, RequestInventory, DeleteConfig,
       UpdateSourceStatus, sources
<1>2. run' = run /\ pc' = pc
  BY DEF scheduler
<1>. QED  BY <1>1, <1>2 DEF Known

\* A part that was read has shown the sources it lists, with their status.
LEMMA ReadPartKeepsKnown ==
  ASSUME TypeOK, RunHolds, NEW p \in Part, ReadPart(p), NEW s \in Source, Known(s)
  PROVE  Known(s)'
<1>. DEFINE q == [run EXCEPT !.parts = @ \ {p}]  r == Record(q, Answer(p))
            l == listing[run.config][s]
<1>1. run \in Run /\ pc = "fetch" /\ ~ run.missing /\ p \in run.parts
  BY DEF ReadPart, RunHolds, Running
<1>2. q \in Run /\ q.parts = run.parts \ {p} /\ q.config = run.config /\ q.known = run.known
        /\ q.queue = run.queue /\ q.seen = run.seen /\ q.missing = run.missing
  BY <1>1 DEF Run
<1>3. run' = r /\ UNCHANGED <<listing, row, owner, marked>>
  BY DEF ReadPart, Continue, sources
<1>4. Answer(p)[s] = IF p \notin l.parts THEN "absent" ELSE StatusOf(l)
  BY DEF Answer, StatusOf
<1>5. StatusOf(l) # "absent"
  BY DEF StatusOf
<1>. HIDE DEF q
<1>6. /\ r.config = run.config /\ r.parts = run.parts \ {p} /\ r.missing = run.missing
      /\ r.known = run.known
      /\ s \in r.seen <=> s \in run.seen \/ p \in l.parts
      /\ r.queue[s] = IF p \in l.parts THEN StatusOf(l) ELSE run.queue[s]
  BY <1>2, <1>4, <1>5, RecordType, AnswerType
<1>. HIDE DEF r
<1>7. run.parts \subseteq Part
  BY <1>1 DEF Run
<1>8. l.parts \cap (Part \ r.parts) # {} <=> l.parts \cap (Part \ run.parts) # {} \/ p \in l.parts
  BY <1>6, <1>7
<1>9. /\ run'.config = run.config /\ run'.missing = run.missing /\ run'.known = run.known
      /\ s \in run'.seen <=> s \in run.seen \/ p \in l.parts
      /\ run'.queue[s] = IF p \in l.parts THEN StatusOf(l) ELSE run.queue[s]
      /\ l.parts \cap (Part \ run'.parts) # {} <=> l.parts \cap (Part \ run.parts) # {} \/ p \in l.parts
      /\ listing'[run.config][s] = l
  BY <1>3, <1>6, <1>8
<1>. HIDE DEF l
<1>10. CASE p \in l.parts
  BY <1>1, <1>5, <1>9, <1>10 DEF Known, l
<1>11. CASE p \notin l.parts
  BY <1>1, <1>3, <1>9, <1>11 DEF Known, l
<1>. QED  BY <1>10, <1>11

\* What is written is the status listed, or the absence.
LEMMA WriteKeepsKnown ==
  ASSUME TypeOK, RunHolds, NEW x \in Source, Write(x), NEW s \in Source, Known(s)
  PROVE  Known(s)'
<1>1. run \in Run /\ pc = "write" /\ run.queue[x] # "absent" /\ Allowed(x)
  BY DEF Write, WriteSource, RunHolds, Running
<1>2. run' = Take(x) /\ pc' = "mark" /\ UNCHANGED <<listing, marked>>
  BY DEF Write
<1>3. row' = [row EXCEPT ![x] = run.queue[x]]
      /\ owner' = IF run.missing THEN owner ELSE [owner EXCEPT ![x] = run.config]
  BY DEF Write, WriteSource
<1>4. /\ run'.config = run.config /\ run'.parts = run.parts /\ run'.known = run.known
      /\ run'.missing = run.missing /\ run'.seen = run.seen /\ run'.item = x
      /\ run'.queue = [run.queue EXCEPT ![x] = "absent"]
  BY <1>1, <1>2, TakeType
<1>5. run.queue \in [Source -> State] /\ row \in [Source -> State]
      /\ owner \in [Source -> Config \cup {None}]
  BY <1>1 DEF Run, TypeOK
<1>6. CASE s # x
  <2>1. run'.queue[s] = run.queue[s] /\ row'[s] = row[s] /\ owner'[s] = owner[s]
    BY <1>3, <1>4, <1>5, <1>6
  <2>. QED  BY <1>1, <1>2, <1>4, <2>1 DEF Known
<1>7. CASE s = x
  <2>1. run'.queue[s] = "absent" /\ row'[s] = run.queue[s]
    BY <1>3, <1>4, <1>5, <1>7
  <2>2. CASE s \in run.seen
    <3>1. ~ run.missing /\ run.queue[s] = StatusOf(listing[run.config][s])
      BY <1>1, <1>7, <2>2 DEF Known
    <3>2. owner'[s] = run.config
      BY <1>3, <1>5, <1>7, <3>1
    <3>. QED  BY <1>2, <1>4, <1>7, <2>1, <2>2, <3>1, <3>2 DEF Known
  <2>3. CASE s \notin run.seen
    <3>1. run.missing /\ run.queue[s] = "inactive"
      BY <1>1, <1>7, <2>3 DEF Known
    <3>. QED  BY <1>2, <1>4, <2>1, <2>3, <3>1 DEF Known
  <2>. QED  BY <2>2, <2>3
<1>. QED  BY <1>6, <1>7

\* The known sources that no part listed are those to deactivate.
LEMMA FindMissingKeepsKnown ==
  ASSUME TypeOK, RunHolds, FindMissing, NEW s \in Source, Known(s)
  PROVE  Known(s)'
<1>. DEFINE queue == [x \in Source |->
              IF run.known[x] = "active" /\ x \notin run.seen THEN "inactive" ELSE "absent"]
            r == [run EXCEPT !.missing = TRUE, !.queue = queue]
<1>1. run \in Run /\ pc = "missing" /\ ~ run.missing /\ run.queue[s] = "absent"
  BY DEF FindMissing, RunHolds, Running, Nothing
<1>2. run' = r /\ UNCHANGED <<listing, row, owner, marked>>
  BY DEF FindMissing, Continue, sources
<1>3. queue[s] = IF run.known[s] = "active" /\ s \notin run.seen THEN "inactive" ELSE "absent"
  OBVIOUS
<1>. HIDE DEF queue
<1>4. /\ r.config = run.config /\ r.parts = run.parts /\ r.known = run.known
      /\ r.seen = run.seen /\ r.missing /\ r.queue = queue
  BY <1>1 DEF Run
<1>. HIDE DEF r
<1>5. CASE s \in run.seen
  BY <1>1, <1>2, <1>3, <1>4, <1>5 DEF Known
<1>6. CASE s \notin run.seen
  BY <1>1, <1>2, <1>3, <1>4, <1>6 DEF Known
<1>. QED  BY <1>5, <1>6

LEMMA NextKnown ==
  ASSUME TypeOK, RunHolds, KnownWhenClean, [Next]_vars
  PROVE  KnownWhenClean'
<1>0. ASSUME pc \in Running, ~ run.failed, NEW s \in intact PROVE s \in Source /\ Known(s)
  BY <1>0 DEF KnownWhenClean, TypeOK
<1>1. CASE World
  BY <1>1, WorldKeepsKnown
<1>2. CASE Start \/ BeginInventory \/ EndInventory \/ EndConfig \/ Crash
  BY <1>2 DEF Start, BeginInventory, EndInventory, EndConfig, Crash, KnownWhenClean, Running
<1>3. CASE NextConfig
  <2>1. PICK t \in todo : run' = NewRun(t)
    BY <1>3 DEF NextConfig
  <2>2. UNCHANGED <<listing, row, owner, marked>> /\ intact' = Source
    BY <1>3 DEF NextConfig, sources
  <2>3. ASSUME NEW s \in Source PROVE Known(s)'
    <3>1. Nothing[s] = "absent"
      BY DEF Nothing
    <3>. QED  BY <2>1, <2>2, <3>1, NewRunType DEF Known
  <2>. QED  BY <2>2, <2>3 DEF KnownWhenClean
<1>4. ASSUME NEW p \in Part, ReadPart(p) PROVE KnownWhenClean'
  <2>1. run \in Run /\ pc = "fetch" /\ intact' = intact
    BY <1>4 DEF ReadPart, RunHolds, Running
  <2>. DEFINE q == [run EXCEPT !.parts = @ \ {p}]
  <2>2. q \in Run /\ q.failed = run.failed
    BY <2>1 DEF Run
  <2>3. run' = Record(q, Answer(p))
    BY <1>4 DEF ReadPart, Continue
  <2>. HIDE DEF q
  <2>4. run'.failed = run.failed
    BY <2>2, <2>3, <1>4, RecordType, AnswerType
  <2>. QED  BY <1>0, <1>4, <2>1, <2>4, ReadPartKeepsKnown DEF KnownWhenClean, Running
<1>5. ASSUME NEW s \in Source, Write(s) PROVE KnownWhenClean'
  <2>1. run \in Run /\ pc = "write" /\ intact' = intact /\ run' = Take(s)
    BY <1>5 DEF Write, RunHolds, Running
  <2>2. run'.failed = run.failed
    BY <2>1, TakeType
  <2>. QED  BY <1>0, <1>5, <2>1, <2>2, WriteKeepsKnown DEF KnownWhenClean, Running
<1>6. CASE MarkSuccess
  <2>. DEFINE r == [run EXCEPT !.item = None]
  <2>1. run \in Run /\ pc = "mark" /\ intact' = intact /\ UNCHANGED <<listing, row, owner>>
        /\ run' = r /\ marked' = [marked EXCEPT ![run.item] = "success"]
    BY <1>6 DEF MarkSuccess, RunHolds, Running, Continue
  <2>2. /\ r.config = run.config /\ r.parts = run.parts /\ r.known = run.known /\ r.seen = run.seen
        /\ r.missing = run.missing /\ r.queue = run.queue /\ r.failed = run.failed
    BY <2>1 DEF Run
  <2>. HIDE DEF r
  <2>3. ASSUME NEW s \in Source, Known(s) PROVE Known(s)'
    <3>1. marked'[s] = IF s = run.item THEN "success" ELSE marked[s]
      BY <2>1 DEF TypeOK
    <3>. QED  BY <2>1, <2>2, <2>3, <3>1 DEF Known
  <2>. QED  BY <1>0, <2>1, <2>2, <2>3 DEF KnownWhenClean, Running
<1>7. CASE FindMissing
  <2>1. run \in Run /\ pc = "missing" /\ intact' = intact /\ run'.failed = run.failed
    BY <1>7 DEF FindMissing, RunHolds, Running, Continue, Run
  <2>. QED  BY <1>0, <1>7, <2>1, FindMissingKeepsKnown DEF KnownWhenClean, Running
<1>8. ASSUME \/ ConfigFails \/ MarkRaises
             \/ \E p \in Part : PartFails(p)
             \/ \E s \in Source : WriteRaises(s)
      PROVE  KnownWhenClean'
  <2>1. run \in Run
    BY <1>8 DEF ConfigFails, MarkRaises, PartFails, WriteRaises, RunHolds, Running
  <2>2. ASSUME NEW r \in Run, run' = [r EXCEPT !.failed = TRUE] \/ run' = [r EXCEPT !.parts = {}, !.failed = TRUE]
        PROVE  run'.failed
    BY <2>2 DEF Run
  <2>3. ASSUME NEW p \in Part, PartFails(p) PROVE run'.failed
    BY <2>1, <2>3 DEF PartFails, Continue, Run
  <2>4. run'.failed
    BY <1>8, <2>1, <2>2, <2>3, TakeType DEF ConfigFails, MarkRaises, WriteRaises, Continue
  <2>. QED  BY <2>4 DEF KnownWhenClean
<1>9. CASE MarkFailure
  <2>1. run \in Run /\ run.failed
    BY <1>9 DEF MarkFailure, RunHolds, Running
  <2>2. run'.failed
    BY <1>9, <2>1 DEF MarkFailure, Continue, Run
  <2>. QED  BY <2>2 DEF KnownWhenClean
<1>10. CASE UNCHANGED vars
  BY <1>10 DEF vars, KnownWhenClean, Known
<1>. QED
  BY <1>1, <1>2, <1>3, <1>4, <1>5, <1>6, <1>7, <1>8, <1>9, <1>10 DEF Next, Worker

\* The inductive invariant: the type, what the inventory in progress holds of the rows it
\* read, and what it knows of a source as long as nothing failed.
THEOREM Invariance == Spec => []IInv
<1>1. Init => IInv
  BY InitHolds DEF Init, IInv, KnownWhenClean, Running
<1>2. IInv /\ [Next]_vars => IInv'
  <2>. SUFFICES ASSUME IInv, [Next]_vars PROVE IInv'
    OBVIOUS
  <2>1. Rows' /\ RunHolds' /\ KnownWhenClean'
    BY NextRows, NextRunHolds, NextKnown DEF IInv
  <2>. QED  BY <2>1, NextRunHolds, NextHistory DEF IInv, TypeOK, Rows, Owned
<1>. QED  BY <1>1, <1>2, PTL DEF Spec

-------------------------------------------------------------------------------
(* What an inventory does                                                  *)

\* A source is never taken from one configuration to another: it leaves its own only
\* when that is deleted (ON DELETE SET NULL).
THEOREM OwnersStay == Spec => OwnerKept
<1>. DEFINE Stays == \A s \in Source : owner[s] # None /\ owner'[s] # owner[s] =>
                       owner'[s] = None /\ ~ config'[owner[s]].stored
<1>1. ASSUME IInv, [Next]_vars PROVE Stays
  <2>. SUFFICES ASSUME NEW s \in Source, owner[s] # None, owner'[s] # owner[s]
                PROVE  owner'[s] = None /\ ~ config'[owner[s]].stored
    OBVIOUS
  <2>0. /\ config \in [Config -> Configuration] /\ owner \in [Source -> Config \cup {None}]
        /\ owner[s] \in Config
    BY <1>1 DEF IInv, TypeOK
  <2>1. ASSUME NEW c \in Config, DeleteConfig(c)
        PROVE  owner'[s] = None /\ ~ config'[owner[s]].stored
    <3>1. owner[s] = c /\ owner'[s] = None
      BY <2>0, <2>1 DEF DeleteConfig
    <3>2. ~ config'[c].stored
      BY <2>0, <2>1 DEF DeleteConfig, Configuration
    <3>. QED  BY <3>1, <3>2
  <2>2. ASSUME NEW x \in Source, WriteSource(x) PROVE owner'[s] = owner[s]
    BY <2>0, <2>2 DEF WriteSource, Allowed
  <2>3. owner' = owner \/ (\E c \in Config : DeleteConfig(c)) \/ \E x \in Source : WriteSource(x)
    BY <1>1 DEF Next, World, Worker, vars, sources, Relist, SetActive, RequestInventory,
       UpdateSourceStatus, Start, BeginInventory, NextConfig, EndInventory, ConfigFails,
       ReadPart, PartFails, Write, WriteRaises, MarkSuccess, MarkRaises, MarkFailure,
       FindMissing, EndConfig, Crash
  <2>. QED  BY <2>1, <2>2, <2>3
<1>2. OwnerKept <=> [][Stays]_vars
  BY DEF OwnerKept
<1>3. IInv /\ [Next]_vars => [Stays]_vars
  BY <1>1
<1>. HIDE DEF Stays
<1>. QED  BY <1>2, <1>3, Invariance, PTL DEF Spec

\* deactivate_missing_sources, and a status written as it was listed, only deactivate a
\* source the provider lists as active once something has failed on the way.
THEOREM CleanKeeps == Spec => CleanInventoryKeeps
<1>. DEFINE Keeps == \A s \in Source : Deactivates(s) /\ ListedActive(run.config, s) => run.failed
<1>1. ASSUME IInv, [Next]_vars PROVE Keeps
  <2>. SUFFICES ASSUME NEW s \in Source, Deactivates(s), ListedActive(run.config, s), ~ run.failed
                PROVE  FALSE
    OBVIOUS
  <2>. USE <1>1
  <2>1. pc = "write" /\ row[s] = "active" /\ row'[s] = "inactive" /\ s \in intact'
    BY DEF Deactivates
  <2>2. run \in Run /\ row \in [Source -> State]
    BY <2>1 DEF IInv, TypeOK, RunHolds, Running
  <2>3. PICK x \in Source : WriteSource(x) /\ run.queue[x] # "absent" /\ intact' = intact
    <3>1. \/ row' = row
          \/ \E x \in Source : UpdateSourceStatus(x)
          \/ \E x \in Source : WriteSource(x) /\ run.queue[x] # "absent" /\ intact' = intact
      BY DEF Next, World, Worker, vars, sources, Relist, SetActive, RequestInventory, DeleteConfig,
         Start, BeginInventory, NextConfig, EndInventory, ConfigFails,
         ReadPart, PartFails, Write, WriteRaises, MarkSuccess, MarkRaises, MarkFailure,
         FindMissing, EndConfig, Crash
    <3>2. ASSUME NEW x \in Source, UpdateSourceStatus(x) PROVE FALSE
      BY <2>1, <2>2, <3>2 DEF UpdateSourceStatus
    <3>. QED  BY <2>1, <3>1, <3>2
  <2>4. x = s /\ run.queue[s] = "inactive"
    BY <2>1, <2>2, <2>3 DEF WriteSource
  <2>5. Known(s) /\ run.seen \subseteq Source
    BY <2>1, <2>2, <2>3 DEF IInv, KnownWhenClean, Running, Run
  <2>. DEFINE l == listing[run.config][s]
  <2>6. l.on /\ l.parts # {} /\ l.parts \subseteq Part
    BY <2>2 DEF ListedActive, Listed, IInv, TypeOK, Listing, Run
  <2>. HIDE DEF l
  <2>7. CASE s \in run.seen
    BY <2>4, <2>5, <2>6, <2>7 DEF Known, StatusOf, l
  <2>8. CASE s \notin run.seen
    <3>1. run.missing /\ run.parts = {}
      BY <2>1, <2>4, <2>5, <2>8 DEF Known, IInv, RunHolds, Running
    <3>2. l.parts \cap (Part \ run.parts) # {}
      BY <2>6, <3>1
    <3>. QED  BY <2>5, <2>8, <3>2 DEF Known, l
  <2>. QED  BY <2>7, <2>8
<1>2. CleanInventoryKeeps <=> [][Keeps]_vars
  BY DEF CleanInventoryKeeps
<1>3. IInv /\ [Next]_vars => [Keeps]_vars
  BY <1>1
<1>. HIDE DEF Keeps
<1>. QED  BY <1>2, <1>3, Invariance, PTL DEF Spec

\* clear_inventory_request: when the request is withdrawn, what the inventory knows of
\* an untouched source is all there is to know, and all of it was written.
LEMMA ServedKnows ==
  ASSUME IInv, [Next]_vars, NEW c \in Config, config[c].requested, ~ config'[c].requested,
         NEW s \in intact
  PROVE  /\ ListedActive(c, s) <=> owner[s] = c /\ row[s] = "active"
         /\ Listed(c, s) => owner[s] = c /\ marked[s] = "success"
<1>1. config \in [Config -> Configuration] /\ s \in Source
  BY DEF IInv, TypeOK
<1>2. EndConfig
  <2>1. \/ config' = config
        \/ EndConfig
        \/ \E d \in Config : SetActive(d) \/ RequestInventory(d) \/ DeleteConfig(d)
    BY DEF Next, World, Worker, vars, Relist, UpdateSourceStatus, Start, BeginInventory,
       NextConfig, EndInventory, ConfigFails, ReadPart, PartFails, Write, WriteRaises,
       MarkSuccess, MarkRaises, MarkFailure, FindMissing, Crash
  <2>2. ASSUME NEW d \in Config, SetActive(d) PROVE config'[c].requested
    BY <1>1, <2>2 DEF SetActive, Configuration
  <2>3. ASSUME NEW d \in Config, RequestInventory(d) PROVE config'[c].requested
    BY <1>1, <2>3 DEF RequestInventory, Configuration
  <2>4. ASSUME NEW d \in Config, DeleteConfig(d) PROVE config'[c].requested
    BY <1>1, <2>4 DEF DeleteConfig, Configuration
  <2>. QED  BY <2>1, <2>2, <2>3, <2>4
<1>3. pc = "end" /\ run \in Run /\ ~ run.failed /\ c = run.config
  BY <1>1, <1>2 DEF EndConfig, IInv, RunHolds, Running
<1>4. run.missing /\ run.parts = {} /\ run.queue[s] = "absent"
  BY <1>1, <1>3 DEF IInv, RunHolds, Running, Nothing
<1>5. Known(s)
  BY <1>3 DEF IInv, KnownWhenClean, Running
<1>. DEFINE l == listing[c][s]
<1>6. l.parts \subseteq Part /\ l.on \in BOOLEAN
  BY <1>1 DEF IInv, TypeOK, Listing
<1>. HIDE DEF l
<1>7. s \in run.seen <=> l.parts # {}
  BY <1>3, <1>4, <1>5, <1>6 DEF Known, l
<1>8. CASE s \in run.seen
  <2>1. owner[s] = c /\ row[s] = StatusOf(l) /\ marked[s] = "success"
    BY <1>3, <1>4, <1>5, <1>8 DEF Known, l
  <2>. QED  BY <1>7, <1>8, <2>1 DEF ListedActive, Listed, StatusOf, l
<1>9. CASE s \notin run.seen
  <2>1. ~ (owner[s] = c /\ row[s] = "active")
    BY <1>3, <1>4, <1>5, <1>9 DEF Known
  <2>. QED  BY <1>7, <1>9, <2>1 DEF ListedActive, Listed, l
<1>. QED  BY <1>8, <1>9

\* A request is only withdrawn when the tables say what the provider says.
THEOREM ServedCompletely == Spec => ServedIsComplete
<1>. DEFINE Complete(c) == \A s \in intact :
                             /\ ListedActive(c, s) <=> owner[s] = c /\ row[s] = "active"
                             /\ Listed(c, s) => owner[s] = c /\ marked[s] = "success"
            Served == \A c \in Config : config[c].requested /\ ~ config'[c].requested => Complete(c)
<1>1. ASSUME IInv, [Next]_vars PROVE Served
  BY <1>1, ServedKnows
<1>2. ServedIsComplete <=> [][Served]_vars
  BY DEF ServedIsComplete
<1>3. IInv /\ [Next]_vars => [Served]_vars
  BY <1>1
<1>. HIDE DEF Served
<1>. QED  BY <1>2, <1>3, Invariance, PTL DEF Spec

-------------------------------------------------------------------------------
(* One row for an external id                                              *)

\* The providers, the inventory and the tables only know sources of the catalogs, and two
\* that the same table knows by the same external id do not both have a row.
Separate ==
  \A c, d \in Config :
    (\E s \in Catalog[c], t \in Catalog[d] : ExternalId[s] = ExternalId[t]) =>
      config[c].type = config[d].type
ListedInCatalog == \A c \in Config, s \in Source : Listed(c, s) => s \in Catalog[c]
QueuedInCatalog ==
  pc \in Running /\ ~ run.missing =>
    \A s \in Source : run.queue[s] # "absent" => s \in Catalog[run.config]
OneRow ==
  \A c \in Config : \A s \in Catalog[c] : \A t \in SameId(c, s) :
    row[s] = "absent" \/ row[t] = "absent"
Apart == Separate /\ ListedInCatalog /\ QueuedInCatalog /\ OneRow

\* No request and no inventory changes the type of a configuration.
LEMMA TypesStay ==
  ASSUME TypeOK, [Next]_vars, NEW d \in Config
  PROVE  config'[d].type = config[d].type
<1>0. config \in [Config -> Configuration]
  BY DEF TypeOK
<1>1. ASSUME NEW c \in Config, SetActive(c) PROVE config'[d].type = config[d].type
  BY <1>0, <1>1 DEF SetActive, Configuration
<1>2. ASSUME NEW c \in Config, RequestInventory(c) PROVE config'[d].type = config[d].type
  BY <1>0, <1>2 DEF RequestInventory, Configuration
<1>3. ASSUME NEW c \in Config, DeleteConfig(c) PROVE config'[d].type = config[d].type
  BY <1>0, <1>3 DEF DeleteConfig, Configuration
<1>4. CASE EndConfig
  BY <1>0, <1>4 DEF EndConfig, Configuration
<1>5. \/ config' = config
      \/ EndConfig
      \/ \E c \in Config : SetActive(c) \/ RequestInventory(c) \/ DeleteConfig(c)
  BY DEF Next, World, Worker, vars, Relist, UpdateSourceStatus, Start, BeginInventory,
     NextConfig, EndInventory, ConfigFails, ReadPart, PartFails, Write, WriteRaises,
     MarkSuccess, MarkRaises, MarkFailure, FindMissing, Crash
<1>. QED  BY <1>1, <1>2, <1>3, <1>4, <1>5

LEMMA NextQueued ==
  ASSUME IInv, ListedInCatalog, QueuedInCatalog, [Next]_vars
  PROVE  QueuedInCatalog'
<1>0. TypeOK /\ RunHolds
  BY DEF IInv
<1>1. CASE UNCHANGED scheduler
  BY <1>1 DEF scheduler, QueuedInCatalog
<1>2. CASE Start \/ BeginInventory \/ EndInventory \/ EndConfig \/ Crash
  BY <1>2 DEF Start, BeginInventory, EndInventory, EndConfig, Crash, QueuedInCatalog, Running
<1>3. CASE NextConfig
  <2>1. PICK t \in todo : run' = NewRun(t)
    BY <1>3 DEF NextConfig
  <2>2. \A s \in Source : run'.queue[s] = "absent"
    BY <1>0, <2>1, NewRunType DEF Nothing
  <2>. QED  BY <2>2 DEF QueuedInCatalog
<1>4. ASSUME NEW p \in Part, ReadPart(p) PROVE QueuedInCatalog'
  <2>. DEFINE q == [run EXCEPT !.parts = @ \ {p}]
  <2>1. run \in Run /\ pc \in Running /\ ~ run.missing
    BY <1>0, <1>4 DEF ReadPart, RunHolds, Running
  <2>2. /\ q \in Run /\ q.config = run.config /\ q.missing = run.missing
        /\ q.queue = run.queue
    BY <2>1 DEF Run
  <2>3. run' = Record(q, Answer(p))
    BY <1>4 DEF ReadPart, Continue
  <2>. HIDE DEF q
  <2>4. /\ run'.config = run.config
        /\ \A s \in Source : run'.queue[s] =
             IF Answer(p)[s] = "absent" THEN run.queue[s] ELSE Answer(p)[s]
    BY <2>2, <2>3, RecordType, AnswerType
  <2>5. \A s \in Source : Answer(p)[s] # "absent" => Listed(run.config, s)
    BY DEF Answer, Listed
  <2>6. run.config \in Config
    BY <2>1 DEF Run
  <2>. QED  BY <2>1, <2>4, <2>5, <2>6 DEF QueuedInCatalog, ListedInCatalog
<1>5. ASSUME NEW s \in Source, Write(s) \/ WriteRaises(s) PROVE QueuedInCatalog'
  <2>1. run \in Run /\ pc \in Running
    BY <1>0, <1>5 DEF Write, WriteRaises, RunHolds, Running
  <2>2. run' = Take(s) \/ run' = [Take(s) EXCEPT !.failed = TRUE]
    BY <1>5 DEF Write, WriteRaises
  <2>3. /\ run'.config = run.config /\ run'.missing = run.missing
        /\ run'.queue = [run.queue EXCEPT ![s] = "absent"]
    BY <2>1, <2>2, TakeType DEF Run
  <2>4. \A x \in Source : run'.queue[x] # "absent" => run.queue[x] # "absent"
    BY <2>1, <2>3 DEF Run
  <2>. QED  BY <2>1, <2>3, <2>4 DEF QueuedInCatalog
<1>6. ASSUME \/ ConfigFails \/ MarkSuccess \/ MarkRaises \/ MarkFailure
             \/ \E p \in Part : PartFails(p)
      PROVE  QueuedInCatalog'
  <2>1. run \in Run /\ pc \in Running
    BY <1>0, <1>6 DEF ConfigFails, MarkSuccess, MarkRaises, MarkFailure, PartFails, RunHolds, Running
  <2>2. run'.config = run.config /\ run'.missing = run.missing /\ run'.queue = run.queue
    BY <1>6, <2>1 DEF ConfigFails, MarkSuccess, MarkRaises, MarkFailure, PartFails, Continue, Run
  <2>. QED  BY <2>1, <2>2 DEF QueuedInCatalog
<1>7. CASE FindMissing
  <2>1. run \in Run
    BY <1>0, <1>7 DEF FindMissing, RunHolds, Running
  <2>2. run'.missing
    BY <1>7, <2>1 DEF FindMissing, Continue, Run
  <2>. QED  BY <2>2 DEF QueuedInCatalog
<1>8. World => UNCHANGED scheduler
  BY DEF World, Relist, SetActive, RequestInventory, DeleteConfig, UpdateSourceStatus
<1>. QED
  BY <1>1, <1>2, <1>3, <1>4, <1>5, <1>6, <1>7, <1>8 DEF Next, Worker, vars, scheduler

\* The transaction that gives a source a row saw none of another type under its id.
LEMMA NextOneRow ==
  ASSUME IInv, Apart, [Next]_vars
  PROVE  OneRow'
<1>. USE CatalogAssumption
<1>0. /\ config \in [Config -> Configuration] /\ row \in [Source -> State]
      /\ \A c \in Config : Catalog[c] \subseteq Source
      /\ \A c \in Config, s \in Source : SameId(c, s) \subseteq Source
  BY DEF IInv, TypeOK, SameId
<1>1. \A c \in Config, s \in Source : SameId(c, s)' = SameId(c, s)
  BY TypesStay DEF IInv, SameId
<1>2. CASE \A s \in Source : row'[s] # "absent" => row[s] # "absent"
  BY <1>0, <1>1, <1>2 DEF Apart, OneRow
<1>3. ASSUME NEW x \in Source, WriteSource(x), ~ run.missing, run \in Run,
             x \in Catalog[run.config]
      PROVE  OneRow'
  <2>. DEFINE d == run.config
  <2>1. d \in Config /\ \A t \in SameId(d, x) : row[t] = "absent"
    BY <1>3 DEF WriteSource, Allowed, Run
  <2>2. \A s \in Source : s # x => row'[s] = row[s]
    BY <1>0, <1>3 DEF WriteSource
  <2>. SUFFICES ASSUME NEW c \in Config, NEW s \in Catalog[c], NEW t \in SameId(c, s)
                PROVE  row'[s] = "absent" \/ row'[t] = "absent"
    BY <1>0, <1>1 DEF OneRow
  <2>3. s \in Source /\ t \in Source /\ t # s /\ ExternalId[t] = ExternalId[s]
        /\ config[c].type # "ogo"
    BY <1>0 DEF SameId
  <2>. HIDE DEF d
  <2>4. CASE s = x
    <3>1. config[c].type = config[d].type
      BY <1>3, <2>1, <2>4 DEF Apart, Separate, d
    <3>2. t \in SameId(d, x)
      BY <2>3, <2>4, <3>1 DEF SameId
    <3>. QED  BY <2>1, <2>2, <2>3, <2>4, <3>2
  <2>5. CASE t = x
    <3>1. config[c].type = config[d].type
      BY <1>3, <2>1, <2>3, <2>5 DEF Apart, Separate, d
    <3>2. s \in SameId(d, x)
      BY <2>3, <2>5, <3>1 DEF SameId
    <3>. QED  BY <2>1, <2>2, <2>3, <2>5, <3>2
  <2>6. CASE s # x /\ t # x
    BY <2>2, <2>3, <2>6 DEF Apart, OneRow
  <2>. QED  BY <2>4, <2>5, <2>6
<1>4. ASSUME NEW x \in Source, Write(x) \/ WriteRaises(x) PROVE OneRow'
  <2>1. run \in Run /\ pc \in Running /\ run.queue[x] # "absent"
    BY <1>4 DEF Write, WriteRaises, IInv, RunHolds, Running
  <2>2. CASE row' = row
    BY <1>2, <2>2
  <2>3. CASE WriteSource(x) /\ run.missing
    <3>1. row[x] # "absent"
      BY <2>1, <2>3, NullAssumption DEF WriteSource, Allowed, IInv, TypeOK, Run
    <3>2. \A s \in Source : s # x => row'[s] = row[s]
      BY <1>0, <2>3 DEF WriteSource
    <3>. QED  BY <1>2, <3>1, <3>2
  <2>4. CASE WriteSource(x) /\ ~ run.missing
    <3>1. x \in Catalog[run.config]
      BY <2>1, <2>4 DEF Apart, QueuedInCatalog
    <3>. QED  BY <1>3, <2>1, <2>4, <3>1
  <2>. QED  BY <1>4, <2>2, <2>3, <2>4 DEF Write, WriteRaises
<1>5. ASSUME NEW x \in Source, UpdateSourceStatus(x) PROVE OneRow'
  BY <1>0, <1>2, <1>5 DEF UpdateSourceStatus
<1>6. \/ row' = row
      \/ \E x \in Source : Write(x) \/ WriteRaises(x) \/ UpdateSourceStatus(x)
  BY DEF Next, World, Worker, vars, sources, Relist, SetActive, RequestInventory, DeleteConfig,
     Start, BeginInventory, NextConfig, EndInventory, ConfigFails, ReadPart, PartFails,
     MarkSuccess, MarkRaises, MarkFailure, FindMissing, EndConfig, Crash
<1>. QED  BY <1>2, <1>4, <1>5, <1>6

LEMMA ApartInvariance == Spec => []Apart
<1>1. Init => Apart
  BY DEF Init, Apart, Separate, ListedInCatalog, Listed, Unlisted, QueuedInCatalog, Running,
     OneRow, Nothing, SameId
<1>2. ASSUME IInv, Apart, [Next]_vars PROVE Apart'
  <2>0. config \in [Config -> Configuration] /\ listing \in [Config -> [Source -> Listing]]
    BY <1>2 DEF IInv, TypeOK
  <2>1. Separate'
    BY <1>2, TypesStay DEF IInv, Apart, Separate
  <2>2. ListedInCatalog'
    <3>1. ASSUME NEW c \in Config, NEW s \in Source, Relist(c, s) PROVE ListedInCatalog'
      BY <1>2, <2>0, <3>1 DEF Relist, Apart, ListedInCatalog, Listed
    <3>2. listing' = listing \/ \E c \in Config, s \in Source : Relist(c, s)
      BY <1>2 DEF Next, World, Worker, vars, SetActive, RequestInventory, DeleteConfig,
         UpdateSourceStatus, Start, BeginInventory, NextConfig, EndInventory, ConfigFails,
         ReadPart, PartFails, Write, WriteRaises, MarkSuccess, MarkRaises, MarkFailure,
         FindMissing, EndConfig, Crash
    <3>. QED  BY <1>2, <3>1, <3>2 DEF Apart, ListedInCatalog, Listed
  <2>3. QueuedInCatalog' /\ OneRow'
    BY <1>2, NextQueued, NextOneRow DEF Apart
  <2>. QED  BY <2>1, <2>2, <2>3 DEF Apart
<1>. QED  BY <1>1, <1>2, Invariance, PTL DEF Spec

\* The upsert of the second of two sources with one external id fails at each inventory
\* that finds both listed, and with it the inventory.
THEOREM ConflictsStay == Spec => ConflictKeepsRequest
<1>1. ASSUME IInv, Apart, [Next]_vars PROVE KeepsConflict
  <2>. SUFFICES ASSUME NEW c \in Config, config[c].requested, ~ config'[c].requested,
                       NEW s \in intact, Listed(c, s),
                       NEW t \in intact \cap SameId(c, s), Listed(c, t)
                PROVE  FALSE
    BY DEF KeepsConflict
  <2>. USE <1>1
  <2>1. owner[s] = c /\ owner[t] = c
    BY ServedKnows
  <2>2. s \in Source /\ t \in Source /\ c # None
    BY NullAssumption DEF IInv, TypeOK
  <2>3. row[s] # "absent" /\ row[t] # "absent"
    BY <2>1, <2>2 DEF IInv, TypeOK
  <2>4. s \in Catalog[c]
    BY <2>2 DEF Apart, ListedInCatalog
  <2>. QED  BY <2>3, <2>4 DEF Apart, OneRow
<1>2. IInv /\ Apart /\ [Next]_vars => [KeepsConflict]_vars
  BY <1>1
<1>. QED  BY <1>2, Invariance, ApartInvariance, PTL DEF Spec, ConflictKeepsRequest
===============================================================================

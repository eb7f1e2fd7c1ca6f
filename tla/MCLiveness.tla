------------------------------- MODULE MCLiveness -------------------------------
(***************************************************************************)
(* A small instance of Correlator and two of Inventory side by side, for   *)
(* what each of them must do in the end.  A behaviour is that of one: the  *)
(* variables are those of the worker at work, the others' stay as they     *)
(* are, and its fairness is that of its module.                            *)
(***************************************************************************)
EXTENDS Integers

CONSTANT None

VARIABLES worker, pc, todo, faults,
          status, purge, alerts, current, registry, counted,
          config, listing, row, owner, marked, run, intact, asked

\* Two IPs and two sources, with attacks out of the order of their ids.
Attack == 1 .. 4
Correlating == INSTANCE Correlator WITH
  Ip <- {"ip1", "ip2"}, Source <- {"s1", "s2"},
  IpOf <- <<"ip1", "ip1", "ip1", "ip2">>,
  SourceOf <- <<"s1", "s2", "s1", "s2">>,
  OccurredAt <- <<2, 3, 1, 2>>,
  BatchSize <- 2, MaxFaults <- 1

\* Two configurations; the first in order never gets an answer.
Listing == INSTANCE Inventory WITH
  Config <- {"c1", "c2"}, Source <- {"s1"}, Part <- {"p1"},
  Catalog <- [c \in {"c1", "c2"} |-> IF c = "c1" THEN {} ELSE {"s1"}],
  ExternalId <- [s \in {"s1"} |-> 7],
  Unreachable <- {"c1"},
  MaxFaults <- 1

\* A configuration that lists two sources which, at Serenicity, have the same number.
Twins == INSTANCE Inventory WITH
  Config <- {"c2"}, Source <- {"s1", "s2"}, Part <- {"p1"},
  Catalog <- [c \in {"c2"} |-> {"s1", "s2"}],
  ExternalId <- [s \in {"s1", "s2"} |-> 7],
  Unreachable <- {},
  MaxFaults <- 0

ofCorrelator == <<status, purge, alerts, current, registry, counted>>
ofInventory == <<config, listing, row, owner, marked, run, intact, asked>>

LivenessInit ==
  \/ /\ worker = "correlator" /\ Correlating!Init
     /\ config = None /\ listing = None /\ row = None /\ owner = None
     /\ marked = None /\ run = None /\ intact = None /\ asked = None
  \/ /\ \/ worker = "inventory" /\ Listing!Init
        \/ worker = "twins" /\ Twins!Init
     /\ status = None /\ purge = None /\ alerts = None /\ current = None
     /\ registry = None /\ counted = None

\* A step of one of them.
OfCorrelator(A) == worker = "correlator" /\ A /\ UNCHANGED <<worker, ofInventory>>
OfInventory(A) == worker = "inventory" /\ A /\ UNCHANGED <<worker, ofCorrelator>>
OfTwins(A) == worker = "twins" /\ A /\ UNCHANGED <<worker, ofCorrelator>>

LivenessNext ==
  OfCorrelator(Correlating!Next) \/ OfInventory(Listing!Next) \/ OfTwins(Twins!Next)

all == <<worker, pc, todo, faults, ofCorrelator, ofInventory>>

LivenessSpec ==
  /\ LivenessInit
  /\ [][LivenessNext]_all
  /\ WF_all(OfCorrelator(Correlating!Worker))
  /\ WF_all(OfCorrelator(Correlating!CommitPurge))
  /\ WF_all(OfInventory(Listing!Worker))
  /\ WF_all(OfTwins(Twins!Worker))

\* EveryAttackSettles of Correlator: an attack in the queue is completed or purged in
\* the end, unless the worker dies.
EveryAttackSettles ==
  \A a \in Attack :
    worker = "correlator" /\ status[a] \in {"pending", "processing"} ~>
      worker = "correlator" /\ (status[a] \in {"completed", "deleted"} \/ pc = "down")

\* ConflictKeepsRequest of Inventory: as long as the provider lists both twins, the request
\* stays.
ConflictKeepsRequest == [][worker = "twins" => Twins!KeepsConflict]_all

\* EventuallyServed of Inventory: the requested inventory of the configuration whose
\* provider answers succeeds in the end, unless the scheduler dies or, again and again,
\* the provider lists a source in conflict with another, which only twins can be here.
Waits(w) == worker = w /\ config["c2"].active /\ config["c2"].requested
Served(w) == worker = w /\ (~ config["c2"].requested \/ ~ config["c2"].active \/ pc = "down")
Conflicts == worker = "twins" /\ Twins!Conflict("c2")
EventuallyServed ==
  /\ Waits("inventory") ~> Served("inventory")
  /\ []<>Conflicts \/ (Waits("twins") ~> Served("twins"))
===============================================================================

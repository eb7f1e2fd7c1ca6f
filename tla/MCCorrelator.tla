----------------------------- MODULE MCCorrelator -----------------------------
(***************************************************************************)
(* Small instances of Correlator, and of Screens, the requests that read   *)
(* the tables it writes.  A behaviour is one of the two: the variables are *)
(* those of the one at work, and the others' stay as they are.  The first  *)
(* one checks what the correlator writes, step by step; the screens only   *)
(* depend on what a commit may leave, which Screens has as actions.        *)
(***************************************************************************)
EXTENDS Correlator, Screens

CONSTANT None

\* Attacks that occur out of the order of their ids, two of them at the same instant:
\* one IP hit by three sources, one of them twice, and a second IP.
MCAttack == 1 .. 5
MCIpOf == <<"ip1", "ip1", "ip1", "ip1", "ip2">>
MCSourceOf == <<"s1", "s2", "s1", "s3", "s2">>
MCOccurredAt == <<2, 3, 1, 2, 2>>

\* A third IP, that only a screen shows, and two days; requests without a filter but
\* for the limit, and without the limit for one source, the first day and the alerts of all
\* three sources.
MCAddressOf == [ip1 |-> 1, ip2 |-> 2, ip3 |-> 3]
MCDayOf == <<1, 1, 2>>
MCFilter ==
  {[sources |-> Source, from |-> 1, to |-> 3, least |-> 2, limit |-> 2],
   [sources |-> {"s1"}, from |-> 1, to |-> 2, least |-> 3, limit |-> NoLimit]}

TablesInit ==
  /\ Init
  /\ \/ screen = None /\ stored = None /\ listed = None /\ request = NoRequest
     \/ ScreensInit

TablesNext ==
  \/ screen = None /\ Next /\ UNCHANGED screens
  \/ screen # None /\ ScreensNext /\ UNCHANGED vars

TablesSpec == TablesInit /\ [][TablesNext]_<<vars, screens>>
===============================================================================
